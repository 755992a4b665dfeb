---------------------------- MODULE PagesProofs ----------------------------
(***************************************************************************)
(* Theorems about the parts of the window that keep data of their own, for *)
(* any exchanges, rules, texts, calls and bounds: first of each part alone,*)
(* and at the end of the scenes they are composed of.                      *)
(***************************************************************************)
EXTENDS MCPages, SubsequenceProofs

-----------------------------------------------------------------------------
(* The traffic store                                                       *)

-----------------------------------------------------------------------------
(* Types                                                                   *)

\* The exchanges of a table of entries.
Tables == UNION {[S -> Entry] : S \in SUBSET Ids}

\* The operators that change a table leave a table.
LEMMA TableOps ==
  ASSUME NEW f \in Tables
  PROVE  /\ f \in [DOMAIN f -> Entry] /\ DOMAIN f \subseteq Ids
         /\ \A S : Keep(f, S) \in Tables /\ Drop(f, S) \in Tables
         /\ \A i \in Ids, e \in Entry : Put(f, i, e) \in Tables /\ Add(f, i, e) \in Tables
         /\ \A g \in Tables : Over(f, g) \in Tables
<1>1. f \in [DOMAIN f -> Entry] /\ DOMAIN f \subseteq Ids
  BY DEF Tables
<1>2. \A S : Keep(f, S) \in [DOMAIN f \cap S -> Entry] /\ Drop(f, S) \in [DOMAIN f \ S -> Entry]
  BY <1>1 DEF Keep, Drop
<1>3. \A i \in Ids, e \in Entry : /\ Put(f, i, e) \in [DOMAIN f -> Entry]
                                  /\ Add(f, i, e) \in [DOMAIN f \cup {i} -> Entry]
  BY <1>1 DEF Put, Add
<1>4. \A g \in Tables : Over(f, g) \in [DOMAIN f \cup DOMAIN g -> Entry]
                        /\ DOMAIN g \subseteq Ids
  BY <1>1 DEF Over, Tables
<1>5. \A S, T : S \subseteq Ids /\ T \in [S -> Entry] => T \in Tables
  BY DEF Tables
<1>6. \A S : (DOMAIN f \cap S) \subseteq Ids /\ (DOMAIN f \ S) \subseteq Ids
  BY <1>1
<1>7. \A i \in Ids : DOMAIN f \cup {i} \subseteq Ids
  BY <1>1
<1>8. \A g \in Tables : DOMAIN f \cup DOMAIN g \subseteq Ids
  BY <1>1, <1>4
<1>9. \A S : Keep(f, S) \in Tables /\ Drop(f, S) \in Tables
  BY <1>2, <1>5, <1>6
<1>10. \A i \in Ids, e \in Entry : Put(f, i, e) \in Tables /\ Add(f, i, e) \in Tables
  BY <1>1, <1>3, <1>5, <1>7
<1>11. \A g \in Tables : Over(f, g) \in Tables
  BY <1>4, <1>5, <1>8
<1> QED
  BY <1>1, <1>9, <1>10, <1>11

\* The conjuncts of the type invariant about tables, said with Tables.
LEMMA TablesAre ==
  /\ DOMAIN requests \subseteq Ids /\ requests \in [DOMAIN requests -> Entry] <=> requests \in Tables
  /\ DOMAIN map \subseteq Ids /\ map \in [DOMAIN map -> Entry] <=> map \in Tables
  /\ DOMAIN favorites \subseteq Ids /\ favorites \in [DOMAIN favorites -> Entry] <=> favorites \in Tables
  /\ DOMAIN snapshot \subseteq Ids /\ snapshot \in [DOMAIN snapshot -> Entry] <=> snapshot \in Tables
<1>1. ASSUME NEW f PROVE DOMAIN f \subseteq Ids /\ f \in [DOMAIN f -> Entry] <=> f \in Tables
  BY DEF Tables
<1> QED
  BY <1>1

\* The tables of the store and of the answer under way.
AreTables == {requests, map, favorites, snapshot} \subseteq Tables

\* What the type invariant says of the rest.
RestTypeOK ==
    /\ limit \in Limits \cup {Limit0}
    /\ fetch \in {"asked", "answered", "done"}
    /\ calls \subseteq [id : Ids, on : BOOLEAN, nth : Nat]
    /\ toggles \in Nat
    /\ db \subseteq Ids
    /\ arrived \subseteq Captured /\ answered \subseteq arrived
    /\ frames \in [Captured -> Nat]
    /\ loose \subseteq Ids
    /\ outdated \subseteq Ids
    /\ bound \in Bounds

LEMMA TypeParts == TrafficTypeOK <=> AreTables /\ RestTypeOK
BY TablesAre DEF TrafficTypeOK, AreTables, RestTypeOK

\* And of the next state.
LEMMA NextTypeParts == TrafficTypeOK' <=> AreTables' /\ RestTypeOK'
BY TypeParts, PTL

LEMMA Entries == /\ Fresh \in Entry /\ Nothing \in Tables
                 /\ \A e \in Entry : [e EXCEPT !.resp = TRUE] \in Entry
                                     /\ [e EXCEPT !.frames = @ + 1] \in Entry
                                     /\ \A b \in BOOLEAN : [e EXCEPT !.fav = b] \in Entry
<1>1. Nothing \in [{} -> Entry] /\ {} \in SUBSET Ids
  BY DEF Nothing
<1>2. Nothing \in Tables
  BY <1>1 DEF Tables
<1>3. Fresh \in Entry
  BY DEF Entry, Fresh
<1>4. \A e \in Entry : [e EXCEPT !.resp = TRUE] \in Entry
                       /\ [e EXCEPT !.frames = @ + 1] \in Entry
                       /\ \A b \in BOOLEAN : [e EXCEPT !.fav = b] \in Entry
  <2> TAKE e \in Entry
  <2>1. [e EXCEPT !.resp = TRUE] \in Entry
    BY DEF Entry
  <2>2. [e EXCEPT !.frames = @ + 1] \in Entry
    BY DEF Entry
  <2>3. ASSUME NEW b \in BOOLEAN PROVE [e EXCEPT !.fav = b] \in Entry
    BY DEF Entry
  <2> QED
    BY <2>1, <2>2, <2>3
<1> QED
  BY <1>2, <1>3, <1>4

\* An entry that a row or a page can offer is one.
LEMMA FoundEntry ==
  ASSUME AreTables, NEW i \in Known
  PROVE  Found(i) \in Entry /\ i \in Ids
BY TableOps DEF AreTables, Found, Known

\* The handlers of the traffic, with the bounds of their inputs.
LEMMA TrafficActions ==
  ASSUME RestTypeOK, [TrafficNext]_trafficVars
  PROVE  \/ \E i \in Captured : AddRequest(i) \/ UpdateResponse(i) \/ AddFrame(i)
         \/ FavoritesRead \/ SetFavorites \/ \E c \in calls : ToggleStored(c)
         \/ \E i \in Ids : ToggleFavorite(i)
         \/ \E S \in SUBSET Ids : Remove(S)
         \/ \E S \in SUBSET Ids : \E A \in SUBSET S : Import(S, A)
         \/ Clear \/ Cleanup
         \/ \E n \in Limits : SetMaxRequests(n)
         \/ UNCHANGED trafficVars
<1>1. bound.files \subseteq SUBSET Ids
  BY TrafficAssumption DEF RestTypeOK
<1>2. (\E S \in bound.files : \E A \in SUBSET S : Import(S, A))
      => \E S \in SUBSET Ids : \E A \in SUBSET S : Import(S, A)
  BY <1>1
<1> QED
  BY Zenon, <1>2 DEF TrafficNext, TrafficEvents, FavoriteCalls

\* Every handler and every answer is well typed.
LEMMA TypeStep == TrafficTypeOK /\ [TrafficNext]_trafficVars => TrafficTypeOK'
<1> SUFFICES ASSUME AreTables, RestTypeOK, [TrafficNext]_trafficVars
             PROVE  AreTables' /\ RestTypeOK'
  BY TypeParts, NextTypeParts
<1>1. ASSUME NEW i \in Captured, AddRequest(i) PROVE AreTables' /\ RestTypeOK'
  <2>1. Add(requests, i, Fresh) \in Tables /\ Add(map, i, Fresh) \in Tables
    BY TableOps, Entries DEF AreTables, Ids
  <2> QED
    BY <1>1, <2>1, TableOps DEF AddRequest, saved, AreTables, RestTypeOK
<1>2. ASSUME NEW i \in Captured, NEW e \in Entry, Show(i, e), UNCHANGED snapshot
      PROVE  AreTables'
  BY <1>2, TableOps DEF Show, AreTables, Ids
<1>3. ASSUME NEW i \in Captured, UpdateResponse(i) PROVE AreTables' /\ RestTypeOK'
  <2>1. AreTables'
    <3>1. CASE i \in DOMAIN map
      <4>1. [map[i] EXCEPT !.resp = TRUE] \in Entry
        BY <3>1, TableOps, Entries DEF AreTables
      <4> QED
        BY <1>2, <1>3, <3>1, <4>1 DEF UpdateResponse, saved
    <3>2. CASE i \notin DOMAIN map
      BY <1>3, <3>2 DEF UpdateResponse, saved, AreTables
    <3> QED
      BY <3>1, <3>2
  <2> QED
    BY <1>3, <2>1 DEF UpdateResponse, saved, RestTypeOK
<1>4. ASSUME NEW i \in Captured, AddFrame(i) PROVE AreTables' /\ RestTypeOK'
  <2>1. AreTables'
    <3>1. CASE i \in DOMAIN map
      <4>1. [map[i] EXCEPT !.frames = @ + 1] \in Entry
        BY <3>1, TableOps, Entries DEF AreTables
      <4> QED
        BY <1>2, <1>4, <3>1, <4>1 DEF AddFrame, saved
    <3>2. CASE i \notin DOMAIN map
      BY <1>4, <3>2 DEF AddFrame, saved, AreTables
    <3> QED
      BY <3>1, <3>2
  <2> QED
    BY <1>4, <2>1 DEF AddFrame, saved, RestTypeOK
<1>5. CASE FavoritesRead
  <2>1. snapshot' \in [db -> Entry]
    BY <1>5 DEF FavoritesRead, Entry
  <2>2. snapshot' \in Tables
    BY <2>1 DEF Tables, RestTypeOK
  <2> QED
    BY <1>5, <2>2 DEF FavoritesRead, store, told, AreTables, RestTypeOK
<1>6. CASE SetFavorites
  BY <1>6, Entries DEF SetFavorites, told, AreTables, RestTypeOK
<1>7. ASSUME NEW c \in calls, ToggleStored(c) PROVE AreTables' /\ RestTypeOK'
  BY <1>7 DEF ToggleStored, store, told, AreTables, RestTypeOK
<1>8. ASSUME NEW i \in Ids, ToggleFavorite(i) PROVE AreTables' /\ RestTypeOK'
  <2>1. Found(i) \in Entry
    BY <1>8, FoundEntry DEF ToggleFavorite
  <2> DEFINE on == ~ Found(i).fav
  <2>2. on \in BOOLEAN /\ [Found(i) EXCEPT !.fav = TRUE] \in Entry
    BY <2>1, Entries
  <2>3. i \in DOMAIN requests => [requests[i] EXCEPT !.fav = on] \in Entry
    BY <2>2, TableOps, Entries DEF AreTables
  <2> HIDE DEF on
  <2>4. requests' \in Tables /\ favorites' \in Tables
    BY <1>8, <2>2, <2>3, TableOps DEF ToggleFavorite, AreTables, on
  <2>5. [id |-> i, on |-> on, nth |-> toggles + 1] \in [id : Ids, on : BOOLEAN, nth : Nat]
    BY <2>2 DEF RestTypeOK
  <2>6. calls' = calls \cup {[id |-> i, on |-> on, nth |-> toggles + 1]}
    BY <1>8 DEF ToggleFavorite, on
  <2>7. RestTypeOK'
    BY <1>8, <2>5, <2>6 DEF ToggleFavorite, told, RestTypeOK
  <2> QED
    BY <1>8, <2>4, <2>7 DEF ToggleFavorite, AreTables
<1>9. ASSUME NEW S \in SUBSET Ids, Remove(S) PROVE AreTables' /\ RestTypeOK'
  BY <1>9, TableOps DEF Remove, told, AreTables, RestTypeOK
<1>10. ASSUME NEW S \in SUBSET Ids, NEW A \in SUBSET S, Import(S, A) PROVE AreTables' /\ RestTypeOK'
  <2>1. Parsed(S, A) \in [S -> Entry]
    BY DEF Parsed, Entry
  <2>2. Parsed(S, A) \in Tables
    BY <2>1 DEF Tables
  <2>3. outdated' \subseteq Ids
    BY <1>10 DEF Import
  <2> QED
    BY <1>10, <2>2, <2>3, TableOps DEF Import, told, AreTables, RestTypeOK
<1>11. CASE Clear
  BY <1>11, Entries DEF Clear, saved, told, AreTables, RestTypeOK
<1>12. CASE Cleanup
  BY <1>12, TableOps DEF Cleanup, saved, told, AreTables, RestTypeOK
<1>13. ASSUME NEW n \in Limits, SetMaxRequests(n) PROVE AreTables' /\ RestTypeOK'
  BY <1>13 DEF SetMaxRequests, saved, told, AreTables, RestTypeOK
<1>14. CASE UNCHANGED trafficVars
  BY <1>14 DEF trafficVars, store, saved, told, AreTables, RestTypeOK
<1> QED
  BY Zenon, <1>1, <1>3, <1>4, <1>5, <1>6, <1>7, <1>8, <1>9, <1>10, <1>11, <1>12, <1>13, <1>14, TrafficActions

\* Whatever arrives and whatever the user does, the store keeps the shapes that
\* useProxyStore.ts declares.
THEOREM TrafficTypeCorrect == TrafficSpec => []TrafficTypeOK
<1>1. TrafficInit => TrafficTypeOK
  <2> SUFFICES ASSUME TrafficInit PROVE AreTables /\ RestTypeOK
    BY TypeParts
  <2> QED
    BY TrafficAssumption, Entries DEF TrafficInit, AreTables, RestTypeOK, Ids, Older
<1> QED
  BY <1>1, TypeStep, PTL DEF TrafficSpec

-----------------------------------------------------------------------------
(* The copies of an exchange agree                                         *)

\* A table holds nothing of a captured exchange that has not been told.
NotAhead(f) == \A i \in Captured \cap DOMAIN f : /\ f[i].resp => i \in answered
                                                /\ f[i].frames <= frames[i]

\* What is listed is in the map, in the same copy, and a captured exchange is up to
\* date, unless an import brought another copy; no table is ahead of what was told.
\* No more is said of the copies of a captured exchange outside the list: one read
\* from the database, or left in the map by Clear, may be out of date.
CopiesInv ==
    /\ DOMAIN requests \subseteq DOMAIN map
    /\ DOMAIN requests \cap Captured \subseteq arrived
    /\ \A i \in DOMAIN requests \ outdated : Same(requests[i], map[i])
    /\ \A i \in (Captured \cap DOMAIN requests) \ outdated : Current(i, requests[i])
    /\ NotAhead(requests) /\ NotAhead(map) /\ NotAhead(favorites) /\ NotAhead(snapshot)
    /\ \A i \in Captured \ arrived : frames[i] = 0

\* A table is no further ahead when more has been told.
LEMMA StaysBehind ==
  ASSUME TrafficTypeOK, TrafficTypeOK', NEW f \in Tables, NotAhead(f), answered \subseteq answered',
         \A i \in Captured : frames[i] <= frames'[i],
         NEW g \in Tables, DOMAIN g \subseteq DOMAIN f, \A i \in DOMAIN g : Same(g[i], f[i])
  PROVE  \A i \in Captured \cap DOMAIN g : /\ g[i].resp => i \in answered'
                                           /\ g[i].frames <= frames'[i]
<1> TAKE i \in Captured \cap DOMAIN g
<1>1. g[i].resp = f[i].resp /\ g[i].frames = f[i].frames /\ i \in Captured \cap DOMAIN f
  BY DEF Same
<1>2. (f[i].resp => i \in answered) /\ f[i].frames <= frames[i] /\ frames[i] <= frames'[i]
  BY <1>1 DEF NotAhead
<1>3. f[i].frames \in Nat /\ frames[i] \in Nat /\ frames'[i] \in Nat
  BY <1>1, TableOps DEF Entry, TrafficTypeOK
<1>4. f[i].frames <= frames'[i]
  BY <1>2, <1>3
<1> QED
  BY <1>1, <1>2, <1>4

\* A response or a frame comes to an entry made from the one in the map.
LEMMA ShowKeepsCopies ==
  ASSUME TrafficTypeOK, TrafficTypeOK', CopiesInv, NEW i \in Captured, NEW e \in Entry,
         Show(i, e), UNCHANGED <<saved, arrived>>, i \in arrived,
         e.resp => i \in answered', e.frames <= frames'[i],
         Current(i, map[i]) => e.resp = (i \in answered') /\ e.frames = frames'[i],
         answered \subseteq answered', \A j \in Captured : frames[j] <= frames'[j],
         \A j \in Captured \ {i} : frames'[j] = frames[j] /\ (j \in answered' <=> j \in answered)
  PROVE  CopiesInv'
<1>a. AreTables /\ AreTables'
  BY TypeParts, NextTypeParts
<1>1. /\ requests' = Put(requests, i, e) /\ map' = Put(map, i, e) /\ favorites' = Put(favorites, i, e)
      /\ snapshot' = snapshot /\ outdated' = outdated /\ arrived' = arrived
  BY DEF Show, saved
<1>2. ASSUME NEW f \in Tables, NotAhead(f), NEW g \in Tables, g = Put(f, i, e)
      PROVE  \A j \in Captured \cap DOMAIN g : (g[j].resp => j \in answered') /\ g[j].frames <= frames'[j]
  <2>1. ASSUME NEW j \in Captured \cap DOMAIN g, j # i
        PROVE  (g[j].resp => j \in answered') /\ g[j].frames <= frames'[j]
    <3>1. j \in Captured \cap DOMAIN f /\ g[j] = f[j] /\ frames'[j] = frames[j]
      BY <1>2, <2>1 DEF Put
    <3> QED
      BY <1>2, <3>1 DEF NotAhead
  <2>2. i \in DOMAIN g => g[i] = e
    BY <1>2 DEF Put
  <2> QED
    BY <2>1, <2>2
<1>3. NotAhead(requests)' /\ NotAhead(map)' /\ NotAhead(favorites)'
  BY <1>a, <1>1, <1>2 DEF NotAhead, CopiesInv, AreTables
<1>4. NotAhead(snapshot)'
  <2>1. \A j \in Captured \cap DOMAIN snapshot : (snapshot[j].resp => j \in answered')
                                               /\ snapshot[j].frames <= frames'[j]
    BY <1>a, StaysBehind DEF CopiesInv, AreTables, Same
  <2> QED
    BY <1>1, <2>1 DEF NotAhead
<1>5. \A j \in DOMAIN requests' \ outdated' : Same(requests'[j], map'[j])
  BY <1>1 DEF CopiesInv, Put, Same
<1>6. ASSUME NEW j \in (Captured \cap DOMAIN requests') \ outdated' PROVE Current(j, requests[j])'
  <2>1. j \in (Captured \cap DOMAIN requests) \ outdated /\ j \in DOMAIN map
    BY <1>1 DEF Put, CopiesInv
  <2>2. Current(j, requests[j]) /\ Same(requests[j], map[j])
    BY <2>1 DEF CopiesInv
  <2>3. CASE j = i
    BY <1>1, <2>1, <2>2, <2>3 DEF Put, Same, Current
  <2>4. CASE j # i
    BY <1>1, <2>1, <2>2, <2>4 DEF Put, Current
  <2> QED
    BY <2>3, <2>4
<1>7. DOMAIN requests' \subseteq DOMAIN map' /\ DOMAIN requests' \cap Captured \subseteq arrived'
  BY <1>1 DEF Put, CopiesInv
<1>8. \A j \in Captured \ arrived' : frames'[j] = 0
  BY <1>1 DEF CopiesInv
<1> QED
  BY <1>3, <1>4, <1>5, <1>6, <1>7, <1>8 DEF CopiesInv

\* A step after which nothing else has been told, and that only leaves out entries
\* or changes hearts, keeps what is listed as it is in the map.
LEMMA PartsKeepCopies ==
  ASSUME TrafficTypeOK, TrafficTypeOK', CopiesInv, UNCHANGED told, outdated' = outdated,
         DOMAIN requests' \subseteq DOMAIN requests, DOMAIN requests' \subseteq DOMAIN map',
         \A i \in DOMAIN requests' : Same(requests'[i], requests[i]) /\ Same(map'[i], map[i]),
         NotAhead(map)', NotAhead(favorites)', NotAhead(snapshot)'
  PROVE  CopiesInv'
<1>1. requests \in Tables /\ requests' \in Tables
  BY TypeParts, NextTypeParts DEF AreTables
<1>2. answered' = answered /\ frames' = frames /\ arrived' = arrived
  BY DEF told
<1>3. frames \in [Captured -> Nat]
  BY DEF TrafficTypeOK
<1>4. \A i \in Captured : frames[i] <= frames'[i]
  BY <1>2, <1>3
<1>5. NotAhead(requests)'
  <2>1. \A i \in DOMAIN requests' : Same(requests'[i], requests[i])
    OBVIOUS
  <2>2. \A i \in Captured \cap DOMAIN requests' : (requests'[i].resp => i \in answered')
                                                /\ requests'[i].frames <= frames'[i]
    BY <1>1, <1>2, <1>4, <2>1, StaysBehind DEF CopiesInv
  <2> QED
    BY <2>2 DEF NotAhead
<1>6. \A i \in DOMAIN requests' \ outdated' : Same(requests'[i], map'[i])
  BY DEF CopiesInv, Same
<1>7. \A i \in (Captured \cap DOMAIN requests') \ outdated' : Current(i, requests[i])'
  BY <1>2 DEF CopiesInv, Same, Current
<1> QED
  BY <1>2, <1>5, <1>6, <1>7 DEF CopiesInv

\* The entries of a file, and those that are nowhere else, are not ahead either.
LEMMA NewEntries ==
  ASSUME TrafficTypeOK
  PROVE  /\ Fresh.resp = FALSE /\ Fresh.frames = 0 /\ NotAhead(Nothing)
         /\ \A S, A : A \cap Captured \subseteq answered => NotAhead(Parsed(S, A))
<1>1. Fresh.resp = FALSE /\ Fresh.frames = 0
  BY DEF Fresh
<1>2. \A i \in Captured : frames[i] \in Nat
  BY DEF TrafficTypeOK
<1>3. NotAhead(Nothing)
  BY DEF NotAhead, Nothing
<1>4. ASSUME NEW S, NEW A, A \cap Captured \subseteq answered, NEW i \in Captured \cap DOMAIN Parsed(S, A)
      PROVE  (Parsed(S, A)[i].resp => i \in answered) /\ Parsed(S, A)[i].frames <= frames[i]
  <2>1. i \in S /\ (Parsed(S, A)[i].resp => i \in A) /\ Parsed(S, A)[i].frames = 0
    BY <1>4 DEF Parsed
  <2> QED
    BY <1>2, <1>4, <2>1
<1> QED
  BY <1>1, <1>3, <1>4 DEF NotAhead

\* No handler parts the copies, but for an import, which says which.
LEMMA CopiesStep == TrafficTypeOK /\ TrafficTypeOK' /\ CopiesInv /\ [TrafficNext]_trafficVars => CopiesInv'
<1> SUFFICES ASSUME TrafficTypeOK, TrafficTypeOK', CopiesInv, [TrafficNext]_trafficVars PROVE CopiesInv'
  OBVIOUS
<1>a. AreTables /\ AreTables' /\ RestTypeOK /\ RestTypeOK'
  BY TypeParts, NextTypeParts
<1>b. \A i \in Captured : frames[i] \in Nat
  BY <1>a DEF RestTypeOK
<1>c. ASSUME UNCHANGED told
      PROVE  \A i \in Captured : frames[i] <= frames'[i] /\ (i \in answered => i \in answered')
  BY <1>b, <1>c DEF told
<1>d. NotAhead(requests) /\ NotAhead(map) /\ NotAhead(favorites) /\ NotAhead(snapshot)
  BY DEF CopiesInv
<1>1. ASSUME NEW i \in Captured, AddRequest(i) PROVE CopiesInv'
  <2>1. \A j \in DOMAIN requests' : j = i \/ j \in DOMAIN requests
    BY <1>1 DEF AddRequest, Keep, Add
  <2>2. \A j \in DOMAIN requests' : /\ j \in DOMAIN map'
                                   /\ requests'[j] = (IF j = i THEN Fresh ELSE requests[j])
                                   /\ map'[j] = (IF j = i THEN Fresh ELSE map[j])
    BY <1>1, <2>1 DEF AddRequest, Keep, Drop, Add, CopiesInv
  <2>3. \A j \in DOMAIN map' : map'[j] = (IF j = i THEN Fresh ELSE map[j]) /\ (j # i => j \in DOMAIN map)
    BY <1>1 DEF AddRequest, Drop, Add
  <2>4. i \notin arrived /\ i \notin answered /\ frames[i] = 0 /\ arrived' = arrived \cup {i}
        /\ answered' = answered /\ frames' = frames /\ outdated' = outdated
        /\ favorites' = favorites /\ snapshot' = snapshot
    BY <1>1, <1>a DEF AddRequest, RestTypeOK, CopiesInv, saved
  <2>5. Fresh.resp = FALSE /\ Fresh.frames = 0
    BY DEF Fresh
  <2>6. NotAhead(requests)' /\ NotAhead(map)'
    BY <1>d, <2>1, <2>2, <2>3, <2>4, <2>5 DEF NotAhead
  <2>7. NotAhead(favorites)' /\ NotAhead(snapshot)'
    BY <1>d, <2>4 DEF NotAhead
  <2>8. ASSUME NEW j \in (Captured \cap DOMAIN requests') \ outdated' PROVE Current(j, requests[j])'
    <3>1. CASE j = i
      <4>1. requests'[j].resp = FALSE /\ requests'[j].frames = 0
        BY <2>2, <2>5, <3>1
      <4>2. (j \in answered') = FALSE /\ frames'[j] = 0
        BY <2>4, <3>1
      <4> QED
        BY <4>1, <4>2 DEF Current
    <3>2. CASE j # i
      <4>1. j \in (Captured \cap DOMAIN requests) \ outdated /\ requests'[j] = requests[j]
        BY <2>1, <2>2, <2>4, <3>2
      <4>2. Current(j, requests[j])
        BY <4>1 DEF CopiesInv
      <4> QED
        BY <2>4, <4>1, <4>2 DEF Current
    <3> QED
      BY <3>1, <3>2
  <2>9. \A j \in DOMAIN requests' \ outdated' : Same(requests'[j], map'[j])
    BY <2>1, <2>2, <2>4 DEF Same, CopiesInv
  <2>10. DOMAIN requests' \cap Captured \subseteq arrived'
    BY <2>1, <2>4 DEF CopiesInv
  <2> QED
    BY <2>2, <2>4, <2>6, <2>7, <2>8, <2>9, <2>10 DEF CopiesInv
<1>2. ASSUME NEW i \in Captured, UpdateResponse(i) PROVE CopiesInv'
  <2>1. answered' = answered \cup {i} /\ frames' = frames /\ i \in arrived /\ UNCHANGED <<saved, arrived>>
    BY <1>2 DEF UpdateResponse
  <2>2. \A j \in Captured : frames[j] <= frames'[j]
    BY <1>b, <2>1
  <2>3. CASE i \in DOMAIN map
    <3> DEFINE e == [map[i] EXCEPT !.resp = TRUE]
    <3>1. map[i] \in Entry
      BY <1>a, <2>3, TableOps DEF AreTables
    <3>2. e \in Entry /\ e.resp /\ e.frames = map[i].frames
      BY <3>1, Entries DEF Entry
    <3>3. e.frames <= frames'[i]
      BY <1>d, <2>1, <2>3, <3>2 DEF NotAhead
    <3>4. Show(i, e)
      BY <1>2, <2>3 DEF UpdateResponse
    <3>5. Current(i, map[i]) => e.resp = (i \in answered') /\ e.frames = frames'[i]
      BY <2>1, <3>2 DEF Current
    <3>6. e.resp => i \in answered'
      BY <2>1
    <3>7. answered \subseteq answered'
          /\ \A j \in Captured \ {i} : frames'[j] = frames[j] /\ (j \in answered' <=> j \in answered)
      BY <2>1
    <3> HIDE DEF e
    <3> QED
      BY <2>1, <2>2, <3>2, <3>3, <3>4, <3>5, <3>6, <3>7, ShowKeepsCopies
  <2>4. CASE i \notin DOMAIN map
    <3>1. UNCHANGED <<requests, map, favorites>> /\ i \notin DOMAIN requests
      BY <1>2, <2>4 DEF UpdateResponse, CopiesInv
    <3> QED
      BY <2>1, <3>1 DEF CopiesInv, NotAhead, Current, Same, saved
  <2> QED
    BY <2>3, <2>4
<1>3. ASSUME NEW i \in Captured, AddFrame(i) PROVE CopiesInv'
  <2>1. \A j \in Captured : frames'[j] = IF j = i THEN frames[i] + 1 ELSE frames[j]
    BY <1>3, <1>a DEF AddFrame, RestTypeOK
  <2>2. answered' = answered /\ i \in arrived /\ UNCHANGED <<saved, arrived>>
    BY <1>3 DEF AddFrame
  <2>3. \A j \in Captured : frames[j] <= frames'[j]
    BY <1>b, <2>1
  <2>4. CASE i \in DOMAIN map
    <3> DEFINE e == [map[i] EXCEPT !.frames = @ + 1]
    <3>1. map[i] \in Entry
      BY <1>a, <2>4, TableOps DEF AreTables
    <3>2. e \in Entry /\ e.resp = map[i].resp /\ e.frames = map[i].frames + 1 /\ map[i].frames \in Nat
      BY <3>1, Entries DEF Entry
    <3>3. map[i].frames <= frames[i] /\ (map[i].resp => i \in answered)
      BY <1>d, <2>4 DEF NotAhead
    <3>4. e.frames <= frames'[i]
      BY <1>b, <2>1, <3>2, <3>3
    <3>5. Show(i, e)
      BY <1>3, <2>4 DEF AddFrame
    <3>6. Current(i, map[i]) => e.resp = (i \in answered') /\ e.frames = frames'[i]
      BY <2>1, <2>2, <3>2 DEF Current
    <3>7. e.resp => i \in answered'
      BY <2>2, <3>2, <3>3
    <3>8. answered \subseteq answered'
          /\ \A j \in Captured \ {i} : frames'[j] = frames[j] /\ (j \in answered' <=> j \in answered)
      BY <2>1, <2>2
    <3> HIDE DEF e
    <3> QED
      BY <2>2, <2>3, <3>2, <3>4, <3>5, <3>6, <3>7, <3>8, ShowKeepsCopies
  <2>5. CASE i \notin DOMAIN map
    <3>1. UNCHANGED <<requests, map, favorites>> /\ i \notin DOMAIN requests
      BY <1>3, <2>5 DEF AddFrame, CopiesInv
    <3>2. UNCHANGED <<snapshot, outdated>>
      BY <2>2 DEF saved
    <3>3. ASSUME NEW f \in Tables, NotAhead(f)
          PROVE  \A j \in Captured \cap DOMAIN f : (f[j].resp => j \in answered') /\ f[j].frames <= frames'[j]
      BY <2>2, <2>3, <3>3, StaysBehind DEF Same
    <3>4. NotAhead(requests)' /\ NotAhead(map)' /\ NotAhead(favorites)' /\ NotAhead(snapshot)'
      BY <1>a, <1>d, <3>1, <3>2, <3>3 DEF NotAhead, AreTables
    <3>5. \A j \in (Captured \cap DOMAIN requests') \ outdated' : Current(j, requests[j])'
      BY <2>1, <2>2, <3>1, <3>2 DEF CopiesInv, Current
    <3> QED
      BY <2>1, <2>2, <3>1, <3>2, <3>4, <3>5 DEF CopiesInv
  <2> QED
    BY <2>4, <2>5
<1>4. CASE FavoritesRead
  <2>1. NotAhead(snapshot)'
    <3>1. \A j \in DOMAIN snapshot' : (snapshot'[j].resp => j \in Earlier \cup answered)
                                      /\ snapshot'[j].frames = 0
      BY <1>4 DEF FavoritesRead
    <3>2. Earlier \cap Captured = {}
      BY TrafficAssumption DEF Ids, Older
    <3>3. answered' = answered /\ frames' = frames
      BY <1>4 DEF FavoritesRead, told
    <3>4. ASSUME NEW j \in Captured \cap DOMAIN snapshot'
          PROVE  (snapshot'[j].resp => j \in answered') /\ snapshot'[j].frames <= frames'[j]
      <4>1. snapshot'[j].resp => j \in answered'
        BY <3>1, <3>2, <3>3
      <4>2. snapshot'[j].frames = 0 /\ frames'[j] \in Nat
        BY <1>b, <3>1, <3>3
      <4> QED
        BY <4>1, <4>2
    <3> QED
      BY <3>4 DEF NotAhead
  <2> QED
    BY <1>4, <2>1 DEF FavoritesRead, store, told, CopiesInv, NotAhead, Current
<1>5. CASE SetFavorites
  BY <1>5 DEF SetFavorites, told, Nothing, CopiesInv, NotAhead, Current
<1>6. ASSUME NEW c \in calls, ToggleStored(c) PROVE CopiesInv'
  BY <1>6 DEF ToggleStored, store, told, CopiesInv, NotAhead, Current
<1>7. ASSUME NEW i \in Ids, ToggleFavorite(i) PROVE CopiesInv'
  <2>1. Found(i) \in Entry
    BY <1>7, <1>a, FoundEntry DEF ToggleFavorite
  <2>2. \A e \in Entry, b \in BOOLEAN : Same([e EXCEPT !.fav = b], e)
    BY DEF Entry, Same
  <2>3. (~ Found(i).fav) \in BOOLEAN /\ UNCHANGED <<map, snapshot, outdated, told>>
    BY <1>7, <2>1 DEF ToggleFavorite, Entry
  <2>4. DOMAIN requests' = DOMAIN requests
        /\ \A j \in DOMAIN requests : Same(requests'[j], requests[j])
    <3>1. \A j \in DOMAIN requests : requests[j] \in Entry
      BY <1>a, TableOps DEF AreTables
    <3>2. PICK b \in BOOLEAN : requests' = IF i \in DOMAIN requests
                 THEN Put(requests, i, [requests[i] EXCEPT !.fav = b]) ELSE requests
      BY <1>7, <2>3 DEF ToggleFavorite
    <3>3. \A j \in DOMAIN requests : requests'[j] = requests[j]
                                     \/ requests'[j] = [requests[j] EXCEPT !.fav = b]
      BY <3>2 DEF Put
    <3>4. DOMAIN requests' = DOMAIN requests
      BY <3>2 DEF Put
    <3> QED
      BY <2>2, <3>1, <3>3, <3>4 DEF Same
  <2>5. \A j \in DOMAIN favorites' : \/ j \in DOMAIN favorites /\ favorites'[j] = favorites[j]
                                     \/ j = i /\ favorites'[j] = [Found(i) EXCEPT !.fav = TRUE]
    BY <1>7 DEF ToggleFavorite, Add, Drop
  <2>6. i \in Captured => (Found(i).resp => i \in answered) /\ Found(i).frames <= frames[i]
    BY <1>7, <1>d DEF ToggleFavorite, Found, Known, NotAhead
  <2>7. NotAhead(favorites)'
    <3>1. Same([Found(i) EXCEPT !.fav = TRUE], Found(i))
      BY <2>1, <2>2
    <3> QED
      BY <1>d, <2>3, <2>5, <2>6, <3>1 DEF NotAhead, Same, told
  <2>8. NotAhead(map)' /\ NotAhead(snapshot)'
    BY <1>d, <2>3 DEF NotAhead, told
  <2> QED
    BY <2>3, <2>4, <2>7, <2>8, PartsKeepCopies DEF CopiesInv, Same
<1>8. ASSUME NEW S \in SUBSET Ids, Remove(S) PROVE CopiesInv'
  <2>1. UNCHANGED <<snapshot, outdated, told>>
    BY <1>8 DEF Remove
  <2>2. NotAhead(map)' /\ NotAhead(favorites)' /\ NotAhead(snapshot)'
    BY <1>8, <1>d, <2>1 DEF Remove, Drop, NotAhead, told
  <2>3. DOMAIN requests' \subseteq DOMAIN requests /\ DOMAIN requests' \subseteq DOMAIN map'
        /\ \A j \in DOMAIN requests' : requests'[j] = requests[j] /\ map'[j] = map[j]
    BY <1>8 DEF Remove, Drop, CopiesInv
  <2> QED
    BY <2>1, <2>2, <2>3, PartsKeepCopies DEF Same
<1>9. ASSUME NEW S \in SUBSET Ids, NEW A \in SUBSET S, Import(S, A) PROVE CopiesInv'
  <2>1. UNCHANGED <<favorites, snapshot, told>> /\ A \cap Captured \subseteq answered
        /\ S \cap Captured \subseteq arrived /\ requests' = Parsed(S, A)
        /\ map' = Over(favorites, Parsed(S, A))
    BY <1>9 DEF Import
  <2>2. \A j \in S : j \in outdated' <=> \/ ~ Same(requests'[j], map'[j])
                                        \/ (j \in Captured /\ ~ Current(j, requests'[j]))
    BY <1>9 DEF Import
  <2>3. DOMAIN Parsed(S, A) = S /\ NotAhead(Parsed(S, A))
    BY <2>1, NewEntries DEF Parsed
  <2>4. NotAhead(requests)' /\ NotAhead(favorites)' /\ NotAhead(snapshot)'
    BY <1>d, <2>1, <2>3 DEF NotAhead, told
  <2>5. NotAhead(map)'
    BY <1>d, <2>1, <2>3 DEF NotAhead, told, Over
  <2>6. DOMAIN requests' = S /\ DOMAIN requests' \subseteq DOMAIN map'
    BY <2>1, <2>3 DEF Over
  <2>7. \A j \in (Captured \cap S) \ outdated' : Current(j, requests[j])'
    <3>1. \A j \in (Captured \cap S) \ outdated' : Current(j, requests'[j])
      BY <2>2
    <3> QED
      BY <2>1, <3>1 DEF Current, told
  <2>8. \A j \in S \ outdated' : Same(requests'[j], map'[j])
    BY <2>2
  <2>9. \A j \in Captured \ arrived' : frames'[j] = 0
    BY <2>1 DEF told, CopiesInv
  <2> QED
    BY <2>1, <2>4, <2>5, <2>6, <2>7, <2>8, <2>9 DEF CopiesInv, told
<1>10. CASE Clear
  BY <1>10, <1>d DEF Clear, Nothing, saved, told, CopiesInv, NotAhead, Current
<1>11. CASE Cleanup
  <2>1. UNCHANGED <<favorites, snapshot, outdated, told>> /\ map' = requests'
        /\ DOMAIN requests' \subseteq DOMAIN requests
        /\ \A j \in DOMAIN requests' : requests'[j] = requests[j]
    BY <1>11 DEF Cleanup, Keep, saved
  <2>2. NotAhead(requests)' /\ NotAhead(map)' /\ NotAhead(favorites)' /\ NotAhead(snapshot)'
    BY <1>d, <2>1 DEF NotAhead, told
  <2>3. \A j \in (Captured \cap DOMAIN requests') \ outdated' : Current(j, requests[j])'
    BY <2>1 DEF CopiesInv, Current, told
  <2> QED
    BY <2>1, <2>2, <2>3 DEF CopiesInv, Same, told
<1>12. ASSUME NEW n \in Limits, SetMaxRequests(n) PROVE CopiesInv'
  BY <1>12 DEF SetMaxRequests, saved, told, CopiesInv, NotAhead, Current
<1>13. CASE UNCHANGED trafficVars
  BY <1>13 DEF trafficVars, store, saved, told, CopiesInv, NotAhead, Current
<1> QED
  BY Zenon, <1>a, <1>1, <1>2, <1>3, <1>4, <1>5, <1>6, <1>7, <1>8, <1>9, <1>10, <1>11, <1>12, <1>13, TrafficActions

\* CopiesInv holds at all times.
LEMMA CopiesAgree == TrafficSpec => [](TrafficTypeOK /\ CopiesInv)
<1>1. TrafficInit => CopiesInv
  BY TrafficAssumption DEF TrafficInit, CopiesInv, NotAhead, Nothing
<1> QED
  BY <1>1, TrafficTypeCorrect, CopiesStep, PTL DEF TrafficSpec

\* A captured exchange in the list shows nothing that was not told, and everything that
\* was, unless a file that was imported brought it back in an older copy.
THEOREM ListShowsAll == TrafficSpec => []ListIsUpToDate
<1>1. CopiesInv => ListIsUpToDate
  BY DEF CopiesInv, NotAhead, ListIsUpToDate
<1> QED
  BY <1>1, CopiesAgree, PTL

\* Whatever is listed is in the map that events are looked up in, with the same
\* response and frames, unless a file brought another copy than the favorite's.
THEOREM NoEventIsLost == TrafficSpec => []MapCoversList
<1>1. CopiesInv => MapCoversList
  BY DEF CopiesInv, MapCoversList
<1> QED
  BY <1>1, CopiesAgree, PTL

-----------------------------------------------------------------------------
(* Favorites reach the database                                            *)

\* Where the favorite state of an exchange stands while no change of it was lost
\* or overtaken: nothing is under way before the favorites were read, and after
\* that the window and the table agree but for the one call that will make them.
FavoriteInv(i) ==
    \/ fetch = "asked" /\ \A c \in calls : c.id # i
    \/ fetch = "answered" /\ (i \in DOMAIN snapshot <=> i \in db) /\ \A c \in calls : c.id # i
    \/ fetch = "done" /\ (i \in DOMAIN favorites <=> i \in db) /\ \A c \in calls : c.id # i
    \/ fetch = "done" /\ \E c \in calls : /\ c.id = i /\ (c.on <=> i \in DOMAIN favorites)
                                          /\ \A d \in calls : d.id = i => d = c
FavoritesInv == \A i \in (Ids \ Foreign) \ loose : FavoriteInv(i)

\* A response or a frame changes no favorite's place.
LEMMA ShowKeepsFavorites ==
  ASSUME NEW i, NEW e, Show(i, e)
  PROVE  DOMAIN favorites' = DOMAIN favorites
BY DEF Show, Put

\* Handlers, calls and their answers keep it.
LEMMA FavoritesStep == TrafficTypeOK /\ FavoritesInv /\ [TrafficNext]_trafficVars => FavoritesInv'
<1> SUFFICES ASSUME TrafficTypeOK, FavoritesInv, [TrafficNext]_trafficVars,
                    NEW i \in Ids, i \notin Foreign, i \notin loose'
             PROVE  FavoriteInv(i)'
  BY DEF FavoritesInv
<1>a. RestTypeOK
  BY TypeParts
<1>1. ASSUME i \notin loose, DOMAIN favorites' = DOMAIN favorites, UNCHANGED <<fetch, snapshot, calls, db>>
      PROVE  FavoriteInv(i)'
  BY <1>1 DEF FavoritesInv, FavoriteInv
<1>2. CASE TrafficEvents
  <2>1. DOMAIN favorites' = DOMAIN favorites
    BY <1>2, ShowKeepsFavorites DEF TrafficEvents, AddRequest, UpdateResponse, AddFrame
  <2>2. UNCHANGED saved
    BY <1>2 DEF TrafficEvents, AddRequest, UpdateResponse, AddFrame
  <2> QED
    BY <1>1, <2>1, <2>2 DEF saved
<1>3. CASE FavoritesRead
  BY <1>3 DEF FavoritesRead, store, FavoritesInv, FavoriteInv
<1>4. CASE SetFavorites
  BY <1>4 DEF SetFavorites, FavoritesInv, FavoriteInv
<1>5. ASSUME NEW c \in calls, ToggleStored(c) PROVE FavoriteInv(i)'
  <2>1. i \notin loose /\ FavoriteInv(i) /\ c.on \in BOOLEAN
    BY <1>5 DEF ToggleStored, FavoritesInv, TrafficTypeOK
  <2>2. CASE c.id # i
    BY <1>5, <2>1, <2>2 DEF ToggleStored, store, FavoriteInv
  <2>3. CASE c.id = i
    <3>1. fetch = "done" /\ (c.on <=> i \in DOMAIN favorites) /\ \A d \in calls : d.id = i => d = c
      BY <2>1, <2>3 DEF FavoriteInv
    <3>2. i \in db' <=> c.on
      BY <1>5, <2>1, <2>3 DEF ToggleStored
    <3> QED
      BY <1>5, <3>1, <3>2 DEF ToggleStored, store, FavoriteInv
  <2> QED
    BY <2>2, <2>3
<1>6. ASSUME NEW j \in Ids, ToggleFavorite(j) PROVE FavoriteInv(i)'
  <2>1. i \notin loose /\ FavoriteInv(i)
    BY <1>6 DEF ToggleFavorite, FavoritesInv
  <2> DEFINE on == ~ Found(j).fav
             c  == [id |-> j, on |-> on, nth |-> toggles + 1]
  <2>2. calls' = calls \cup {c} /\ UNCHANGED <<fetch, snapshot, db>>
    BY <1>6 DEF ToggleFavorite
  <2>3. c.id = j /\ c.on = on /\ on \in BOOLEAN
    OBVIOUS
  <2>4. DOMAIN favorites' = IF on THEN DOMAIN favorites \cup {j} ELSE DOMAIN favorites \ {j}
    BY <1>6 DEF ToggleFavorite, Drop, Add
  <2> HIDE DEF c, on
  <2>5. CASE j # i
    BY <2>1, <2>2, <2>3, <2>4, <2>5 DEF FavoriteInv
  <2>6. CASE j = i
    <3>1. fetch = "done" /\ \A d \in calls : d.id # i
      BY <1>6, <2>6 DEF ToggleFavorite
    <3> QED
      BY <2>2, <2>3, <2>4, <2>6, <3>1 DEF FavoriteInv
  <2> QED
    BY <2>5, <2>6
<1>7. ASSUME NEW S \in SUBSET Ids, Remove(S) PROVE FavoriteInv(i)'
  <2>1. i \notin loose /\ i \notin S
    BY <1>7 DEF Remove
  <2> QED
    BY <1>7, <2>1 DEF Remove, Drop, FavoritesInv, FavoriteInv
<1>8. ASSUME NEW S \in SUBSET Ids, NEW A \in SUBSET S, Import(S, A) PROVE FavoriteInv(i)'
  BY <1>1, <1>8 DEF Import
<1>9. CASE Clear
  BY <1>1, <1>9 DEF Clear, saved
<1>10. CASE Cleanup
  BY <1>1, <1>10 DEF Cleanup, saved
<1>11. ASSUME NEW n \in Limits, SetMaxRequests(n) PROVE FavoriteInv(i)'
  BY <1>1, <1>11 DEF SetMaxRequests, saved
<1>12. CASE UNCHANGED trafficVars
  BY <1>1, <1>12 DEF trafficVars, store, saved
<1> QED
  BY Zenon, <1>a, <1>2, <1>3, <1>4, <1>5, <1>6, <1>7, <1>8, <1>9, <1>10, <1>11, <1>12, TrafficActions
     DEF TrafficEvents

\* Once the calls are answered, the table holds the favorites that are shown.
THEOREM FavoritesReachTable == TrafficSpec => []FavoritesAreStored
<1>1. TrafficInit => FavoritesInv
  BY DEF TrafficInit, FavoritesInv, FavoriteInv
<1>2. FavoritesInv => FavoritesAreStored
  BY DEF FavoritesInv, FavoriteInv, FavoritesAreStored
<1> QED
  BY <1>1, <1>2, TrafficTypeCorrect, FavoritesStep, PTL DEF TrafficSpec

-----------------------------------------------------------------------------
(* Cuts                                                                    *)

\* The head of a list holds no exchange older than one it leaves out, and it is
\* the whole list unless the list is longer than it.
LEMMA NewestCuts ==
  ASSUME NEW S \in SUBSET Nat, IsFiniteSet(S), NEW n \in Nat, NEW i \in S, i \notin Newest(S, n)
  PROVE  /\ \A j \in Newest(S, n) : j > i
         /\ Cardinality(S) > n
<1> DEFINE Above(k) == {j \in S : j > k}
<1>1. \A k \in S : IsFiniteSet(Above(k)) /\ Cardinality(Above(k)) \in Nat
  BY FS_Subset, FS_CardinalityType
<1>2. Cardinality(Above(i)) >= n
  BY <1>1 DEF Newest
<1>3. ASSUME NEW j \in Newest(S, n) PROVE j > i
  <2>1. j \in S /\ Cardinality(Above(j)) < n
    BY DEF Newest
  <2>2. CASE ~ (j > i)
    <3>1. i \in Nat /\ j \in Nat /\ j <= i
      BY <2>1, <2>2
    <3>2. Above(i) \subseteq Above(j)
      <4> SUFFICES ASSUME NEW k \in S, k > i PROVE k > j
        OBVIOUS
      <4> QED
        BY <3>1
    <3>3. Cardinality(Above(i)) <= Cardinality(Above(j))
      BY <1>1, <2>1, <3>2, FS_Subset
    <3> QED
      BY <1>1, <1>2, <2>1, <3>3
  <2> QED
    BY <2>2
<1>4. Cardinality(S) > n
  <2>1. Above(i) \subseteq S \ {i} /\ IsFiniteSet(S \ {i})
    BY FS_RemoveElement
  <2>2. Cardinality(Above(i)) <= Cardinality(S) - 1
    BY <2>1, FS_Subset, FS_RemoveElement
  <2> QED
    BY <1>1, <1>2, <2>2, FS_CardinalityType
<1> QED
  BY <1>3, <1>4

\* An arrival or a cleanup drops the oldest only, and only from a list that has
\* reached its limit or passed the threshold.
THEOREM CutsDropOldest == TrafficSpec => CutsKeepNewest
<1> USE TrafficAssumption
<1>1. ASSUME TrafficTypeOK, TrafficEvents \/ Cleanup, NEW i \in DOMAIN requests \ DOMAIN requests'
      PROVE  /\ \A j \in DOMAIN requests' : j > i
             /\ \/ Cardinality(DOMAIN requests) >= limit
                \/ Threshold # 0 /\ Cardinality(DOMAIN requests) > Threshold
  <2>1. limit \in Nat /\ DOMAIN requests \in SUBSET Nat /\ IsFiniteSet(DOMAIN requests)
        /\ Cardinality(DOMAIN requests) \in Nat
    <3>1. limit \in Nat /\ DOMAIN requests \subseteq Ids
      BY <1>1 DEF TrafficTypeOK
    <3>2. DOMAIN requests \in SUBSET Nat
      BY <3>1
    <3>3. IsFiniteSet(DOMAIN requests)
      BY <3>1, FS_Subset
    <3> QED
      BY <3>1, <3>2, <3>3, FS_CardinalityType
  <2>2. ASSUME NEW k \in Captured, AddRequest(k)
        PROVE  /\ \A j \in DOMAIN requests' : j > i
               /\ Cardinality(DOMAIN requests) >= limit
    <3> DEFINE S == DOMAIN requests \cup {k}
    <3>1. S \in SUBSET Nat /\ IsFiniteSet(S) /\ Cardinality(S) <= Cardinality(DOMAIN requests) + 1
          /\ Cardinality(S) \in Nat
      <4>1. k \in Nat
        BY DEF Ids
      <4>2. IsFiniteSet(S) /\ Cardinality(S) <= Cardinality(DOMAIN requests) + 1
        <5>1. IsFiniteSet(DOMAIN requests)
          BY <2>1
        <5>2. /\ IsFiniteSet(S)
              /\ Cardinality(S) = IF k \in DOMAIN requests THEN Cardinality(DOMAIN requests)
                                  ELSE Cardinality(DOMAIN requests) + 1
          BY <5>1, FS_AddElement, Zenon
        <5> HIDE DEF S
        <5> QED
          BY <2>1, <5>2
      <4> QED
        BY <2>1, <4>1, <4>2, FS_CardinalityType
    <3>2. DOMAIN requests' = S \cap Newest(S, limit)
      BY <2>2 DEF AddRequest, Keep, Add
    <3> HIDE DEF S
    <3>3. i \in S /\ i \notin Newest(S, limit)
      BY <3>2 DEF S, Newest
    <3> QED
      BY <2>1, <3>1, <3>2, <3>3, NewestCuts
  <2>3. CASE Cleanup
    <3> DEFINE n == (limit * 7) \div 10
    <3>1. n \in Nat
      BY <2>1
    <3>2. DOMAIN requests' = DOMAIN requests \cap Newest(DOMAIN requests, n)
      BY <2>3 DEF Cleanup, Keep
    <3> HIDE DEF n
    <3>3. i \notin Newest(DOMAIN requests, n)
      BY <3>2 DEF Newest
    <3>4. \A j \in DOMAIN requests' : j > i
      BY <2>1, <3>1, <3>2, <3>3, NewestCuts
    <3> QED
      BY <2>3, <3>4 DEF Cleanup
  <2>4. ASSUME NEW k \in Captured, UpdateResponse(k) \/ AddFrame(k) PROVE FALSE
    BY <2>4 DEF UpdateResponse, AddFrame, Show, Put
  <2> QED
    BY <1>1, <2>2, <2>3, <2>4 DEF TrafficEvents
<1>2. TrafficTypeOK =>
        [TrafficEvents \/ Cleanup =>
            \A i \in DOMAIN requests \ DOMAIN requests' :
                /\ \A j \in DOMAIN requests' : j > i
                /\ \/ Cardinality(DOMAIN requests) >= limit
                   \/ Threshold # 0 /\ Cardinality(DOMAIN requests) > Threshold]_trafficVars
  BY <1>1
<1> QED
  BY <1>2, TrafficTypeCorrect, PTL DEF TrafficSpec, CutsKeepNewest

-----------------------------------------------------------------------------
(* The composer                                                            *)

\* What a parameter is, but for what became of its template.
PlainOf(ps) == [i \in DOMAIN ps |-> Plain(ps[i])]

\* The URL has the parameters of the table; what is under way was sent by an opening
\* of the composer that has sent nothing else since; the last opening is the one there is.
ComposerInv ==
    /\ ComposerTypeOK
    /\ opening \in {0, openings}
    /\ ~ adrift => PlainOf(url.params) = PlainOf(Shown(rows))
    /\ \A s, t \in underWay : s.by = t.by => s = t
    /\ SendsWhatIsShown /\ ShowsOwnAnswers

\* The tables of rows of some length, and the lists of parameters.
RowKind == [named : BOOLEAN, val : Values \ {"encoded"}]

\* Rows are a sequence of at most MaxRows rows, and so are parameters.
LEMMA ShortSequences ==
  ASSUME NEW T, NEW m \in Nat, NEW s
  PROVE  s \in UNION {[1 .. n -> T] : n \in 0 .. m} <=> s \in Seq(T) /\ Len(s) <= m
<1>1. ASSUME NEW n \in 0 .. m, s \in [1 .. n -> T] PROVE s \in Seq(T) /\ Len(s) = n
  BY <1>1, SeqDef
<1>2. ASSUME s \in Seq(T), Len(s) <= m PROVE Len(s) \in 0 .. m /\ s \in [1 .. Len(s) -> T]
  BY <1>2
<1> QED
  BY <1>1, <1>2

\* What the table shows of its rows are parameters, none of them encoded.
LEMMA ShownIs ==
  ASSUME NEW rs \in RowSeqs, MaxRows \in Nat
  PROVE  /\ Shown(rs) \in Seq(Values \ {"encoded"})
         /\ Len(Shown(rs)) <= MaxRows
<1>1. rs \in Seq(RowKind) /\ Len(rs) <= MaxRows
  <2>1. RowSeqs = UNION {[1 .. n -> RowKind] : n \in 0 .. MaxRows}
    BY DEF RowSeqs, RowKind
  <2> QED
    BY <2>1, ShortSequences
<1>2. PICK K : K = {i \in DOMAIN rs : rs[i].named}
  OBVIOUS
<1>3. K \in SUBSET DOMAIN rs
  BY <1>2
<1>4. PICK w : w = Subsequence(rs, K)
  OBVIOUS
<1>5. Subsequence(rs, K) \in Seq(RowKind) /\ Len(Subsequence(rs, K)) = Cardinality(K)
  BY <1>1, <1>3, SubsequenceKeeps
<1>6. Cardinality(K) \in Nat /\ Cardinality(K) <= Len(rs)
  BY <1>1, <1>3, PositionsFinite
<1>7. w \in Seq(RowKind) /\ Len(w) \in Nat /\ Len(w) <= MaxRows
  BY <1>1, <1>4, <1>5, <1>6
<1>8. Shown(rs) = [i \in DOMAIN w |-> w[i].val]
  BY <1>2, <1>4 DEF Shown
<1>9. DOMAIN w = 1 .. Len(w) /\ \A i \in DOMAIN w : w[i].val \in Values \ {"encoded"}
  <2>1. DOMAIN w = 1 .. Len(w) /\ \A i \in DOMAIN w : w[i] \in RowKind
    BY <1>7
  <2>2. \A r \in RowKind : r.val \in Values \ {"encoded"}
    BY DEF RowKind
  <2> QED
    BY <2>1, <2>2
<1>10. Shown(rs) \in [1 .. Len(w) -> Values \ {"encoded"}]
  BY <1>8, <1>9
<1>11. Shown(rs) \in Seq(Values \ {"encoded"}) /\ Len(Shown(rs)) = Len(w)
  BY <1>7, <1>10, SeqDef
<1> QED
  BY <1>7, <1>11

\* A row without a key is not shown.
LEMMA ShownOfBlank ==
  ASSUME NEW rs \in RowSeqs, MaxRows \in Nat
  PROVE  Shown(Append(rs, Blank)) = Shown(rs)
<1>1. rs \in Seq(RowKind)
  <2>1. RowSeqs = UNION {[1 .. n -> RowKind] : n \in 0 .. MaxRows}
    BY DEF RowSeqs, RowKind
  <2> QED
    BY <2>1, ShortSequences
<1>2. PICK K : K = {i \in DOMAIN rs : rs[i].named}
  OBVIOUS
<1>3. PICK qs : qs = Append(rs, Blank)
  OBVIOUS
<1>4. /\ DOMAIN rs = 1 .. Len(rs) /\ Len(rs) \in Nat
      /\ DOMAIN qs = 1 .. (Len(rs) + 1)
      /\ \A i \in 1 .. Len(rs) : qs[i] = rs[i]
      /\ qs[Len(rs) + 1].named = FALSE
  BY <1>1, <1>3 DEF Blank
<1>5. K = {i \in DOMAIN qs : qs[i].named}
  BY <1>2, <1>4
<1>6. Subsequence(qs, K) = Subsequence(rs, K)
  <2>1. K \in SUBSET Nat /\ IsFiniteSet(K)
    BY <1>1, <1>2, PositionsFinite
  <2>2. \A i \in K : qs[i] = rs[i]
    BY <1>2, <1>4
  <2> QED
    BY <2>1, <2>2, SubsequenceLooksAtKept
<1> QED
  BY <1>2, <1>3, <1>5, <1>6 DEF Shown

\* A URL made from rows is a URL, with the parameters of the rows.
LEMMA UrlOfRows ==
  ASSUME NEW u \in Url, NEW rs \in RowSeqs, MaxRows \in Nat
  PROVE  /\ UrlOf(u, rs) \in Url
         /\ PlainOf(UrlOf(u, rs).params) = PlainOf(Shown(rs))
<1>1. PICK w : w = Shown(rs)
  OBVIOUS
<1>2. w \in Seq(Values \ {"encoded"}) /\ Len(w) \in Nat /\ Len(w) <= MaxRows
  BY <1>1, ShownIs
<1>3. PICK e : e = [i \in DOMAIN w |-> Encoded(w[i])]
  OBVIOUS
<1>4. UrlOf(u, rs) = [u EXCEPT !.params = e]
  BY <1>1, <1>3 DEF UrlOf
<1>5. \A v \in Values \ {"encoded"} : Encoded(v) \in Values /\ Plain(Encoded(v)) = Plain(v)
  BY DEF Values, Encoded, Plain
<1>6. DOMAIN w = 1 .. Len(w) /\ \A i \in DOMAIN w : w[i] \in Values \ {"encoded"}
  BY <1>2
<1>7. e \in [1 .. Len(w) -> Values]
  BY <1>3, <1>5, <1>6
<1>8. e \in UNION {[1 .. n -> Values] : n \in 0 .. MaxRows}
  BY <1>2, <1>7
<1>9. UrlOf(u, rs) \in Url /\ UrlOf(u, rs).params = e
  BY <1>4, <1>8 DEF Url
<1>10. PlainOf(e) = PlainOf(w)
  <2>1. DOMAIN e = DOMAIN w /\ \A i \in DOMAIN w : Plain(e[i]) = Plain(w[i])
    BY <1>3, <1>5, <1>6
  <2> QED
    BY <2>1 DEF PlainOf
<1> QED
  BY <1>1, <1>9, <1>10

\* The rows made from a URL that parses are rows, and show its parameters.
LEMMA RowsOfUrl ==
  ASSUME NEW u \in Url, MaxRows \in Nat
  PROVE  /\ RowsOf(u) \in RowSeqs
         /\ u.valid => PlainOf(u.params) = PlainOf(Shown(RowsOf(u)))
<1>1. PICK ps : ps = u.params
  OBVIOUS
<1>2. ps \in Seq(Values) /\ Len(ps) \in Nat /\ Len(ps) <= MaxRows
  <2>1. ps \in UNION {[1 .. n -> Values] : n \in 0 .. MaxRows}
    BY <1>1 DEF Url
  <2> QED
    BY <2>1, ShortSequences
<1>3. DOMAIN ps = 1 .. Len(ps) /\ \A i \in DOMAIN ps : ps[i] \in Values
  BY <1>2
<1>4. PICK rs : rs = [i \in DOMAIN ps |-> [named |-> TRUE, val |-> Decoded(ps[i])]]
  OBVIOUS
<1>5. \A v \in Values : Decoded(v) \in Values \ {"encoded"} /\ Plain(Decoded(v)) = Plain(v)
  BY DEF Values, Decoded, Plain
<1>6. rs \in [1 .. Len(ps) -> RowKind]
  <2>1. \A i \in DOMAIN ps : [named |-> TRUE, val |-> Decoded(ps[i])] \in RowKind
    BY <1>3, <1>5 DEF RowKind
  <2> QED
    BY <1>3, <1>4, <2>1
<1>7. rs \in Seq(RowKind) /\ Len(rs) <= MaxRows
  BY <1>2, <1>6, SeqDef
<1>8. rs \in RowSeqs
  BY <1>2, <1>6 DEF RowSeqs, RowKind
<1>9. <<>> \in RowSeqs
  BY DEF RowSeqs
<1>10. u.valid => RowsOf(u) = rs
  BY <1>1, <1>4 DEF RowsOf
<1>11. ~ u.valid => RowsOf(u) = <<>>
  BY DEF RowsOf
<1>12. PlainOf(ps) = PlainOf(Shown(rs))
  <2>1. \A i \in DOMAIN rs : rs[i].named /\ rs[i].val = Decoded(ps[i])
    BY <1>4
  <2>2. DOMAIN rs = {i \in DOMAIN rs : rs[i].named}
    BY <2>1
  <2>3. Subsequence(rs, DOMAIN rs) = rs
    BY <1>7, SubsequenceAll
  <2>4. Shown(rs) = [i \in DOMAIN rs |-> rs[i].val]
    BY <2>2, <2>3 DEF Shown
  <2>5. DOMAIN rs = DOMAIN ps
    BY <1>4
  <2>6. \A i \in DOMAIN ps : Plain(Shown(rs)[i]) = Plain(ps[i])
    BY <1>3, <1>5, <2>1, <2>4, <2>5
  <2>7. DOMAIN Shown(rs) = DOMAIN ps
    BY <2>4, <2>5
  <2> QED
    BY <2>6, <2>7 DEF PlainOf
<1> QED
  BY <1>1, <1>8, <1>9, <1>10, <1>11, <1>12

\* The environment that is shown instead is one of those there are.
LEMMA FirstIs ==
  ASSUME NEW S \in SUBSET Nat
  PROVE  First(S) \in S \cup {0}
<1>1. ASSUME S # {} PROVE \E e \in S : \A f \in S : e <= f
  <2>1. PICK e \in S : TRUE
    BY <1>1
  <2>2. PICK x \in S : \A y \in S : <<y, x>> \notin OpToRel(<, Nat)
    BY <1>1, NatLessThanWellFounded, WFMin
  <2>3. \A a, b \in Nat : a < b => <<a, b>> \in OpToRel(<, Nat)
    BY Zenon DEF OpToRel
  <2>4. \A y \in S : ~ (y < x)
    BY <2>2, <2>3
  <2>5. \A y \in S : x <= y
    BY <2>4
  <2> QED
    BY <2>5
<1> QED
  BY <1>1 DEF First

\* The bounds of the composer are numbers.
LEMMA ComposerBounds ==
  /\ MaxRows \in Nat /\ MaxEnvs \in Nat /\ MaxOpenings \in Nat /\ MaxSends \in Nat
  /\ MaxEnvs >= 2 /\ Captures \subseteq Url /\ Texts \subseteq Url
BY ComposerAssumption

\* The steps that change environments only.
LEMMA EnvStepsKeep ==
  ASSUME ComposerInv, EnvSteps
  PROVE  ComposerInv'
<1>1. MaxEnvs \in Nat /\ 0 \in 0 .. MaxEnvs
  <2>1. MaxEnvs \in Nat
    BY ComposerBounds
  <2> QED
    BY <2>1
<1>2. UNCHANGED <<opening, openings, editVars, busy, response, underWay, sends>>
  BY Zenon DEF EnvSteps, SetActiveEnvironment, DeleteEnv, EditVariables, OpenEnvironments,
               CloseEnvironments, CreateEnv
<1>3. /\ DOMAIN envs \subseteq 1 .. MaxEnvs /\ envs \in [DOMAIN envs -> BOOLEAN]
      /\ activeEnv \in DOMAIN envs \cup {0} /\ envShown \in 0 .. MaxEnvs /\ envCount \in 2 .. MaxEnvs
  BY DEF ComposerInv, ComposerTypeOK, SendsWhatIsShown
<1> DEFINE Kept == /\ DOMAIN envs' \subseteq 1 .. MaxEnvs /\ envs' \in [DOMAIN envs' -> BOOLEAN]
                   /\ activeEnv' \in DOMAIN envs' \cup {0}
                   /\ envShown' \in 0 .. MaxEnvs /\ envCount' \in 2 .. MaxEnvs
<1>4. \A S \in SUBSET (1 .. MaxEnvs) : First(S) \in 0 .. MaxEnvs
  <2> SUFFICES ASSUME NEW S \in SUBSET (1 .. MaxEnvs) PROVE First(S) \in 0 .. MaxEnvs
    OBVIOUS
  <2>1. S \in SUBSET Nat
    OBVIOUS
  <2>2. First(S) \in S \cup {0}
    BY <2>1, FirstIs
  <2>3. 0 \in 0 .. MaxEnvs /\ S \subseteq 0 .. MaxEnvs
    BY <1>1
  <2> QED
    BY <2>2, <2>3
<1>5. ASSUME NEW e \in 0 .. MaxEnvs, SetActiveEnvironment(e) PROVE Kept
  BY <1>3, <1>5 DEF SetActiveEnvironment
<1>6. ASSUME NEW e \in 0 .. MaxEnvs, DeleteEnv(e) PROVE Kept
  <2>1. /\ envs' = [f \in DOMAIN envs \ {e} |-> envs[f]]
        /\ envShown' = IF envShown = e THEN First(DOMAIN envs') ELSE envShown
        /\ activeEnv' = IF activeEnv = e THEN 0 ELSE activeEnv
        /\ envCount' = envCount
    BY <1>6 DEF DeleteEnv
  <2>2. DOMAIN envs' = DOMAIN envs \ {e} /\ envs' \in [DOMAIN envs \ {e} -> BOOLEAN]
    BY <1>3, <2>1
  <2>3. DOMAIN envs' \in SUBSET (1 .. MaxEnvs)
    BY <1>3, <2>2
  <2>4. First(DOMAIN envs') \in 0 .. MaxEnvs
    BY <1>4, <2>3
  <2> QED
    BY <1>3, <2>1, <2>2, <2>3, <2>4
<1>7. ASSUME NEW b \in BOOLEAN, EditVariables(b) PROVE Kept
  <2>1. envs' = [envs EXCEPT ![envShown] = b] /\ UNCHANGED <<activeEnv, envShown, envCount>>
    BY <1>7 DEF EditVariables
  <2>2. envs' \in [DOMAIN envs -> BOOLEAN]
    BY <1>3, <1>7, <2>1
  <2> QED
    BY <1>3, <2>1, <2>2
<1>8. ASSUME OpenEnvironments PROVE Kept
  <2>1. /\ envShown' = (IF activeEnv # 0 THEN activeEnv ELSE First(DOMAIN envs))
        /\ UNCHANGED <<envs, activeEnv, envCount>>
    BY <1>8 DEF OpenEnvironments
  <2>2. First(DOMAIN envs) \in 0 .. MaxEnvs
    BY <1>3, <1>4
  <2> QED
    BY <1>3, <2>1, <2>2
<1>9. ASSUME CloseEnvironments PROVE Kept
  BY <1>1, <1>3, <1>9 DEF CloseEnvironments
<1>10. ASSUME CreateEnv PROVE Kept
  <2>1. /\ envCount < MaxEnvs /\ envCount' = envCount + 1 /\ envShown' = envCount'
        /\ envs' = [e \in DOMAIN envs \cup {envCount'} |-> IF e = envCount' THEN FALSE ELSE envs[e]]
        /\ activeEnv' = activeEnv
    BY <1>10 DEF CreateEnv
  <2>2. envCount' \in 2 .. MaxEnvs /\ envCount' \in 1 .. MaxEnvs /\ envCount' \in 0 .. MaxEnvs
    BY <1>1, <1>3, <2>1
  <2>3. DOMAIN envs' = DOMAIN envs \cup {envCount'} /\ envs' \in [DOMAIN envs' -> BOOLEAN]
    BY <1>3, <2>1
  <2> QED
    BY <1>3, <2>1, <2>2, <2>3
<1>11. Kept
  BY <1>5, <1>6, <1>7, <1>8, <1>9, <1>10, Zenon DEF EnvSteps
<1>12. activeEnv' \in 0 .. MaxEnvs
  BY <1>11, ComposerBounds
<1> QED
  BY <1>2, <1>11, <1>12
     DEF ComposerInv, ComposerTypeOK, SendsWhatIsShown, ShowsOwnAnswers, editVars

\* The rows and the URL, where nothing else changes.
LEMMA EditKeeps ==
  ASSUME ComposerInv, UNCHANGED <<envVars, opening, openings, busy, response, underWay, sends>>,
         url' \in Url, rows' \in RowSeqs, adrift' \in BOOLEAN,
         ~ adrift' => PlainOf(url'.params) = PlainOf(Shown(rows'))
  PROVE  ComposerInv'
BY DEF ComposerInv, ComposerTypeOK, SendsWhatIsShown, ShowsOwnAnswers, envVars

\* A row is edited or deleted: the URL is made anew.
LEMMA RebuildKeeps ==
  ASSUME ComposerInv, Rebuild, UNCHANGED <<envVars, opening, openings, busy, response, underWay, sends>>,
         rows' \in RowSeqs
  PROVE  ComposerInv'
<1>1. url \in Url /\ url.valid \in BOOLEAN
  BY DEF ComposerInv, ComposerTypeOK, Url
<1>2. url' = (IF url.valid THEN UrlOf(url, rows') ELSE url) /\ adrift' = ~ url.valid
  BY DEF Rebuild
<1>3. PICK q \in RowSeqs : q = rows'
  OBVIOUS
<1>4. UrlOf(url, q) \in Url /\ PlainOf(UrlOf(url, q).params) = PlainOf(Shown(q))
  BY <1>1, UrlOfRows, ComposerBounds
<1>5. url' \in Url /\ adrift' \in BOOLEAN
  BY <1>1, <1>2, <1>3, <1>4
<1>6. ~ adrift' => PlainOf(url'.params) = PlainOf(Shown(rows'))
  BY <1>1, <1>2, <1>3, <1>4
<1> QED
  BY <1>5, <1>6, EditKeeps

LEMMA EditStepsKeep ==
  ASSUME ComposerInv, EditSteps
  PROVE  ComposerInv'
<1>1. RowSeqs = UNION {[1 .. n -> RowKind] : n \in 0 .. MaxRows}
  BY DEF RowSeqs, RowKind
<1>2. \A s : s \in RowSeqs <=> s \in Seq(RowKind) /\ Len(s) <= MaxRows
  BY <1>1, ShortSequences, ComposerBounds
<1>3. rows \in Seq(RowKind) /\ Len(rows) <= MaxRows /\ Len(rows) \in Nat /\ rows \in RowSeqs
  BY <1>2 DEF ComposerInv, ComposerTypeOK
<1>4. ASSUME NEW u \in Texts, SetUrl(u) PROVE ComposerInv'
  <2>1. url' = u /\ adrift' = TRUE /\ rows' = rows /\ u \in Url
    BY <1>4, ComposerBounds DEF SetUrl
  <2>2. UNCHANGED <<envVars, opening, openings, busy, response, underWay, sends>>
    BY <1>4 DEF SetUrl
  <2> QED
    BY <1>3, <2>1, <2>2, EditKeeps
<1>5. ASSUME NEW i \in 1 .. MaxRows, DeleteRow(i) PROVE ComposerInv'
  <2>1. i \in DOMAIN rows /\ rows' = SubSeq(rows, 1, i - 1) \o SubSeq(rows, i + 1, Len(rows))
    BY <1>5 DEF DeleteRow, RemoveAt
  <2>2. i \in 1 .. Len(rows)
    BY <1>3, <2>1
  <2>3. /\ SubSeq(rows, 1, i - 1) \in Seq(RowKind) /\ Len(SubSeq(rows, 1, i - 1)) = i - 1
    BY <1>3, <2>2
  <2>4. SubSeq(rows, i + 1, Len(rows)) \in Seq(RowKind) /\ Len(SubSeq(rows, i + 1, Len(rows))) = Len(rows) - i
    BY <1>3, <2>2
  <2>5. rows' \in Seq(RowKind) /\ Len(rows') = (i - 1) + (Len(rows) - i)
    <3>1. PICK a : a = SubSeq(rows, 1, i - 1)
      OBVIOUS
    <3>2. PICK b : b = SubSeq(rows, i + 1, Len(rows))
      OBVIOUS
    <3>3. a \in Seq(RowKind) /\ b \in Seq(RowKind) /\ rows' = a \o b
      BY <2>1, <2>3, <2>4, <3>1, <3>2
    <3>4. a \o b \in Seq(RowKind) /\ Len(a \o b) = Len(a) + Len(b)
      BY <3>3
    <3> QED
      BY <2>3, <2>4, <3>1, <3>2, <3>3, <3>4
  <2>6. rows' \in RowSeqs
    BY <1>2, <1>3, <2>2, <2>5, ComposerBounds
  <2>7. Rebuild /\ UNCHANGED <<envVars, opening, openings, busy, response, underWay, sends>>
    BY <1>5 DEF DeleteRow
  <2> QED
    BY <2>6, <2>7, RebuildKeeps
<1>6. ASSUME NEW i \in 1 .. MaxRows, NEW r \in [named : {TRUE}, val : {"plain", "template"}], EditRow(i, r)
      PROVE  ComposerInv'
  <2>1. i \in DOMAIN rows /\ rows' = [rows EXCEPT ![i] = r]
    BY <1>6 DEF EditRow
  <2>2. r \in RowKind
    BY DEF RowKind, Values
  <2>3. rows' \in Seq(RowKind) /\ Len(rows') = Len(rows)
    BY <1>3, <2>1, <2>2
  <2>4. rows' \in RowSeqs
    BY <1>2, <1>3, <2>3
  <2>5. Rebuild /\ UNCHANGED <<envVars, opening, openings, busy, response, underWay, sends>>
    BY <1>6 DEF EditRow
  <2> QED
    BY <2>4, <2>5, RebuildKeeps
<1>7. ASSUME AddRow PROVE ComposerInv'
  <2>1. rows' = Append(rows, Blank) /\ Len(rows) < MaxRows
    BY <1>7 DEF AddRow
  <2>2. Blank \in RowKind
    BY DEF Blank, RowKind, Values
  <2>3. rows' \in Seq(RowKind) /\ Len(rows') = Len(rows) + 1
    BY <1>3, <2>1, <2>2
  <2>4. rows' \in RowSeqs
    <3>1. MaxRows \in Nat
      BY ComposerBounds
    <3>2. Len(rows') <= MaxRows
      BY <1>3, <2>1, <2>3, <3>1
    <3> QED
      BY <1>2, <2>3, <3>2
  <2>5. Shown(rows') = Shown(rows)
    BY <1>3, <2>1, ShownOfBlank, ComposerBounds
  <2>6. UNCHANGED <<envVars, opening, openings, url, adrift, busy, response, underWay, sends>>
    BY <1>7 DEF AddRow
  <2>7. url \in Url /\ adrift \in BOOLEAN /\ (~ adrift => PlainOf(url.params) = PlainOf(Shown(rows)))
    BY DEF ComposerInv, ComposerTypeOK
  <2>8. url' \in Url /\ adrift' \in BOOLEAN /\ (~ adrift' => PlainOf(url'.params) = PlainOf(Shown(rows')))
    BY <2>5, <2>6, <2>7
  <2> QED
    BY <2>4, <2>6, <2>8, EditKeeps
<1> QED
  BY <1>4, <1>5, <1>6, <1>7, Zenon DEF EditSteps

\* What is sent has the parameters of the URL, filled in or not.
LEMMA RenderedIsPlain ==
  ASSUME NEW ps
  PROVE  PlainOf([i \in DOMAIN ps |-> Rendered(ps[i])]) = PlainOf(ps)
<1>1. \A v : Plain(Rendered(v)) = Plain(v)
  BY DEF Plain, Rendered
<1> QED
  BY <1>1 DEF PlainOf

LEMMA SendKeeps ==
  ASSUME ComposerInv, Send
  PROVE  ComposerInv'
<1>1. PICK m : m = [n |-> sends', by |-> opening,
            shown |-> IF adrift THEN url.params ELSE Shown(rows),
            params |-> [i \in DOMAIN url.params |-> Rendered(url.params[i])]]
  OBVIOUS
<1>2. /\ opening # 0 /\ ~ busy /\ sends < MaxSends /\ sends' = sends + 1 /\ busy' = TRUE
      /\ underWay' = underWay \cup {m}
  BY <1>1 DEF Send
<1>3. UNCHANGED <<envVars, opening, openings, editVars, response>>
  BY DEF Send
<1>4. /\ ComposerTypeOK /\ opening \in {0, openings}
      /\ ~ adrift => PlainOf(url.params) = PlainOf(Shown(rows))
      /\ \A s, t \in underWay : s.by = t.by => s = t
      /\ SendsWhatIsShown /\ ShowsOwnAnswers
  BY DEF ComposerInv
<1>5. sends \in 0 .. MaxSends /\ MaxSends \in Nat /\ openings \in 0 .. MaxOpenings /\ MaxOpenings \in Nat
  BY <1>4, ComposerBounds DEF ComposerTypeOK
<1>6. m.n = sends' /\ m.by = opening /\ m.params = [i \in DOMAIN url.params |-> Rendered(url.params[i])]
      /\ m.shown = (IF adrift THEN url.params ELSE Shown(rows))
  BY <1>1
<1>7. PlainOf(m.params) = PlainOf(m.shown)
  <2>1. PlainOf(m.params) = PlainOf(url.params)
    BY <1>6, RenderedIsPlain
  <2> QED
    BY <1>4, <1>6, <2>1
<1>8. \A s \in underWay : s.by # opening
  BY <1>2, <1>4 DEF ShowsOwnAnswers
<1>9. \A s \in underWay : s.n \in 1 .. sends /\ s.by \in 1 .. openings
  BY <1>4 DEF ComposerTypeOK
<1>10. sends' \in 0 .. MaxSends /\ sends' \in 1 .. sends' /\ opening \in 1 .. openings
       /\ \A k \in 1 .. sends : k \in 1 .. sends'
  BY <1>2, <1>4, <1>5
<1>11. \A s \in underWay' : s.n \in 1 .. sends' /\ s.by \in 1 .. openings
  BY <1>2, <1>6, <1>9, <1>10
<1>12. \A s, t \in underWay' : s.by = t.by => s = t
  BY <1>2, <1>4, <1>6, <1>8
<1>13. ComposerTypeOK'
  BY <1>2, <1>3, <1>4, <1>10, <1>11 DEF ComposerTypeOK, envVars, editVars
<1>14. SendsWhatIsShown'
  <2>1. \A s \in underWay : PlainOf(s.params) = PlainOf(s.shown)
    BY <1>4 DEF SendsWhatIsShown, PlainOf
  <2>2. \A s \in underWay' : PlainOf(s.params) = PlainOf(s.shown)
    BY <1>2, <1>7, <2>1
  <2> QED
    BY <1>3, <1>4, <2>2 DEF SendsWhatIsShown, PlainOf, envVars
<1>15. ShowsOwnAnswers'
  BY <1>2, <1>3, <1>4, <1>6 DEF ShowsOwnAnswers
<1> QED
  BY <1>3, <1>4, <1>12, <1>13, <1>14, <1>15 DEF ComposerInv, editVars

LEMMA AnsweredKeeps ==
  ASSUME ComposerInv, NEW m \in underWay, Answered(m)
  PROVE  ComposerInv'
<1>1. /\ underWay' = underWay \ {m} /\ busy' = (busy /\ m.by # opening)
      /\ response' \in IF m.by = opening THEN {response, m.by} ELSE {response}
      /\ UNCHANGED <<envVars, opening, openings, editVars, sends>>
  BY DEF Answered
<1>2. /\ ComposerTypeOK
      /\ \A s, t \in underWay : s.by = t.by => s = t
      /\ SendsWhatIsShown /\ ShowsOwnAnswers
  BY DEF ComposerInv
<1>3. ShowsOwnAnswers'
  <2>1. busy \in BOOLEAN /\ busy' \in BOOLEAN
    BY <1>1, <1>2 DEF ComposerTypeOK
  <2>2. busy' <=> \E s \in underWay' : s.by = opening
    BY <1>1, <1>2, <2>1 DEF ShowsOwnAnswers
  <2>3. response' \in {0, opening}
    BY <1>1, <1>2 DEF ShowsOwnAnswers
  <2> QED
    BY <1>1, <2>2, <2>3 DEF ShowsOwnAnswers
<1>4. response' \in {response, opening}
  BY <1>1
<1>5. ComposerTypeOK'
  <2>1. response' \in 0 .. MaxOpenings
    BY <1>2, <1>4 DEF ComposerTypeOK
  <2>2. {adrift', busy'} \subseteq BOOLEAN
    BY <1>1, <1>2 DEF ComposerTypeOK, editVars
  <2> QED
    BY <1>1, <1>2, <2>1, <2>2 DEF ComposerTypeOK, envVars, editVars
<1>6. SendsWhatIsShown'
  BY <1>1, <1>2 DEF SendsWhatIsShown, envVars
<1> QED
  BY <1>1, <1>2, <1>3, <1>5, <1>6 DEF ComposerInv, editVars

LEMMA OpenComposerKeeps ==
  ASSUME ComposerInv, NEW u \in Captures \cup {NoUrl}, OpenComposer(u)
  PROVE  ComposerInv'
<1>1. /\ opening = 0 /\ openings < MaxOpenings
      /\ openings' = openings + 1 /\ opening' = openings'
      /\ url' = u /\ rows' = RowsOf(u) /\ adrift' = ~ u.valid
      /\ busy' = FALSE /\ response' = 0
      /\ UNCHANGED <<envVars, underWay, sends>>
  BY DEF OpenComposer
<1>2. /\ ComposerTypeOK
      /\ \A s, t \in underWay : s.by = t.by => s = t
      /\ SendsWhatIsShown
  BY DEF ComposerInv
<1>3. MaxOpenings \in Nat /\ MaxRows \in Nat /\ openings \in 0 .. MaxOpenings
  BY <1>2, ComposerBounds DEF ComposerTypeOK
<1>4. u \in Url /\ u.valid \in BOOLEAN
  <2>1. <<>> \in [1 .. 0 -> Values] /\ 0 \in 0 .. MaxRows
    BY <1>3
  <2>2. <<>> \in UNION {[1 .. n -> Values] : n \in 0 .. MaxRows}
    BY <2>1
  <2>3. NoUrl \in Url
    BY <2>2 DEF NoUrl, Url
  <2>4. u \in Url
    BY <2>3, ComposerBounds
  <2> QED
    BY <2>4 DEF Url
<1>5. RowsOf(u) \in RowSeqs /\ (u.valid => PlainOf(u.params) = PlainOf(Shown(RowsOf(u))))
  BY <1>3, <1>4, RowsOfUrl
<1>6. openings' \in 0 .. MaxOpenings /\ openings' # 0
      /\ \A k \in 1 .. openings : k \in 1 .. openings' /\ k # openings'
  BY <1>1, <1>3
<1>7. \A s \in underWay : s.n \in 1 .. sends /\ s.by \in 1 .. openings
  BY <1>2 DEF ComposerTypeOK
<1>8. \A s \in underWay' : s.n \in 1 .. sends' /\ s.by \in 1 .. openings' /\ s.by # opening'
  BY <1>1, <1>6, <1>7
<1>9. 0 \in 0 .. MaxOpenings
  BY <1>3
<1>10. ComposerTypeOK'
  BY <1>1, <1>2, <1>4, <1>5, <1>6, <1>8, <1>9 DEF ComposerTypeOK, envVars
<1>11. SendsWhatIsShown'
  BY <1>1, <1>2 DEF SendsWhatIsShown, envVars
<1>12. ShowsOwnAnswers'
  BY <1>1, <1>8 DEF ShowsOwnAnswers
<1>13. ~ adrift' => PlainOf(url'.params) = PlainOf(Shown(rows'))
  BY <1>1, <1>5
<1> QED
  BY <1>1, <1>2, <1>10, <1>11, <1>12, <1>13 DEF ComposerInv

LEMMA CloseComposerKeeps ==
  ASSUME ComposerInv, CloseComposer
  PROVE  ComposerInv'
<1>1. /\ opening' = 0
      /\ url' = NoUrl /\ rows' = <<>> /\ adrift' = FALSE /\ busy' = FALSE /\ response' = 0
      /\ UNCHANGED <<envVars, openings, underWay, sends>>
  BY DEF CloseComposer
<1>2. /\ ComposerTypeOK
      /\ \A s, t \in underWay : s.by = t.by => s = t
      /\ SendsWhatIsShown
  BY DEF ComposerInv
<1>3. MaxOpenings \in Nat /\ MaxRows \in Nat /\ openings \in 0 .. MaxOpenings
  BY <1>2, ComposerBounds DEF ComposerTypeOK
<1>4. NoUrl \in Url /\ RowsOf(NoUrl) \in RowSeqs /\ PlainOf(NoUrl.params) = PlainOf(Shown(RowsOf(NoUrl)))
  <2>1. <<>> \in [1 .. 0 -> Values] /\ 0 \in 0 .. MaxRows
    BY <1>3
  <2>2. <<>> \in UNION {[1 .. n -> Values] : n \in 0 .. MaxRows}
    BY <2>1
  <2>3. NoUrl \in Url /\ NoUrl.valid
    BY <2>2 DEF NoUrl, Url
  <2> QED
    BY <1>3, <2>3, RowsOfUrl
<1>5. RowsOf(NoUrl) = <<>>
  BY DEF RowsOf, NoUrl
<1>6. \A s \in underWay : s.n \in 1 .. sends /\ s.by \in 1 .. openings /\ s.by # 0
  <2>1. \A k \in 1 .. openings : k # 0
    BY <1>3
  <2> QED
    BY <1>2, <2>1 DEF ComposerTypeOK
<1>7. 0 \in 0 .. MaxOpenings
  BY <1>3
<1>8. ComposerTypeOK'
  BY <1>1, <1>2, <1>4, <1>5, <1>6, <1>7 DEF ComposerTypeOK, envVars
<1>9. SendsWhatIsShown'
  BY <1>1, <1>2 DEF SendsWhatIsShown, envVars
<1>10. ShowsOwnAnswers'
  BY <1>1, <1>6 DEF ShowsOwnAnswers
<1> QED
  BY <1>1, <1>2, <1>4, <1>5, <1>8, <1>9, <1>10 DEF ComposerInv

LEMMA ComposerStarts == ComposerInit => ComposerInv
<1> SUFFICES ASSUME ComposerInit PROVE ComposerInv
  OBVIOUS
<1>1. /\ envs = [e \in {1, 2} |-> TRUE] /\ activeEnv = 0 /\ envShown = 0 /\ envCount = 2
      /\ opening = 0 /\ openings = 0
      /\ url = NoUrl /\ rows = <<>> /\ adrift = FALSE
      /\ busy = FALSE /\ response = 0 /\ underWay = {} /\ sends = 0
  BY DEF ComposerInit
<1>2. MaxEnvs \in Nat /\ MaxEnvs >= 2 /\ MaxOpenings \in Nat /\ MaxRows \in Nat /\ MaxSends \in Nat
  BY ComposerBounds
<1>3. NoUrl \in Url /\ RowsOf(NoUrl) \in RowSeqs /\ PlainOf(NoUrl.params) = PlainOf(Shown(RowsOf(NoUrl)))
  <2>1. <<>> \in [1 .. 0 -> Values] /\ 0 \in 0 .. MaxRows
    BY <1>2
  <2>2. <<>> \in UNION {[1 .. n -> Values] : n \in 0 .. MaxRows}
    BY <2>1
  <2>3. NoUrl \in Url /\ NoUrl.valid
    BY <2>2 DEF NoUrl, Url
  <2> QED
    BY <1>2, <2>3, RowsOfUrl
<1>4. RowsOf(NoUrl) = <<>>
  BY DEF RowsOf, NoUrl
<1>5. 0 \in 0 .. MaxOpenings /\ 0 \in 0 .. MaxEnvs /\ 2 \in 2 .. MaxEnvs /\ 0 \in 0 .. MaxSends
      /\ {1, 2} \subseteq 1 .. MaxEnvs
  BY <1>2
<1>6. DOMAIN envs = {1, 2} /\ envs \in [{1, 2} -> BOOLEAN]
  BY <1>1
<1>7. ComposerTypeOK
  BY <1>1, <1>3, <1>4, <1>5, <1>6 DEF ComposerTypeOK
<1> QED
  BY <1>1, <1>3, <1>4, <1>7 DEF ComposerInv, SendsWhatIsShown, ShowsOwnAnswers

LEMMA ComposerInvariance == ComposerSpec => []ComposerInv
<1>1. ComposerInit => ComposerInv
  BY ComposerStarts
<1>2. ComposerInv /\ [ComposerNext]_composerVars => ComposerInv'
  <2> SUFFICES ASSUME ComposerInv, [ComposerNext]_composerVars PROVE ComposerInv'
    OBVIOUS
  <2>1. CASE UNCHANGED composerVars
    BY <2>1 DEF composerVars, envVars, editVars, ComposerInv, ComposerTypeOK, SendsWhatIsShown,
                ShowsOwnAnswers
  <2>2. CASE EnvSteps
    BY <2>2, EnvStepsKeep
  <2>3. CASE EditSteps
    BY <2>3, EditStepsKeep
  <2>4. CASE \E m \in underWay : Answered(m)
    BY <2>4, AnsweredKeeps
  <2>5. CASE \E u \in Captures \cup {NoUrl} : OpenComposer(u)
    BY <2>5, OpenComposerKeeps
  <2>6. CASE CloseComposer
    BY <2>6, CloseComposerKeeps
  <2>7. CASE Send
    BY <2>7, SendKeeps
  <2> QED
    BY <2>1, <2>2, <2>3, <2>4, <2>5, <2>6, <2>7, Zenon DEF ComposerNext
<1> QED
  BY <1>1, <1>2, PTL DEF ComposerSpec

\* The variables of the composer and of the environments keep their types.
THEOREM ComposerTypeCorrect == ComposerSpec => []ComposerTypeOK
<1>1. ComposerInv => ComposerTypeOK
  BY DEF ComposerInv
<1> QED
  BY <1>1, ComposerInvariance, PTL

\* What is sent has the parameters the table showed at the click, but for a URL that was
\* typed, pasted or does not parse; and no environment that was deleted is the active one
\* (handleSend and updateUrlWithParams of RequestComposerModal.tsx, handleDeleteEnv).
THEOREM ComposerSendsWhatIsShown == ComposerSpec => []SendsWhatIsShown
<1>1. ComposerInv => SendsWhatIsShown
  BY DEF ComposerInv
<1> QED
  BY <1>1, ComposerInvariance, PTL

\* The composer waits exactly while a request of its own is under way, and shows no
\* answer to another's (the loading and response of RequestComposerModal.tsx).
THEOREM ComposerShowsOwnAnswers == ComposerSpec => []ShowsOwnAnswers
<1>1. ComposerInv => ShowsOwnAnswers
  BY DEF ComposerInv
<1> QED
  BY <1>1, ComposerInvariance, PTL

-----------------------------------------------------------------------------
(* The page of the captured traffic                                        *)

\* The list of domains that is there has seen every domain of the rows.
Grouped == onPage /\ byDomain => DomainsOf(shown) \subseteq seen
ViewInv == ViewTypeOK /\ ListMatchesFilters /\ Grouped

LEMMA DomainsAre == \A S \in SUBSET Arrivals : DomainsOf(S) \subseteq Domains
BY DEF DomainsOf, Domains

\* A new render, after whatever else changed: the rows are those of the filters as they are
\* by then, unless only the filter by process was cleared.
LEMMA RenderKeepsView ==
  ASSUME ViewInv, Render, UNCHANGED <<onPage, byDomain, collapseNew>>, listing' \subseteq Arrivals
  PROVE  /\ shown' \subseteq Arrivals /\ stale' \in BOOLEAN
         /\ collapsed' \subseteq seen' /\ seen' \subseteq Domains
         /\ ListMatchesFilters' /\ Grouped'
<1>1. ViewTypeOK /\ ListMatchesFilters /\ Grouped
  BY DEF ViewInv
<1>2. /\ shown \subseteq Arrivals /\ stale \in BOOLEAN /\ onPage \in BOOLEAN /\ byDomain \in BOOLEAN
      /\ collapsed \subseteq seen /\ seen \subseteq Domains
  BY <1>1 DEF ViewTypeOK
<1>3. CASE ~ onPage
  <2>1. UNCHANGED <<shown, stale, seen, collapsed>>
    BY <1>3 DEF Render
  <2> QED
    BY <1>2, <1>3, <2>1 DEF ListMatchesFilters, Grouped
<1>4. CASE onPage
  <2>1. Filtered /\ (IF byDomain THEN CollapseNew(seen, collapsed) ELSE UNCHANGED <<seen, collapsed>>)
    BY <1>4 DEF Render
  <2>2. CASE listing' # listing \/ done' # done \/ conditions' # conditions
    <3>1. /\ shown' = {i \in listing' : Matches(i, processFilter', conditions', done')}
          /\ stale' = FALSE
      BY <2>1, <2>2 DEF Filtered
    <3>2. shown' \subseteq Arrivals
      BY <3>1
    <3>3. ListMatchesFilters'
      BY <3>1 DEF ListMatchesFilters, Selected, Matches
    <3> QED
      BY <3>1, <3>2, <3>3, <2>1, <1>2, DomainsAre DEF CollapseNew, Grouped
  <2>3. CASE ~ (listing' # listing \/ done' # done \/ conditions' # conditions)
    <3>1. shown' = shown /\ stale' = (stale \/ processFilter' # processFilter)
      BY <2>1, <2>3 DEF Filtered
    <3>2. shown' \subseteq Arrivals /\ stale' \in BOOLEAN
      BY <1>2, <3>1
    <3>3. UNCHANGED <<listing, done, conditions>>
      BY <2>3
    <3>4. ASSUME ~ stale' PROVE ~ stale /\ UNCHANGED processFilter
      BY <3>1, <3>4
    <3>5. ListMatchesFilters'
      BY <1>1, <1>4, <3>1, <3>3, <3>4 DEF ListMatchesFilters, Selected, Matches
    <3> QED
      BY <3>1, <3>2, <3>5, <2>1, <1>1, <1>2, DomainsAre DEF CollapseNew, Grouped
  <2> QED
    BY <2>2, <2>3
<1> QED
  BY <1>2, <1>3, <1>4

\* An action that changes the store, the filters or the marks and then renders.
LEMMA RenderedKeepsView ==
  ASSUME ViewInv, Render, UNCHANGED <<onPage, byDomain, collapseNew>>,
         done' \subseteq begun', listing' \subseteq Arrivals, begun' \subseteq Arrivals,
         processFilter' \in Programs \cup {""}, repeating' \in BOOLEAN,
         chips' \subseteq Methods \cup {"2xx"}, conditions' \in Conditions,
         marks' \subseteq Arrivals, selection' \in Arrivals \cup {0}, edits' \in 0 .. MaxEdits
  PROVE  ViewInv'
<1>1. ViewTypeOK
  BY DEF ViewInv
<1>2. /\ shown' \subseteq Arrivals /\ stale' \in BOOLEAN
      /\ collapsed' \subseteq seen' /\ seen' \subseteq Domains
      /\ ListMatchesFilters' /\ Grouped'
  BY RenderKeepsView
<1>3. onPage' \in BOOLEAN /\ byDomain' \in BOOLEAN /\ collapseNew' \in BOOLEAN
  BY <1>1 DEF ViewTypeOK
<1>4. ViewTypeOK'
  BY <1>2, <1>3 DEF ViewTypeOK
<1> QED
  BY <1>2, <1>4 DEF ViewInv

\* The page that is mounted lists what its filters say, and nothing is stale.
LEMMA MountedKeepsView ==
  ASSUME ViewInv, Mounted, processFilter' \in Programs \cup {""}, edits' \in 0 .. MaxEdits
  PROVE  ViewInv'
<1>1. ViewTypeOK
  BY DEF ViewInv
<1>2. /\ onPage' = TRUE
      /\ chips' = {} /\ conditions' = AnyOf /\ byDomain' = TRUE /\ marks' = {}
      /\ shown' = {i \in listing : Matches(i, processFilter', AnyOf, done)} /\ stale' = FALSE
      /\ CollapseNew({}, {})
      /\ repeating' = FALSE
      /\ UNCHANGED <<listing, begun, done, collapseNew, selection>>
  BY DEF Mounted
<1>3. listing \subseteq Arrivals /\ shown' \subseteq Arrivals
  BY <1>1, <1>2 DEF ViewTypeOK
<1>4. collapsed' \subseteq seen' /\ seen' = DomainsOf(shown') /\ seen' \subseteq Domains
  BY <1>2, <1>3, DomainsAre DEF CollapseNew
<1>5. AnyOf \in Conditions
  BY DEF AnyOf, Conditions
<1>6. ViewTypeOK'
  BY <1>1, <1>2, <1>3, <1>4, <1>5 DEF ViewTypeOK
<1>7. ListMatchesFilters' /\ Grouped'
  BY <1>2, <1>4 DEF ListMatchesFilters, Selected, Matches, Grouped
<1> QED
  BY <1>6, <1>7 DEF ViewInv

LEMMA OnlyIs == \A S : Only(S) \in S \cup {""}
<1>1. Cardinality({}) = 0
  BY FS_EmptySet
<1>2. TAKE S
<1>3. Cardinality(S) = 1 => \E s \in S : TRUE
  BY <1>1
<1> QED
  BY <1>3 DEF Only

LEMMA StoreKeepsView ==
  ASSUME ViewInv, StoreSteps
  PROVE  ViewInv'
<1>1. ViewTypeOK
  BY DEF ViewInv
<1>2. /\ done \subseteq begun /\ listing \subseteq Arrivals /\ begun \subseteq Arrivals
      /\ processFilter \in Programs \cup {""} /\ repeating \in BOOLEAN
      /\ chips \subseteq Methods \cup {"2xx"} /\ conditions \in Conditions
      /\ marks \subseteq Arrivals /\ selection \in Arrivals \cup {0} /\ edits \in 0 .. MaxEdits
  BY <1>1 DEF ViewTypeOK
<1>3. ASSUME NEW i \in Arrivals, Capture(i) PROVE ViewInv'
  <2>1. /\ Render /\ begun' = begun \cup {i} /\ listing' = listing \cup {i}
        /\ UNCHANGED <<done, onPage, marks, repeating, selection, processFilter, chips, conditions, edits,
                       byDomain, collapseNew>>
    BY <1>3 DEF Capture, filterVars, domainVars
  <2>2. done' \subseteq begun' /\ listing' \subseteq Arrivals /\ begun' \subseteq Arrivals
    BY <1>2, <2>1
  <2> QED
    BY <1>2, <2>1, <2>2, RenderedKeepsView
<1>4. ASSUME NEW i \in Arrivals, Respond(i) PROVE ViewInv'
  <2>1. /\ Render /\ i \in begun \ done /\ done' = done \cup {i}
        /\ UNCHANGED <<listing, begun, onPage, marks, repeating, selection, processFilter, chips, conditions,
                       edits, byDomain, collapseNew>>
    BY <1>4 DEF Respond, filterVars, domainVars
  <2>2. done' \subseteq begun'
    BY <1>2, <2>1
  <2> QED
    BY <1>2, <2>1, <2>2, RenderedKeepsView
<1>5. ASSUME Evict PROVE ViewInv'
  <2>1. /\ Render /\ listing' = {i \in listing : \E j \in listing : j < i}
        /\ UNCHANGED <<begun, done, onPage, marks, repeating, selection, processFilter, chips, conditions,
                       edits, byDomain, collapseNew>>
    BY <1>5 DEF Evict, filterVars, domainVars
  <2>2. listing' \subseteq Arrivals
    BY <1>2, <2>1
  <2> QED
    BY <1>2, <2>1, <2>2, RenderedKeepsView
<1>6. ASSUME NEW S \in Files \cup {{}}, Replace(S) PROVE ViewInv'
  <2>1. /\ Render /\ S \subseteq begun /\ listing' = S
        /\ selection' \in (IF S = {} THEN {0} ELSE S)
        /\ UNCHANGED <<begun, done, onPage, marks, repeating, processFilter, chips, conditions,
                       edits, byDomain, collapseNew>>
    BY <1>6 DEF Replace, filterVars, domainVars
  <2>2. listing' \subseteq Arrivals /\ selection' \in Arrivals \cup {0}
    BY <1>2, <2>1
  <2> QED
    BY <1>2, <2>1, <2>2, RenderedKeepsView
<1> QED
  BY <1>3, <1>4, <1>5, <1>6 DEF StoreSteps

LEMMA FiltersKeepView ==
  ASSUME ViewInv, FilterSteps
  PROVE  ViewInv'
<1>1. ViewTypeOK
  BY DEF ViewInv
<1>2. /\ done \subseteq begun /\ listing \subseteq Arrivals /\ begun \subseteq Arrivals
      /\ processFilter \in Programs \cup {""} /\ repeating \in BOOLEAN
      /\ chips \subseteq Methods \cup {"2xx"} /\ conditions \in Conditions
      /\ marks \subseteq Arrivals /\ selection \in Arrivals \cup {0} /\ edits \in 0 .. MaxEdits
  BY <1>1 DEF ViewTypeOK
<1>3. edits < MaxEdits /\ edits' = edits + 1 => edits' \in 0 .. MaxEdits
  <2>1. MaxEdits \in Nat /\ edits \in 0 .. MaxEdits
    BY <1>2, ViewAssumption
  <2> QED
    BY <2>1
<1>4. ASSUME OpenPage PROVE ViewInv'
  BY <1>2, <1>4, MountedKeepsView DEF OpenPage
<1>5. ASSUME NEW p \in Programs, FilterByRun(p) PROVE ViewInv'
  BY <1>3, <1>5, MountedKeepsView DEF FilterByRun
<1>6. ASSUME LeavePage PROVE ViewInv'
  <2>1. /\ onPage' = FALSE /\ marks' = {} /\ repeating' = FALSE
        /\ chips' = {} /\ conditions' = AnyOf /\ shown' = {} /\ stale' = FALSE
        /\ byDomain' = TRUE /\ seen' = {} /\ collapsed' = {}
        /\ UNCHANGED <<listing, begun, done, processFilter, collapseNew, selection, edits>>
    BY <1>6 DEF LeavePage
  <2>2. AnyOf \in Conditions
    BY DEF AnyOf, Conditions
  <2>3. ViewTypeOK'
    BY <1>1, <2>1, <2>2 DEF ViewTypeOK
  <2> QED
    BY <2>1, <2>3 DEF ViewInv, ListMatchesFilters, Grouped
<1>7. ASSUME ClearProcess PROVE ViewInv'
  <2>1. /\ Render /\ processFilter' = ""
        /\ UNCHANGED <<edits, listing, begun, done, onPage, chips, conditions, marks, repeating, selection,
                       byDomain, collapseNew>>
    BY <1>7 DEF ClearProcess, domainVars
  <2> QED
    BY <1>2, <2>1, RenderedKeepsView
<1>8. ASSUME NEW C \in SUBSET (Methods \cup {"2xx"}), SetChips(C) PROVE ViewInv'
  <2>1. /\ Render /\ edits < MaxEdits /\ edits' = edits + 1 /\ chips' = C
        /\ conditions' = [method |-> Only(C \ {"2xx"}), status |-> Only(C \cap {"2xx"})]
        /\ UNCHANGED <<listing, begun, done, onPage, processFilter, marks, repeating, selection,
                       byDomain, collapseNew>>
    BY <1>8 DEF SetChips, Edit, domainVars
  <2>2. Only(C \ {"2xx"}) \in Methods \cup {""} /\ Only(C \cap {"2xx"}) \in {"", "2xx"}
    BY OnlyIs
  <2>3. conditions' \in Conditions
    BY <2>1, <2>2 DEF Conditions
  <2> QED
    BY <1>2, <1>3, <2>1, <2>3, RenderedKeepsView
<1>9. ASSUME NEW c \in Conditions, ApplyConditions(c) PROVE ViewInv'
  <2>1. /\ Render /\ edits < MaxEdits /\ edits' = edits + 1 /\ conditions' = c
        /\ UNCHANGED <<listing, begun, done, onPage, processFilter, chips, marks, repeating, selection,
                       byDomain, collapseNew>>
    BY <1>9 DEF ApplyConditions, Edit, domainVars
  <2> QED
    BY <1>2, <1>3, <2>1, RenderedKeepsView
<1> QED
  BY <1>4, <1>5, <1>6, <1>7, <1>8, <1>9 DEF FilterSteps

LEMMA RowsKeepView ==
  ASSUME ViewInv, RowSteps
  PROVE  ViewInv'
<1>1. ViewTypeOK /\ ListMatchesFilters /\ Grouped
  BY DEF ViewInv
<1>2. /\ done \subseteq begun /\ listing \subseteq Arrivals /\ begun \subseteq Arrivals
      /\ processFilter \in Programs \cup {""} /\ repeating \in BOOLEAN
      /\ onPage \in BOOLEAN /\ byDomain \in BOOLEAN /\ collapseNew \in BOOLEAN
      /\ chips \subseteq Methods \cup {"2xx"} /\ conditions \in Conditions
      /\ marks \subseteq Arrivals /\ selection \in Arrivals \cup {0} /\ edits \in 0 .. MaxEdits
      /\ shown \subseteq Arrivals /\ collapsed \subseteq seen /\ seen \subseteq Domains
  BY <1>1 DEF ViewTypeOK
\* What leaves the rows and the filters as they are.
<1>3. ASSUME UNCHANGED <<listing, begun, done, onPage, shown, stale, seen, byDomain, collapseNew,
                         processFilter, chips, conditions, edits>>,
             marks' \subseteq Arrivals, selection' \in Arrivals \cup {0}, repeating' \in BOOLEAN,
             collapsed' \subseteq seen
      PROVE  ViewInv'
  <2>1. ViewTypeOK'
    BY <1>1, <1>3 DEF ViewTypeOK
  <2>2. ListMatchesFilters' /\ Grouped'
    BY <1>1, <1>3 DEF ListMatchesFilters, Selected, Matches, Grouped, DomainsOf
  <2> QED
    BY <2>1, <2>2 DEF ViewInv
<1>4. ASSUME NEW i \in Arrivals, SelectRow(i) PROVE ViewInv'
  <2>1. /\ selection' = i
        /\ UNCHANGED <<listing, begun, done, onPage, shown, stale, seen, collapsed, marks, repeating,
                       byDomain, collapseNew, processFilter, chips, conditions, edits>>
    BY <1>4 DEF SelectRow, filterVars, domainVars
  <2> QED
    BY <1>2, <1>3, <2>1
<1>5. ASSUME NEW i \in Arrivals, MarkRow(i) PROVE ViewInv'
  <2>1. /\ marks' = (IF i \in marks THEN marks \ {i} ELSE marks \cup {i})
        /\ UNCHANGED <<listing, begun, done, onPage, shown, stale, seen, collapsed, selection, repeating,
                       byDomain, collapseNew, processFilter, chips, conditions, edits>>
    BY <1>5 DEF MarkRow, filterVars, domainVars
  <2>2. marks' \subseteq Arrivals
    BY <1>2, <2>1
  <2> QED
    BY <1>2, <1>3, <2>1, <2>2
<1>6. ASSUME NEW S \in SUBSET Arrivals, RemoveRows(S), marks' \subseteq Arrivals, Render PROVE ViewInv'
  <2>1. /\ listing' = listing \ S
        /\ selection' = (IF selection \in S THEN 0 ELSE selection)
        /\ UNCHANGED <<begun, done, onPage, repeating, byDomain, collapseNew,
                       processFilter, chips, conditions, edits>>
    BY <1>6 DEF RemoveRows, filterVars, domainVars
  <2>2. listing' \subseteq Arrivals /\ selection' \in Arrivals \cup {0}
    BY <1>2, <2>1
  <2> QED
    BY <1>2, <1>6, <2>1, <2>2, RenderedKeepsView
<1>7. ASSUME DeleteMarked PROVE ViewInv'
  BY <1>2, <1>6, <1>7 DEF DeleteMarked
<1>8. ASSUME NEW i \in Arrivals, DeleteRowByMenu(i) PROVE ViewInv'
  <2>1. RemoveRows({i}) /\ UNCHANGED marks /\ Render /\ {i} \in SUBSET Arrivals
    BY <1>8 DEF DeleteRowByMenu
  <2> QED
    BY <1>2, <1>6, <2>1
<1>9. ASSUME RepeatMarked \/ RepeatEnds PROVE ViewInv'
  <2>1. /\ repeating' \in BOOLEAN /\ marks' \in {marks, {}}
        /\ UNCHANGED <<listing, begun, done, onPage, shown, stale, seen, collapsed, selection,
                       byDomain, collapseNew, processFilter, chips, conditions, edits>>
    BY <1>9 DEF RepeatMarked, RepeatEnds, filterVars, domainVars
  <2> QED
    BY <1>2, <1>3, <2>1
<1>10. ASSUME NEW d \in Domains, ToggleDomain(d) PROVE ViewInv'
  <2>1. /\ onPage /\ byDomain /\ d \in DomainsOf(shown)
        /\ collapsed' = (IF d \in collapsed THEN collapsed \ {d} ELSE collapsed \cup {d})
        /\ UNCHANGED <<listing, begun, done, onPage, shown, stale, seen, marks, repeating, selection,
                       byDomain, collapseNew, processFilter, chips, conditions, edits>>
    BY <1>10 DEF ToggleDomain, filterVars, domainVars
  <2>2. collapsed' \subseteq seen
    BY <1>1, <1>2, <2>1 DEF Grouped
  <2> QED
    BY <1>2, <1>3, <2>1, <2>2
<1>11. ASSUME SwitchTab PROVE ViewInv'
  <2>1. /\ byDomain' = (~ byDomain) /\ shown' = shown
        /\ IF byDomain THEN seen' = {} /\ collapsed' = {} ELSE CollapseNew({}, {})
        /\ UNCHANGED <<listing, begun, done, onPage, stale, marks, repeating, selection, collapseNew,
                       processFilter, chips, conditions, edits>>
    BY <1>11 DEF SwitchTab, filterVars
  <2>2. /\ collapsed' \subseteq seen' /\ seen' \subseteq Domains
        /\ (byDomain' => seen' = DomainsOf(shown'))
    BY <1>2, <2>1, DomainsAre DEF CollapseNew
  <2>3. ViewTypeOK'
    BY <1>1, <1>2, <2>1, <2>2 DEF ViewTypeOK
  <2>4. ListMatchesFilters' /\ Grouped'
    BY <1>1, <2>1, <2>2 DEF ListMatchesFilters, Selected, Matches, Grouped
  <2> QED
    BY <2>3, <2>4 DEF ViewInv
<1> QED
  BY <1>4, <1>5, <1>7, <1>8, <1>9, <1>10, <1>11 DEF RowSteps

LEMMA ViewInitInv == ViewInit => ViewInv
<1> SUFFICES ASSUME ViewInit PROVE ViewInv
  OBVIOUS
<1>1. Collapses \subseteq BOOLEAN /\ MaxEdits \in Nat
  BY ViewAssumption
<1>2. AnyOf \in Conditions /\ 0 \in 0 .. MaxEdits
  BY <1>1 DEF AnyOf, Conditions
<1> QED
  BY <1>1, <1>2 DEF ViewInit, ViewInv, ViewTypeOK, ListMatchesFilters, Grouped

LEMMA ViewInvariance == ViewInv /\ [ViewNext]_viewVars => ViewInv'
<1> SUFFICES ASSUME ViewInv, [ViewNext]_viewVars PROVE ViewInv'
  OBVIOUS
<1>1. CASE UNCHANGED viewVars
  BY <1>1 DEF viewVars, filterVars, domainVars, ViewInv, ViewTypeOK, ListMatchesFilters, Selected, Matches,
              Grouped, DomainsOf
<1> QED
  BY <1>1, StoreKeepsView, FiltersKeepView, RowsKeepView DEF ViewNext

\* For every set of exchanges and every order of arrivals, responses, filters and clicks:
\* the page lists what its filters say of what the store holds, but for a filter by process
\* that was just cleared (filteredRequests).
THEOREM ListShowsWhatFiltersSay == ViewSpec => [](ViewTypeOK /\ ListMatchesFilters)
<1>1. ViewInit => ViewInv
  BY ViewInitInv
<1>2. ViewInv /\ [ViewNext]_viewVars => ViewInv'
  BY ViewInvariance
<1>3. ViewInv => ViewTypeOK /\ ListMatchesFilters
  BY DEF ViewInv
<1> QED
  BY <1>1, <1>2, <1>3, PTL DEF ViewSpec

\* A render folds no domain that the list had seen.
LEMMA RenderFoldsNew ==
  ASSUME Render, UNCHANGED <<onPage, byDomain>>, onPage, byDomain
  PROVE  \A d \in seen : d \notin collapsed' \ collapsed
BY DEF Render, CollapseNew

\* What one step may not take away from the user.
Opened ==
    /\ \/ selection \notin listing \/ selection \notin listing'
       \/ Panel(listing', selection') = selection
       \/ (\E i \in Arrivals : SelectRow(i)) \/ (\E S \in Files : Replace(S)) \/ Replace({})
    /\ onPage /\ onPage' /\ byDomain /\ byDomain' =>
          \A d \in seen : d \in collapsed' \ collapsed => ToggleDomain(d)

LEMMA StepKeepsOpened ==
  ASSUME ViewInv, ViewNext
  PROVE  Opened
<1>1. byDomain \in BOOLEAN
  BY DEF ViewInv, ViewTypeOK
\* The panel keeps its exchange ...
<1>2. ASSUME UNCHANGED selection PROVE selection \in listing' => Panel(listing', selection') = selection
  BY <1>2 DEF Panel
<1>3. \/ selection \notin listing \/ selection \notin listing'
      \/ Panel(listing', selection') = selection
      \/ (\E i \in Arrivals : SelectRow(i)) \/ (\E S \in Files : Replace(S)) \/ Replace({})
  <2>1. CASE (\E i \in Arrivals : Capture(i) \/ Respond(i)) \/ Evict
    BY <1>2, <2>1 DEF Capture, Respond, Evict
  <2>2. CASE \E S \in Files \cup {{}} : Replace(S)
    BY <2>2
  <2>3. CASE FilterSteps
    BY <1>2, <2>3 DEF FilterSteps, OpenPage, FilterByRun, Mounted, LeavePage, ClearProcess, SetChips,
                      ApplyConditions
  <2>4. CASE \E i \in Arrivals : SelectRow(i)
    BY <2>4
  <2>5. CASE DeleteMarked \/ \E i \in Arrivals : DeleteRowByMenu(i)
    <3>1. PICK S : RemoveRows(S)
      BY <2>5 DEF DeleteMarked, DeleteRowByMenu
    <3> QED
      BY <1>2, <3>1 DEF RemoveRows
  <2>6. CASE \/ \E i \in Arrivals : MarkRow(i)
             \/ \E d \in Domains : ToggleDomain(d)
             \/ RepeatMarked \/ RepeatEnds \/ SwitchTab
    BY <1>2, <2>6 DEF MarkRow, ToggleDomain, RepeatMarked, RepeatEnds, SwitchTab
  <2> QED
    BY Zenon, <2>1, <2>2, <2>3, <2>4, <2>5, <2>6 DEF ViewNext, StoreSteps, RowSteps
\* ... and the list of domains folds nothing by itself.
<1>4. ASSUME onPage, onPage', byDomain, byDomain', NEW d \in seen, d \in collapsed' \ collapsed
      PROVE  ToggleDomain(d)
  <2>1. ~ Render
    <3>1. Render => UNCHANGED <<onPage, byDomain>>
      <4>1. UNCHANGED <<onPage, byDomain>>
        BY <1>1, <1>4
      <4> QED
        BY <4>1
    <3> QED
      BY <1>4, <3>1, RenderFoldsNew
  <2>2. ~ StoreSteps
    BY <2>1 DEF StoreSteps, Capture, Respond, Evict, Replace
  <2>3. ~ FilterSteps
    BY <1>4, <2>1 DEF FilterSteps, OpenPage, FilterByRun, LeavePage, ClearProcess, SetChips, ApplyConditions
  <2>4. ~ (DeleteMarked \/ \E i \in Arrivals : DeleteRowByMenu(i))
    BY <2>1 DEF DeleteMarked, DeleteRowByMenu
  <2>5. ~ (\/ \E i \in Arrivals : SelectRow(i) \/ MarkRow(i)
           \/ RepeatMarked \/ RepeatEnds)
    BY <1>4 DEF SelectRow, MarkRow, RepeatMarked, RepeatEnds
  <2>6. ~ SwitchTab
    BY <1>1, <1>4 DEF SwitchTab
  <2>7. PICK e \in Domains : ToggleDomain(e)
    BY Zenon, <2>2, <2>3, <2>4, <2>5, <2>6 DEF ViewNext, RowSteps
  <2>8. d = e
    BY <1>4, <2>7 DEF ToggleDomain
  <2> QED
    BY <2>7, <2>8
<1> QED
  BY Zenon, <1>3, <1>4 DEF Opened

\* For every set of exchanges: no arrival, response, filter or removal of another takes the
\* exchange out of the panel or folds a domain that the user had before him.
THEOREM OpenedStays == ViewSpec => OpenedStaysOpen
<1>1. ViewInit => ViewInv
  BY ViewInitInv
<1>2. ViewInv /\ [ViewNext]_viewVars => ViewInv'
  BY ViewInvariance
<1>3. ViewInv /\ [ViewNext]_viewVars =>
      [/\ \/ selection \notin listing \/ selection \notin listing'
          \/ Panel(listing', selection') = selection
          \/ (\E i \in Arrivals : SelectRow(i)) \/ (\E S \in Files : Replace(S)) \/ Replace({})
       /\ onPage /\ onPage' /\ byDomain /\ byDomain' =>
             \A d \in seen : d \in collapsed' \ collapsed => ToggleDomain(d)]_viewVars
  BY Zenon, StepKeepsOpened DEF Opened
<1> QED
  BY <1>1, <1>2, <1>3, PTL DEF ViewSpec, OpenedStaysOpen

-----------------------------------------------------------------------------
(* The toolbox                                                             *)

\* A non-empty set of numbers has a least one.
LEMMA LeastIs ==
  ASSUME NEW S \in SUBSET Nat, S # {}
  PROVE  Least(S) \in S /\ \A k \in S : Least(S) <= k
<1>1. PICK x \in S : \A y \in S : <<y, x>> \notin OpToRel(<, Nat)
  BY NatLessThanWellFounded, WFMin
<1>2. \A a, b \in Nat : a < b => <<a, b>> \in OpToRel(<, Nat)
  BY Zenon DEF OpToRel
<1>3. \A y \in S : ~ (y < x)
  BY <1>1, <1>2
<1>4. \A y \in S : x <= y
  BY <1>3
<1> QED
  BY <1>4 DEF Least

\* What the loop over the matches does with lastIndex in one round.
NextRound(re, i) ==
    LET hits == HitsFrom(re, i)
    IN  IF hits = {} THEN i ELSE NextIndex(Least(hits), CHOOSE l \in re[Least(hits)] : TRUE)
\* The loop, round by round.
IsLoop(re, fuel, g) == g = [n \in 0 .. fuel |-> IF n = 0 THEN 0 ELSE NextRound(re, g[n - 1])]
IsText(re) == IsFiniteSet(DOMAIN re) /\ \A i \in DOMAIN re : i \in Nat /\ re[i] \subseteq Nat

LEMMA LoopExists ==
  ASSUME NEW re, NEW fuel \in Nat
  PROVE  \E g : IsLoop(re, fuel, g)
<1> DEFINE T == {n \in Nat : ~ \E g : IsLoop(re, n, g)}
<1>1. ASSUME T # {} PROVE FALSE
  <2>1. PICK x \in T : \A y \in T : x <= y
    <3>1. T \in SUBSET Nat
      OBVIOUS
    <3> HIDE DEF T
    <3>2. Least(T) \in T /\ \A k \in T : Least(T) <= k
      BY <1>1, <3>1, LeastIs
    <3> QED
      BY <3>2
  <2>2. CASE x = 0
    <3>1. PICK g : g = [n \in 0 .. 0 |-> 0]
      OBVIOUS
    <3>2. IsLoop(re, 0, g)
      BY <3>1 DEF IsLoop
    <3> QED
      BY <2>2, <3>2
  <2>3. CASE x # 0
    <3>1. x - 1 \in Nat /\ x - 1 \notin T
      BY <2>1, <2>3
    <3>2. PICK h : IsLoop(re, x - 1, h)
      BY <3>1
    <3>3. PICK g : g = [n \in 0 .. x |-> IF n = x THEN NextRound(re, h[x - 1]) ELSE h[n]]
      OBVIOUS
    <3>4. \A n \in 0 .. x - 1 : h[n] = IF n = 0 THEN 0 ELSE NextRound(re, h[n - 1])
      BY <3>2 DEF IsLoop
    <3>5. ASSUME NEW n \in 0 .. x PROVE g[n] = IF n = 0 THEN 0 ELSE NextRound(re, g[n - 1])
      <4>1. CASE n = x
        <5>1. n - 1 \in 0 .. x /\ n - 1 # x /\ g[n - 1] = h[n - 1]
          BY <2>3, <3>3, <4>1
        <5> QED
          BY <2>3, <3>3, <4>1, <5>1
      <4>2. CASE n # x
        <5>1. n \in 0 .. x - 1 /\ g[n] = h[n]
          BY <3>1, <3>3, <4>2
        <5>2. n # 0 => n - 1 \in 0 .. x /\ n - 1 # x /\ g[n - 1] = h[n - 1]
          BY <3>1, <3>3, <4>2
        <5> QED
          BY <3>4, <5>1, <5>2
      <4> QED
        BY <4>1, <4>2
    <3>6. g = [n \in 0 .. x |-> g[n]]
      BY <3>3
    <3>7. IsLoop(re, x, g)
      BY <3>5, <3>6 DEF IsLoop
    <3> QED
      BY <3>7
  <2> QED
    BY <2>2, <2>3
<1> QED
  BY <1>1

\* The function of Rounds is that loop.
LEMMA RoundsAre ==
  ASSUME NEW re, NEW fuel \in Nat
  PROVE  \E g : IsLoop(re, fuel, g) /\ Rounds(re, fuel) = {n \in 0 .. fuel : HitsFrom(re, g[n]) = {}}
<1> DEFINE index == CHOOSE g : IsLoop(re, fuel, g)
<1>1. IsLoop(re, fuel, index)
  BY LoopExists
<1>2. Rounds(re, fuel) = {n \in 0 .. fuel : HitsFrom(re, index[n]) = {}}
  BY Zenon DEF Rounds, IsLoop, NextRound
<1> QED
  BY <1>1, <1>2

LEMMA HitsFinite ==
  ASSUME NEW re, IsText(re), NEW at
  PROVE  /\ HitsFrom(re, at) \in SUBSET Nat /\ IsFiniteSet(HitsFrom(re, at))
         /\ Cardinality(HitsFrom(re, at)) \in Nat /\ Cardinality(DOMAIN re) \in Nat
         /\ Cardinality(HitsFrom(re, at)) <= Cardinality(DOMAIN re)
<1>1. HitsFrom(re, at) \subseteq DOMAIN re /\ IsFiniteSet(DOMAIN re)
  BY DEF HitsFrom, IsText
<1>2. HitsFrom(re, at) \in SUBSET Nat
  BY <1>1 DEF IsText
<1> QED
  BY <1>1, <1>2, FS_Subset, FS_CardinalityType

\* A round that finds a match goes on behind the place of that match.
LEMMA RoundAdvances ==
  ASSUME NEW re, IsText(re), NEW i \in Nat, HitsFrom(re, i) # {}
  PROVE  /\ NextRound(re, i) \in Nat
         /\ Cardinality(HitsFrom(re, NextRound(re, i))) <= Cardinality(HitsFrom(re, i)) - 1
<1>1. PICK hits \in SUBSET Nat : hits = HitsFrom(re, i) /\ hits # {} /\ IsFiniteSet(hits)
                                 /\ Cardinality(hits) \in Nat
  BY HitsFinite
<1>2. PICK l : l = Least(hits)
  OBVIOUS
<1>3. l \in hits /\ \A k \in hits : l <= k
  BY <1>1, <1>2, LeastIs
<1>4. l \in DOMAIN re /\ l \in Nat /\ i <= l /\ re[l] # {} /\ re[l] \subseteq Nat
  BY <1>1, <1>3 DEF HitsFrom, IsText
<1>5. PICK length \in Nat : length = CHOOSE k \in re[l] : TRUE
  BY <1>4
<1>6. NextRound(re, i) = NextIndex(l, length)
  BY <1>1, <1>2, <1>5 DEF NextRound
<1>7. NextIndex(l, length) \in Nat /\ NextIndex(l, length) > l
  BY <1>4, <1>5 DEF NextIndex
<1>8. PICK next \in Nat : next = NextRound(re, i) /\ next > l
  BY <1>6, <1>7
<1>9. ASSUME NEW k \in HitsFrom(re, next) PROVE k \in hits \ {l}
  <2>1. k \in DOMAIN re /\ k \in Nat /\ k >= next /\ re[k] # {}
    BY DEF HitsFrom, IsText
  <2>2. k >= i /\ k # l
    BY <1>4, <1>8, <2>1
  <2> QED
    BY <1>1, <2>1, <2>2 DEF HitsFrom
<1>10. IsFiniteSet(hits \ {l}) /\ Cardinality(hits \ {l}) = Cardinality(hits) - 1
  BY <1>1, <1>3, FS_RemoveElement
<1>11. Cardinality(HitsFrom(re, next)) <= Cardinality(hits \ {l})
  BY <1>9, <1>10, FS_Subset
<1> QED
  BY <1>1, <1>8, <1>10, <1>11

\* handleRunRegex ends: after as many rounds as the text has places, none is left.
LEMMA LoopEnds ==
  ASSUME NEW re, IsText(re)
  PROVE  Rounds(re, Cardinality(DOMAIN re)) # {}
<1>1. PICK fuel \in Nat : fuel = Cardinality(DOMAIN re)
  BY HitsFinite
<1>2. PICK g : IsLoop(re, fuel, g) /\ Rounds(re, fuel) = {n \in 0 .. fuel : HitsFrom(re, g[n]) = {}}
  BY RoundsAre
<1>3. \A n \in 0 .. fuel : g[n] = IF n = 0 THEN 0 ELSE NextRound(re, g[n - 1])
  BY <1>2 DEF IsLoop
<1> DEFINE Late(n) == g[n] \in Nat /\ (HitsFrom(re, g[n]) = {} \/ Cardinality(HitsFrom(re, g[n])) <= fuel - n)
           T == {n \in 0 .. fuel : ~ Late(n)}
<1>4. ASSUME T # {} PROVE FALSE
  <2>1. PICK x \in T : \A y \in T : x <= y
    <3>1. T \in SUBSET Nat
      OBVIOUS
    <3> HIDE DEF T
    <3>2. Least(T) \in T /\ \A k \in T : Least(T) <= k
      BY <1>4, <3>1, LeastIs
    <3> QED
      BY <3>2
  <2>2. x \in 0 .. fuel /\ ~ Late(x)
    BY <2>1
  <2>3. CASE x = 0
    <3>1. g[0] = 0
      BY <1>3
    <3>2. Cardinality(HitsFrom(re, 0)) <= fuel - 0
      BY <1>1, HitsFinite
    <3> QED
      BY <2>2, <2>3, <3>1, <3>2
  <2>4. CASE x # 0
    <3>1. x - 1 \in 0 .. fuel /\ x - 1 \notin T
      BY <2>1, <2>2, <2>4
    <3>2. Late(x - 1)
      BY <3>1
    <3>3. PICK i \in Nat : i = g[x - 1]
      BY <3>2
    <3>4. g[x] = NextRound(re, i)
      BY <1>3, <2>2, <2>4, <3>3
    <3>5. CASE HitsFrom(re, i) = {}
      <4>1. g[x] = i
        BY <3>4, <3>5 DEF NextRound
      <4> QED
        BY <2>2, <3>5, <4>1
    <3>6. CASE HitsFrom(re, i) # {}
      <4>1. Cardinality(HitsFrom(re, i)) <= fuel - (x - 1) /\ Cardinality(HitsFrom(re, i)) \in Nat
        BY <3>2, <3>3, <3>6, HitsFinite
      <4>2. /\ g[x] \in Nat /\ Cardinality(HitsFrom(re, g[x])) \in Nat
            /\ Cardinality(HitsFrom(re, g[x])) <= Cardinality(HitsFrom(re, i)) - 1
        BY <3>4, <3>6, RoundAdvances, HitsFinite
      <4>3. Cardinality(HitsFrom(re, g[x])) <= fuel - x
        BY <2>2, <4>1, <4>2
      <4> QED
        BY <2>2, <4>2, <4>3
    <3> QED
      BY <3>5, <3>6
  <2> QED
    BY <2>3, <2>4
<1>5. fuel \in 0 .. fuel /\ Late(fuel)
  BY <1>4
<1>6. HitsFrom(re, g[fuel]) = {}
  <2>1. Cardinality(HitsFrom(re, g[fuel])) \in Nat /\ IsFiniteSet(HitsFrom(re, g[fuel]))
    BY HitsFinite
  <2>2. Cardinality(HitsFrom(re, g[fuel])) <= fuel - fuel => Cardinality(HitsFrom(re, g[fuel])) = 0
    BY <2>1
  <2> QED
    BY <1>5, <2>1, <2>2, FS_EmptySet
<1> QED
  BY <1>1, <1>2, <1>5, <1>6

\* What an awaited result is: that of the last click, or it is still on its way.
Settled(r) ==
    /\ \A d \in digests : d.makes = r => d.of = askedFor[r]
    /\ (~ \E d \in digests : d.makes = r) => result[r].of = askedFor[r]
AwaitedOnce == \A d, e \in digests : d.makes = "aesOutput" /\ e.makes = "aesOutput" => d = e
Awaiting ==
    /\ "aesOutput" \in Results => Settled("aesOutput")
    /\ AwaitedOnce /\ \A d \in digests : d.makes = "aesOutput" => aesLoading
    /\ "hash" \notin overtaken => \A r \in Hashes \cap Results : Settled(r)

\* While there is one socket at a time, those before are closed.
OneSocket ==
    "socket" \notin overtaken =>
        /\ \A s \in Living : s \in mine => s = wsInstanceRef
        /\ wsConnected => wsInstanceRef # 0 /\ sockets[wsInstanceRef] \in {"open", "closing"}
        /\ wsInstanceRef # 0 /\ sockets[wsInstanceRef] = "open" => wsConnected
ToolboxInv == ToolboxTypeOK /\ passed <= wsListed /\ Awaiting /\ OneSocket /\ RegexEnds

Digests == [id : 1 .. MaxDigests, makes : Results, of : 0 .. MaxTyped]
ValueKinds == [of : 0 .. MaxTyped, kind : {"none", "value", "error", "hangs"}]
TextKinds == [nth : 0 .. MaxTyped, odd : BOOLEAN]

\* The two halves of the type invariant.
ToolKinds ==
    /\ place \in Used \cup {"grid", "away", "crashed"}
    /\ text \in [Fields -> TextKinds] /\ result \in [Results -> ValueKinds]
    /\ digests \subseteq Digests /\ aesLoading \in BOOLEAN /\ askedFor \in [Results -> 0 .. MaxTyped]
SocketKinds ==
    /\ DOMAIN sockets \subseteq 1 .. MaxSockets
    /\ \A s \in DOMAIN sockets : sockets[s] \in SocketStates
    /\ mine \subseteq DOMAIN sockets /\ wsInstanceRef \in {0} \cup mine
    /\ wsConnected \in BOOLEAN
    /\ wsListed \in 0 .. MaxListed /\ passed \in 0 .. MaxListed /\ passed <= wsListed
    /\ overtaken \subseteq {"hash", "socket"}
SocketInv == SocketKinds /\ OneSocket
ToolInv   == ToolKinds /\ Awaiting /\ RegexEnds

LEMMA ToolboxParts == ToolboxInv <=> ToolInv /\ SocketInv /\ wanted \in Bunches
BY DEF ToolboxInv, ToolInv, SocketInv, ToolKinds, SocketKinds, ToolboxTypeOK, Digests, ValueKinds, TextKinds

LEMMA ToolboxShows == ToolboxInv => ToolboxTypeOK /\ ToolboxIsTrue
<1> SUFFICES ASSUME ToolboxInv PROVE ToolboxIsTrue
  BY DEF ToolboxInv
<1>1. LastRunIsShown
  BY DEF ToolboxInv, Awaiting, Settled, LastRunIsShown
<1>2. ConnectedIsOpen
  BY DEF ToolboxInv, OneSocket, ConnectedIsOpen
<1> QED
  BY <1>1, <1>2 DEF ToolboxIsTrue, ToolboxInv

-----------------------------------------------------------------------------
(* The sockets                                                             *)

LEMMA SocketsKept ==
  ASSUME SocketInv, UNCHANGED <<wsVars, overtaken>>
  PROVE  SocketInv'
BY DEF SocketInv, SocketKinds, OneSocket, Living, wsVars

LEMMA ConnectKeeps ==
  ASSUME SocketInv, Connect
  PROVE  SocketInv'
<1>1. SocketKinds /\ OneSocket
  BY DEF SocketInv
<1>2. PICK s : s = Cardinality(DOMAIN sockets) + 1
  OBVIOUS
<1>3. /\ ~ wsConnected /\ s <= MaxSockets
      /\ sockets' = [k \in DOMAIN sockets \cup {s} |-> IF k = s THEN "connecting" ELSE sockets[k]]
      /\ mine' = mine \cup {s} /\ wsInstanceRef' = s
      /\ overtaken' = (IF Living # {} THEN overtaken \cup {"socket"} ELSE overtaken)
      /\ UNCHANGED <<wsConnected, wsListed, passed>>
  BY <1>2 DEF Connect
<1>4. MaxSockets \in Nat
  BY ToolboxAssumption
<1>5. s \in 1 .. MaxSockets
  <2>1. PICK n \in Nat : n = MaxSockets
    BY <1>4
  <2>2. IsFiniteSet(1 .. n)
    BY FS_Interval
  <2>3. Cardinality(DOMAIN sockets) \in Nat
    BY <1>1, <2>1, <2>2, FS_Subset, FS_CardinalityType DEF SocketKinds
  <2> QED
    BY <1>2, <1>3, <1>4, <2>3
<1>6. DOMAIN sockets' = DOMAIN sockets \cup {s}
  BY <1>3
<1>7. \A k \in DOMAIN sockets' : sockets'[k] = IF k = s THEN "connecting" ELSE sockets[k]
  BY <1>3
<1>8. overtaken' \subseteq {"hash", "socket"}
  BY <1>1, <1>3 DEF SocketKinds
<1>9. SocketKinds'
  <2>1. \A k \in DOMAIN sockets' : sockets'[k] \in SocketStates
    BY <1>1, <1>6, <1>7 DEF SocketKinds, SocketStates
  <2>2. /\ DOMAIN sockets \subseteq 1 .. MaxSockets /\ mine \subseteq DOMAIN sockets /\ wsConnected \in BOOLEAN
        /\ wsListed \in 0 .. MaxListed /\ passed \in 0 .. MaxListed /\ passed <= wsListed
    BY <1>1 DEF SocketKinds
  <2>3. /\ DOMAIN sockets' \subseteq 1 .. MaxSockets /\ mine' \subseteq DOMAIN sockets'
        /\ wsInstanceRef' \in {0} \cup mine'
    BY <1>3, <1>5, <1>6, <2>2
  <2> QED
    BY <1>3, <1>8, <2>1, <2>2, <2>3 DEF SocketKinds
<1>10. ASSUME "socket" \notin overtaken' PROVE \A k \in Living' : k = s
  <2>1. Living = {}
    BY <1>3, <1>10
  <2>2. TAKE k \in Living'
  <2>3. k \in DOMAIN sockets' /\ sockets'[k] # "closed"
    BY DEF Living
  <2> QED
    BY <1>6, <1>7, <2>1, <2>3 DEF Living
<1>11. s \in DOMAIN sockets' /\ sockets'[s] = "connecting"
  BY <1>6, <1>7
<1>12. OneSocket'
  BY <1>3, <1>10, <1>11 DEF OneSocket
<1> QED
  BY <1>9, <1>12 DEF SocketInv

\* An event or a click changes the state of one socket that there is.
LEMMA SocketKindsKept ==
  ASSUME SocketKinds, NEW s, NEW st \in SocketStates,
         sockets' = [sockets EXCEPT ![s] = st],
         UNCHANGED <<mine, wsInstanceRef, wsListed, passed, overtaken>>, wsConnected' \in BOOLEAN
  PROVE  /\ SocketKinds' /\ DOMAIN sockets' = DOMAIN sockets
         /\ \A k \in DOMAIN sockets : sockets'[k] = IF k = s THEN st ELSE sockets[k]
<1>1. DOMAIN sockets' = DOMAIN sockets
      /\ \A k \in DOMAIN sockets : sockets'[k] = IF k = s THEN st ELSE sockets[k]
  OBVIOUS
<1> QED
  BY <1>1 DEF SocketKinds

LEMMA EventKeepsSockets ==
  ASSUME SocketInv, NEW s \in DOMAIN sockets, WsOpens(s) \/ ServerCloses(s) \/ SocketDies(s)
  PROVE  SocketInv'
<1>1. SocketKinds /\ OneSocket
  BY DEF SocketInv
<1>2. /\ mine \subseteq DOMAIN sockets /\ wsInstanceRef \in {0} \cup mine /\ wsConnected \in BOOLEAN
  BY <1>1 DEF SocketKinds
<1>3. ASSUME WsOpens(s) PROVE SocketInv'
  <2>1. /\ sockets[s] = "connecting" /\ sockets' = [sockets EXCEPT ![s] = "open"]
        /\ wsConnected' = (wsConnected \/ s \in mine)
        /\ UNCHANGED <<mine, wsInstanceRef, wsListed, passed, overtaken>>
    BY <1>3 DEF WsOpens
  <2>2. /\ SocketKinds' /\ DOMAIN sockets' = DOMAIN sockets
        /\ \A k \in DOMAIN sockets : sockets'[k] = IF k = s THEN "open" ELSE sockets[k]
    BY <1>1, <2>1, SocketKindsKept DEF SocketStates
  <2>3. OneSocket'
    <3>1. SUFFICES ASSUME "socket" \notin overtaken
                   PROVE  /\ \A k \in Living' : k \in mine => k = wsInstanceRef
                          /\ wsConnected' => wsInstanceRef # 0 /\ sockets'[wsInstanceRef] \in {"open", "closing"}
                          /\ wsInstanceRef # 0 /\ sockets'[wsInstanceRef] = "open" => wsConnected'
      BY Zenon, <2>1 DEF OneSocket
    <3>2. /\ \A k \in Living : k \in mine => k = wsInstanceRef
          /\ wsConnected => wsInstanceRef # 0 /\ sockets[wsInstanceRef] \in {"open", "closing"}
          /\ wsInstanceRef # 0 /\ sockets[wsInstanceRef] = "open" => wsConnected
      BY <1>1, <3>1 DEF OneSocket
    <3>3. s \in Living
      BY <2>1 DEF Living
    <3>4. \A k \in Living' : k \in Living
      BY <2>2, <3>3 DEF Living
    <3>5. s \in mine => s = wsInstanceRef
      BY <3>2, <3>3
    <3>6. 0 \notin DOMAIN sockets
      BY <1>1 DEF SocketKinds
    <3> QED
      BY <1>2, <2>1, <2>2, <3>2, <3>4, <3>5, <3>6
  <2> QED
    BY <2>2, <2>3 DEF SocketInv
<1>4. ASSUME ServerCloses(s) PROVE SocketInv'
  <2>1. /\ sockets[s] = "open" /\ sockets' = [sockets EXCEPT ![s] = "closing"]
        /\ UNCHANGED <<mine, wsInstanceRef, wsConnected, wsListed, passed, overtaken>>
    BY <1>4 DEF ServerCloses
  <2>2. /\ SocketKinds' /\ DOMAIN sockets' = DOMAIN sockets
        /\ \A k \in DOMAIN sockets : sockets'[k] = IF k = s THEN "closing" ELSE sockets[k]
    BY <1>1, <1>2, <2>1, SocketKindsKept DEF SocketStates
  <2>3. OneSocket'
    BY <1>1, <1>2, <2>1, <2>2 DEF OneSocket, Living
  <2> QED
    BY <2>2, <2>3 DEF SocketInv
<1>5. ASSUME SocketDies(s) PROVE SocketInv'
  <2>1. /\ s \in Living /\ sockets' = [sockets EXCEPT ![s] = "closed"]
        /\ wsConnected' = (wsConnected /\ s \notin mine)
        /\ UNCHANGED <<mine, wsInstanceRef, wsListed, passed, overtaken>>
    BY <1>5 DEF SocketDies
  <2>2. /\ SocketKinds' /\ DOMAIN sockets' = DOMAIN sockets
        /\ \A k \in DOMAIN sockets : sockets'[k] = IF k = s THEN "closed" ELSE sockets[k]
    BY <1>1, <2>1, SocketKindsKept DEF SocketStates
  <2>3. OneSocket'
    BY <1>1, <1>2, <2>1, <2>2 DEF OneSocket, Living
  <2> QED
    BY <2>2, <2>3 DEF SocketInv
<1> QED
  BY <1>3, <1>4, <1>5

LEMMA DisconnectKeeps ==
  ASSUME SocketInv, Disconnect
  PROVE  SocketInv'
<1>1. SocketKinds /\ OneSocket
  BY DEF SocketInv
<1>2. PICK st : st = IF sockets[wsInstanceRef] = "closed" THEN "closed" ELSE "closing"
  OBVIOUS
<1>3. /\ sockets' = [sockets EXCEPT ![wsInstanceRef] = st] /\ wsConnected' = FALSE /\ st \in SocketStates
      /\ UNCHANGED <<mine, wsInstanceRef, wsListed, passed, overtaken>>
  BY <1>2 DEF Disconnect, SocketStates
<1>4. /\ SocketKinds' /\ DOMAIN sockets' = DOMAIN sockets
      /\ \A k \in DOMAIN sockets : sockets'[k] = IF k = wsInstanceRef THEN st ELSE sockets[k]
  BY <1>1, <1>3, SocketKindsKept
<1>5. wsInstanceRef \in {0} \cup mine /\ mine \subseteq DOMAIN sockets
  BY <1>1 DEF SocketKinds
<1>6. OneSocket'
  BY <1>1, <1>2, <1>3, <1>4, <1>5 DEF OneSocket, Living
<1> QED
  BY <1>4, <1>6 DEF SocketInv

LEMMA FramesKeepSockets ==
  ASSUME SocketInv, SendWs \/ \E s \in DOMAIN sockets : FrameComes(s)
  PROVE  SocketInv'
<1>1. SocketKinds /\ OneSocket
  BY DEF SocketInv
<1>2. /\ wsListed < MaxListed /\ wsListed' = wsListed + 1 /\ passed' \in {passed, passed + 1}
      /\ UNCHANGED <<sockets, mine, wsInstanceRef, wsConnected, overtaken>>
  BY DEF SendWs, FrameComes
<1>3. wsListed \in 0 .. MaxListed /\ passed \in 0 .. MaxListed /\ passed <= wsListed /\ MaxListed \in Nat
  BY <1>1, ToolboxAssumption DEF SocketKinds
<1>4. wsListed' \in 0 .. MaxListed /\ passed' \in 0 .. MaxListed /\ passed' <= wsListed'
  BY <1>2, <1>3
<1> QED
  BY <1>1, <1>2, <1>4 DEF SocketInv, SocketKinds, OneSocket, Living

LEMMA ToolKeptBySockets ==
  ASSUME ToolInv, UNCHANGED toolVars, overtaken \subseteq overtaken'
  PROVE  ToolInv'
BY DEF ToolInv, ToolKinds, Awaiting, AwaitedOnce, Settled, RegexEnds, toolVars

LEMMA SocketsKeepToolbox ==
  ASSUME ToolInv, SocketInv, ToolboxSocket
  PROVE  ToolInv' /\ SocketInv'
<1>1. SocketInv'
  <2>1. ASSUME NEW s \in DOMAIN sockets, WsOpens(s) \/ ServerCloses(s) \/ SocketDies(s) PROVE SocketInv'
    BY <2>1, EventKeepsSockets
  <2>2. ASSUME SendWs \/ \E s \in DOMAIN sockets : FrameComes(s) PROVE SocketInv'
    BY <2>2, FramesKeepSockets
  <2> QED
    BY Zenon, <2>1, <2>2, ConnectKeeps, DisconnectKeeps DEF ToolboxSocket
<1>2. UNCHANGED toolVars /\ overtaken \subseteq overtaken'
  BY DEF ToolboxSocket, Connect, Disconnect, SendWs, WsOpens, ServerCloses, SocketDies, FrameComes
<1> QED
  BY <1>1, <1>2, ToolKeptBySockets

-----------------------------------------------------------------------------
(* The tools                                                               *)

LEMMA ToolsAre ==
  /\ Tools["curl_composer"].fields = {"curlInput"} /\ Tools["json_viewer"].fields = {"jsonInput"}
  /\ Tools["js_runner"].fields = {"jsCode"} /\ Tools["rsa_tool"].fields = {"rsaData"}
  /\ Tools["cert_hash"].fields = {"certSubject"} /\ Tools["regexp"].fields = {"regexText"}
  /\ Tools["aes_tool"].fields = {"aesInput"} /\ Tools["aes_tool"].made = {"aesOutput"}
  /\ Tools["hash_tool"].fields = {"hashInput"} /\ Tools["hash_tool"].made = Hashes
  /\ Tools["text_diff"].fields = {"diffTextA", "diffTextB"} /\ Tools["text_editor"].fields = {"editorText"}
<1>1. /\ Tools["curl_composer"] = CurlTool /\ Tools["json_viewer"] = JsonTool
      /\ Tools["js_runner"] = ScriptTool /\ Tools["rsa_tool"] = RsaTool
      /\ Tools["cert_hash"] = CertTool /\ Tools["regexp"] = RegexTool
      /\ Tools["aes_tool"] = AesTool /\ Tools["hash_tool"] = HashTool
      /\ Tools["text_diff"] = DiffTool /\ Tools["text_editor"] = EditorTool
  BY DEF Tools
<1>2. \A f, m : Tool(f, m).fields = f /\ Tool(f, m).made = m /\ \A b : Brittle(Tool(f, m), b).fields = f
  BY DEF Tool, Brittle
<1> QED
  BY <1>1, <1>2 DEF CurlTool, JsonTool, ScriptTool, RsaTool, CertTool, RegexTool, AesTool, HashTool,
                    DiffTool, EditorTool, Hashes

\* The inputs and results of the tool that is open are among those kept.
LEMMA OpenHas ==
  ASSUME ToolKinds, place \notin {"grid", "away", "crashed"}
  PROVE  place \in Used /\ Tools[place].fields \subseteq Fields /\ Tools[place].made \subseteq Results
<1>1. place \in Used
  BY DEF ToolKinds
<1> QED
  BY <1>1 DEF Fields, Results

\* What no await and no earlier click is asked for.
LEMMA MakeKeeps ==
  ASSUME ToolInv, NEW r, r \notin {"aesOutput", "hashSha256", "hashSha1"}, NEW v \in ValueKinds,
         v.kind # "hangs", result' = [result EXCEPT ![r] = v],
         place' \in Used \cup {"grid", "away", "crashed"}, text' \in [Fields -> TextKinds],
         UNCHANGED <<digests, aesLoading, askedFor, overtaken>>
  PROVE  ToolInv'
<1>1. ToolKinds /\ Awaiting /\ RegexEnds
  BY DEF ToolInv
<1>2. result \in [Results -> ValueKinds]
  BY <1>1 DEF ToolKinds
<1>3. result' \in [Results -> ValueKinds] /\ \A q \in Results : result'[q] = IF q = r THEN v ELSE result[q]
  BY <1>2
<1>4. ToolKinds'
  BY <1>1, <1>3 DEF ToolKinds
<1>5. \A q \in Results \cap {"aesOutput", "hashSha256", "hashSha1"} : result'[q] = result[q]
  BY <1>3
<1>6. Awaiting'
  BY <1>1, <1>5 DEF Awaiting, Settled, AwaitedOnce, Hashes
<1>7. RegexEnds'
  BY <1>1, <1>3 DEF RegexEnds
<1> QED
  BY <1>4, <1>6, <1>7 DEF ToolInv

LEMMA MadeKeeps ==
  ASSUME ToolInv, NEW r, r \notin {"aesOutput", "hashSha256", "hashSha1"},
         NEW f \in Fields, NEW kind \in {"none", "value", "error"}, Make(r, f, kind)
  PROVE  ToolInv'
<1>1. ToolKinds
  BY DEF ToolInv
<1>2. PICK v : v = [of |-> text[f].nth, kind |-> kind]
  OBVIOUS
<1>3. /\ result' = [result EXCEPT ![r] = v]
      /\ UNCHANGED <<place, text, digests, aesLoading, askedFor, overtaken>>
  BY <1>2 DEF Make
<1>4. text[f].nth \in 0 .. MaxTyped /\ text' \in [Fields -> TextKinds]
      /\ place' \in Used \cup {"grid", "away", "crashed"}
  BY <1>1, <1>3 DEF ToolKinds, TextKinds
<1>5. v \in ValueKinds /\ v.kind # "hangs"
  BY <1>2, <1>4 DEF ValueKinds
<1> QED
  BY <1>3, <1>4, <1>5, MakeKeeps

LEMMA AtOnceKeepsToolbox ==
  ASSUME ToolInv, SocketInv, ToolboxAtOnce
  PROVE  ToolInv' /\ SocketInv'
<1>1. SocketInv'
  <2>1. UNCHANGED <<wsVars, overtaken>>
    BY DEF ToolboxAtOnce, ParseCurl, EvaluateJsonPath, RunJs, GenerateKeypair, ComputeCertHash, RunRegex, Make
  <2> QED
    BY <2>1, SocketsKept
<1>2. ToolKinds
  BY DEF ToolInv
<1>3. /\ place = "curl_composer" => "curlInput" \in Fields
      /\ place = "json_viewer" => "jsonInput" \in Fields
      /\ place = "js_runner" => "jsCode" \in Fields
      /\ place = "rsa_tool" => "rsaData" \in Fields
      /\ place = "cert_hash" => "certSubject" \in Fields
      /\ place = "regexp" => "regexText" \in Fields
  BY <1>2, OpenHas, ToolsAre
<1>4. ASSUME ParseCurl PROVE ToolInv'
  <2>1. place = "curl_composer" /\ Make("parsedCurl", "curlInput", "value")
    BY <1>4 DEF ParseCurl
  <2> QED
    BY <1>3, <2>1, MadeKeeps
<1>5. ASSUME EvaluateJsonPath PROVE ToolInv'
  <2>1. /\ place = "json_viewer"
        /\ \E kind \in {"none", "value", "error"} : Make("jsonPathResult", "jsonInput", kind)
    BY <1>5 DEF EvaluateJsonPath
  <2> QED
    BY <1>3, <2>1, MadeKeeps
<1>6. ASSUME RunJs PROVE ToolInv'
  <2>1. /\ place = "js_runner"
        /\ \E kind \in {"none", "value", "error"} : Make("jsOutput", "jsCode", kind)
    BY <1>6 DEF RunJs
  <2> QED
    BY <1>3, <2>1, MadeKeeps
<1>7. ASSUME GenerateKeypair PROVE ToolInv'
  <2>1. place = "rsa_tool" /\ Make("rsaKeys", "rsaData", "value")
    BY <1>7 DEF GenerateKeypair
  <2> QED
    BY <1>3, <2>1, MadeKeeps
<1>8. ASSUME ComputeCertHash PROVE ToolInv'
  <2>1. place = "cert_hash" /\ Make("certHashResult", "certSubject", "value")
    BY <1>8 DEF ComputeCertHash
  <2> QED
    BY <1>3, <2>1, MadeKeeps
<1>9. ASSUME NEW re \in Patterns, RunRegex(re) PROVE ToolInv'
  <2>1. IsText(re)
    BY ToolboxAssumption DEF IsText
  <2>2. Rounds(re, Cardinality(DOMAIN re)) # {}
    BY <2>1, LoopEnds
  <2>3. place = "regexp" /\ Make("regexMatches", "regexText", "value")
    BY <1>9, <2>2 DEF RunRegex
  <2> QED
    BY <1>3, <2>3, MadeKeeps
<1> QED
  BY <1>1, <1>4, <1>5, <1>6, <1>7, <1>8, <1>9 DEF ToolboxAtOnce

LEMMA TypedIs ==
  Typed < MaxTyped => Typed + 1 \in 0 .. MaxTyped
<1>1. PICK n \in Nat : n = MaxTyped
  BY ToolboxAssumption
<1>2. PICK S : S = {k \in 1 .. MaxTyped : \E f \in Fields : text[f].nth >= k}
  OBVIOUS
<1>3. IsFiniteSet(1 .. n)
  BY FS_Interval
<1>4. Cardinality(S) \in Nat
  BY <1>1, <1>2, <1>3, FS_Subset, FS_CardinalityType
<1>5. Typed = Cardinality(S)
  BY <1>2 DEF Typed
<1> QED
  BY <1>1, <1>4, <1>5

\* The page that is left forgets its inputs, its results and what they waited for.
LEMMA ToolsFreshKeep ==
  ASSUME ToolInv, place' = "away",
         text'   = [f \in Fields |-> NoText], result' = [r \in Results |-> NoValue],
         digests' = {}, aesLoading' = FALSE, askedFor' = [r \in Results |-> 0], UNCHANGED overtaken
  PROVE  ToolInv'
<1>1. 0 \in 0 .. MaxTyped
  BY ToolboxAssumption
<1>2. NoText \in TextKinds /\ NoValue \in ValueKinds /\ NoValue.of = 0 /\ NoValue.kind = "none"
  BY <1>1 DEF NoText, NoValue, TextKinds, ValueKinds
<1>3. /\ text' \in [Fields -> TextKinds] /\ result' \in [Results -> ValueKinds]
      /\ askedFor' \in [Results -> 0 .. MaxTyped]
  BY <1>1, <1>2
<1>4. ToolKinds'
  BY <1>3 DEF ToolKinds
<1>5. \A r \in Results : Settled(r)'
  BY <1>2 DEF Settled
<1>6. Awaiting'
  BY <1>5 DEF Awaiting, AwaitedOnce
<1>7. RegexEnds'
  BY <1>2 DEF RegexEnds
<1> QED
  BY <1>4, <1>6, <1>7 DEF ToolInv

\* What moves between the tools and edits their inputs.
LEMMA EditKeepsTools ==
  ASSUME ToolInv, place' \in Used \cup {"grid", "away", "crashed"}, text' \in [Fields -> TextKinds],
         UNCHANGED <<result, digests, aesLoading, askedFor, overtaken>>
  PROVE  ToolInv'
BY DEF ToolInv, ToolKinds, Awaiting, AwaitedOnce, Settled, RegexEnds

LEMMA PageKeepsToolbox ==
  ASSUME ToolInv, SocketInv, ToolboxPage
  PROVE  ToolInv' /\ SocketInv'
<1>1. ToolKinds /\ SocketKinds
  BY DEF ToolInv, SocketInv
<1>2. /\ place \in Used \cup {"grid", "away", "crashed"} /\ text \in [Fields -> TextKinds]
      /\ result \in [Results -> ValueKinds]
  BY <1>1 DEF ToolKinds
<1>3. ASSUME NEW t \in Used, OpenTool(t) PROVE ToolInv' /\ SocketInv'
  <2>1. place' = t /\ UNCHANGED <<text, result, digests, aesLoading, askedFor, wsVars, overtaken>>
    BY <1>3 DEF OpenTool
  <2> QED
    BY <1>2, <2>1, EditKeepsTools, SocketsKept
<1>4. ASSUME CloseTool \/ EnterToolbox PROVE ToolInv' /\ SocketInv'
  <2>1. place' = "grid" /\ UNCHANGED <<text, result, digests, aesLoading, askedFor, wsVars, overtaken>>
    BY <1>4 DEF CloseTool, EnterToolbox
  <2> QED
    BY <1>2, <2>1, EditKeepsTools, SocketsKept
<1>5. ASSUME LeaveToolbox PROVE ToolInv' /\ SocketInv'
  <2>1. /\ place' = "away"
        /\ text'   = [f \in Fields |-> NoText] /\ result' = [r \in Results |-> NoValue]
        /\ digests' = {} /\ aesLoading' = FALSE /\ askedFor'  = [r \in Results |-> 0]
        /\ mine' = {} /\ wsInstanceRef' = 0 /\ wsConnected' = FALSE
        /\ wsListed' = 0 /\ passed' = 0 /\ UNCHANGED <<sockets, overtaken>>
    BY <1>5 DEF LeaveToolbox
  <2>2. 0 \in 0 .. MaxListed
    BY ToolboxAssumption
  <2>3. /\ DOMAIN sockets \subseteq 1 .. MaxSockets /\ \A s \in DOMAIN sockets : sockets[s] \in SocketStates
        /\ overtaken \subseteq {"hash", "socket"}
    BY <1>1 DEF SocketKinds
  <2>4. 0 <= 0
    OBVIOUS
  <2>5. SocketKinds'
    BY Zenon, <2>1, <2>2, <2>3, <2>4 DEF SocketKinds
  <2>6. OneSocket'
    BY <2>1 DEF OneSocket
  <2> QED
    BY <2>1, <2>5, <2>6, ToolsFreshKeep DEF SocketInv
<1>6. ASSUME NEW f \in Fields, NEW odd \in BOOLEAN, Type(f, odd) PROVE ToolInv' /\ SocketInv'
  <2>1. PICK now : now = [nth |-> Typed + 1, odd |-> odd]
    OBVIOUS
  <2>2. PICK v : v = [of |-> now.nth, kind |-> "value"]
    OBVIOUS
  <2>3. /\ place \in Used /\ Typed < MaxTyped /\ text' = [text EXCEPT ![f] = now]
        /\ place' = (IF odd /\ f \in Tools[place].brittle THEN "crashed" ELSE place)
        /\ result' = (IF f = "timestampInput" /\ ~ odd THEN [result EXCEPT !["timeResult"] = v] ELSE result)
        /\ UNCHANGED <<digests, aesLoading, askedFor, wsVars, overtaken>>
    BY <1>6, <2>1, <2>2 DEF Type
  <2>4. now \in TextKinds /\ v \in ValueKinds /\ v.kind # "hangs"
    BY <2>1, <2>2, <2>3, TypedIs DEF TextKinds, ValueKinds
  <2>5. text' \in [Fields -> TextKinds] /\ place' \in Used \cup {"grid", "away", "crashed"}
    BY <1>2, <2>3, <2>4
  <2>6. CASE result' = result
    BY <2>3, <2>5, <2>6, EditKeepsTools, SocketsKept
  <2>7. CASE result' = [result EXCEPT !["timeResult"] = v]
    BY <2>3, <2>4, <2>5, <2>7, MakeKeeps, SocketsKept
  <2> QED
    BY <2>3, <2>6, <2>7
<1>7. ASSUME SwapSides PROVE ToolInv' /\ SocketInv'
  <2>1. /\ place = "text_diff" /\ place' = place
        /\ text' = [text EXCEPT !["diffTextA"] = text["diffTextB"], !["diffTextB"] = text["diffTextA"]]
        /\ UNCHANGED <<result, digests, aesLoading, askedFor, wsVars, overtaken>>
    BY <1>7 DEF SwapSides
  <2>2. "diffTextA" \in Fields /\ "diffTextB" \in Fields
    BY <1>1, <2>1, OpenHas, ToolsAre
  <2>3. text' \in [Fields -> TextKinds]
    BY <1>2, <2>1, <2>2
  <2> QED
    BY <1>2, <2>1, <2>3, EditKeepsTools, SocketsKept
<1>8. ASSUME ClearEditor PROVE ToolInv' /\ SocketInv'
  <2>1. /\ place' = place /\ text' = [text EXCEPT !["editorText"] = NoText]
        /\ UNCHANGED <<result, digests, aesLoading, askedFor, wsVars, overtaken>>
    BY <1>8 DEF ClearEditor
  <2>2. NoText \in TextKinds
    BY ToolboxAssumption DEF NoText, TextKinds
  <2>3. text' \in [Fields -> TextKinds]
    BY <1>2, <2>1, <2>2
  <2> QED
    BY <1>2, <2>1, <2>3, EditKeepsTools, SocketsKept
<1> QED
  BY Zenon, <1>3, <1>4, <1>5, <1>6, <1>7, <1>8 DEF ToolboxPage

\* A click on a button that awaits.
LEMMA AwaitKinds ==
  ASSUME ToolInv, NEW f \in Fields, NEW rs \in SUBSET Results, Await(f, rs)
  PROVE  /\ digests' \subseteq Digests /\ askedFor' \in [Results -> 0 .. MaxTyped]
         /\ \A r \in Results : askedFor'[r] = IF r \in rs THEN text[f].nth ELSE askedFor[r]
         /\ digests \subseteq digests'
         /\ \A r \in rs : \E d \in digests' : d.makes = r
         /\ \A d \in digests' \ digests : d.makes \in rs /\ d.of = text[f].nth
         /\ \A d, e \in digests' \ digests : d.makes = e.makes => d = e
         /\ UNCHANGED <<place, text, result, wsVars>>
<1>1. ToolKinds
  BY DEF ToolInv
<1>2. PICK id : id = Least((1 .. MaxDigests) \ Taken)
  OBVIOUS
<1>3. /\ Taken # 1 .. MaxDigests
      /\ digests' = digests \cup {[id |-> id, makes |-> r, of |-> text[f].nth] : r \in rs}
      /\ askedFor' = [r \in Results |-> IF r \in rs THEN text[f].nth ELSE askedFor[r]]
      /\ UNCHANGED <<place, text, result, wsVars>>
  BY <1>2 DEF Await
<1>4. digests \subseteq Digests /\ text[f].nth \in 0 .. MaxTyped /\ askedFor \in [Results -> 0 .. MaxTyped]
  BY <1>1 DEF ToolKinds, TextKinds
<1>5. Taken \subseteq 1 .. MaxDigests
  BY <1>4 DEF Taken, Digests
<1>6. id \in 1 .. MaxDigests
  <2>1. 1 .. MaxDigests \subseteq Nat
    OBVIOUS
  <2>2. (1 .. MaxDigests) \ Taken \in SUBSET Nat /\ (1 .. MaxDigests) \ Taken # {}
    BY Zenon, <1>3, <1>5, <2>1
  <2>3. Least((1 .. MaxDigests) \ Taken) \in (1 .. MaxDigests) \ Taken
    BY <2>2, LeastIs
  <2> QED
    BY <1>2, <2>3
<1>7. \A r \in rs : [id |-> id, makes |-> r, of |-> text[f].nth] \in Digests
  BY <1>4, <1>6 DEF Digests
<1>8. digests' \subseteq Digests
  BY <1>3, <1>4, <1>7
<1>9. askedFor' \in [Results -> 0 .. MaxTyped]
      /\ \A r \in Results : askedFor'[r] = IF r \in rs THEN text[f].nth ELSE askedFor[r]
  BY <1>3, <1>4
<1>10. \A d \in digests' \ digests : \E r \in rs : d = [id |-> id, makes |-> r, of |-> text[f].nth]
  BY <1>3
<1>11. \A d \in digests' \ digests : d.makes \in rs /\ d.of = text[f].nth
  BY <1>10
<1>12. \A d, e \in digests' \ digests : d.makes = e.makes => d = e
  BY <1>10
<1>13. \A r \in rs : \E d \in digests' : d.makes = r
  <2>1. TAKE r \in rs
  <2>2. PICK d : d = [id |-> id, makes |-> r, of |-> text[f].nth]
    OBVIOUS
  <2>3. d \in digests' /\ d.makes = r
    BY <1>3, <2>2
  <2> QED
    BY <2>3
<1>14. digests \subseteq digests'
  BY <1>3
<1> QED
  BY <1>3, <1>8, <1>9, <1>11, <1>12, <1>13, <1>14

\* A result whose button was clicked while none of it was under way.
LEMMA AskedSettles ==
  ASSUME ToolInv, NEW f \in Fields, NEW rs \in SUBSET Results, Await(f, rs),
         NEW r \in Results, r \in rs => ~ \E d \in digests : d.makes = r, r \notin rs => Settled(r)
  PROVE  Settled(r)'
<1>1. /\ \A q \in Results : askedFor'[q] = IF q \in rs THEN text[f].nth ELSE askedFor[q]
      /\ digests \subseteq digests'
      /\ \A q \in rs : \E d \in digests' : d.makes = q
      /\ \A d \in digests' \ digests : d.makes \in rs /\ d.of = text[f].nth
      /\ UNCHANGED result
  BY AwaitKinds
<1> QED
  BY <1>1 DEF Settled

LEMMA AwaitedKeepsToolbox ==
  ASSUME ToolInv, SocketInv, ToolboxAwaited
  PROVE  ToolInv' /\ SocketInv'
<1>1. ToolKinds /\ Awaiting /\ RegexEnds /\ SocketKinds /\ OneSocket
  BY DEF ToolInv, SocketInv
<1>2. /\ digests \subseteq Digests /\ result \in [Results -> ValueKinds] /\ aesLoading \in BOOLEAN
  BY <1>1 DEF ToolKinds
<1>3. "aesOutput" \notin Hashes /\ "regexMatches" \notin Hashes /\ Hashes = {"hashSha256", "hashSha1"}
  BY DEF Hashes
<1>4. ASSUME RunAes PROVE ToolInv' /\ SocketInv'
  <2>1. place = "aes_tool" /\ ~ aesLoading /\ aesLoading' = TRUE /\ Await("aesInput", {"aesOutput"}) /\ UNCHANGED overtaken
    BY <1>4 DEF RunAes
  <2>2. "aesInput" \in Fields /\ {"aesOutput"} \in SUBSET Results
    BY <1>1, <2>1, OpenHas, ToolsAre
  <2>3. /\ digests' \subseteq Digests /\ askedFor' \in [Results -> 0 .. MaxTyped]
        /\ \A d \in digests' \ digests : d.makes \in {"aesOutput"}
        /\ \A d, e \in digests' \ digests : d.makes = e.makes => d = e
        /\ UNCHANGED <<place, text, result, wsVars>>
    BY <2>1, <2>2, AwaitKinds
  <2>4. ~ \E d \in digests : d.makes = "aesOutput"
    BY <1>1, <2>1 DEF Awaiting
  <2>5. \A r \in Results : (r = "aesOutput" \/ Settled(r)) => Settled(r)'
    <3>1. TAKE r \in Results
    <3> QED
      BY <2>1, <2>2, <2>4, AskedSettles
  <2>6. Awaiting'
    BY <1>1, <1>3, <2>1, <2>2, <2>3, <2>4, <2>5 DEF Awaiting, AwaitedOnce
  <2>7. ToolKinds' /\ RegexEnds'
    BY <1>1, <2>1, <2>3 DEF ToolKinds, RegexEnds
  <2> QED
    BY <2>1, <2>3, <2>6, <2>7, SocketsKept DEF ToolInv
<1>5. ASSUME ComputeHashes PROVE ToolInv' /\ SocketInv'
  <2>1. /\ place = "hash_tool" /\ Await("hashInput", Hashes) /\ UNCHANGED aesLoading
        /\ overtaken' = (IF \E d \in digests : d.makes \in Hashes THEN overtaken \cup {"hash"} ELSE overtaken)
    BY <1>5 DEF ComputeHashes
  <2>2. "hashInput" \in Fields /\ Hashes \in SUBSET Results
    BY <1>1, <2>1, OpenHas, ToolsAre
  <2>3. /\ digests' \subseteq Digests /\ askedFor' \in [Results -> 0 .. MaxTyped]
        /\ \A d \in digests' \ digests : d.makes \in Hashes
        /\ UNCHANGED <<place, text, result, wsVars>>
    BY <2>1, <2>2, AwaitKinds
  <2>4. \A r \in Results : /\ r \notin Hashes /\ Settled(r) => Settled(r)'
                           /\ r \in Hashes /\ "hash" \notin overtaken' => Settled(r)'
    <3>1. TAKE r \in Results
    <3> QED
      BY <2>1, <2>2, AskedSettles
  <2>5. Awaiting'
    BY <1>1, <1>3, <2>1, <2>3, <2>4 DEF Awaiting, AwaitedOnce
  <2>6. ToolKinds' /\ RegexEnds'
    BY <1>1, <2>1, <2>3 DEF ToolKinds, RegexEnds
  <2>7. /\ UNCHANGED <<sockets, mine, wsInstanceRef, wsConnected, wsListed, passed>>
        /\ overtaken' \subseteq {"hash", "socket"} /\ ("socket" \in overtaken' <=> "socket" \in overtaken)
    BY <1>1, <2>1, <2>3 DEF wsVars, SocketKinds
  <2>8. SocketInv'
    BY <1>1, <2>7 DEF SocketInv, SocketKinds, OneSocket, Living
  <2> QED
    BY <2>5, <2>6, <2>8 DEF ToolInv
\* An answer.
<1>6. ASSUME NEW d \in digests, NEW v \in ValueKinds, v.of = d.of, v.kind # "hangs", d.makes # "regexMatches",
             digests' = digests \ {d}, result' = [result EXCEPT ![d.makes] = v],
             aesLoading' \in BOOLEAN,
             \A e \in digests' : e.makes = "aesOutput" => aesLoading',
             UNCHANGED <<place, text, askedFor, wsVars, overtaken>>
      PROVE  ToolInv' /\ SocketInv'
  <2>1. d.makes \in Results
    BY <1>2 DEF Digests
  <2>2. result' \in [Results -> ValueKinds] /\ \A r \in Results : result'[r] = IF r = d.makes THEN v ELSE result[r]
    BY <1>2, <1>6, <2>1
  <2>3. \A r \in Results : Settled(r) => Settled(r)'
    BY <1>6, <2>1, <2>2 DEF Settled
  <2>4. Awaiting'
    BY <1>1, <1>6, <2>3 DEF Awaiting, AwaitedOnce
  <2>5. ToolKinds' /\ RegexEnds'
    BY <1>1, <1>6, <2>2 DEF ToolKinds, RegexEnds
  <2> QED
    BY <1>6, <2>4, <2>5, SocketsKept DEF ToolInv
<1>7. ASSUME NEW d \in digests, NEW k \in {"value", "error"}, AesAnswered(d, k) PROVE ToolInv' /\ SocketInv'
  <2>1. PICK v : v = [of |-> d.of, kind |-> k]
    OBVIOUS
  <2>2. /\ d.makes = "aesOutput" /\ digests' = digests \ {d} /\ result' = [result EXCEPT ![d.makes] = v]
        /\ aesLoading' = FALSE /\ UNCHANGED <<place, text, askedFor, wsVars, overtaken>>
    BY <1>7, <2>1 DEF AesAnswered
  <2>3. v \in ValueKinds /\ v.of = d.of /\ v.kind # "hangs"
    BY <1>2, <2>1 DEF ValueKinds, Digests
  <2>4. \A e \in digests' : e.makes # "aesOutput"
    BY <1>1, <2>2 DEF Awaiting, AwaitedOnce
  <2> QED
    BY <1>6, <2>2, <2>3, <2>4
<1>8. ASSUME NEW d \in digests, DigestReady(d) PROVE ToolInv' /\ SocketInv'
  <2>1. PICK v : v = [of |-> d.of, kind |-> "value"]
    OBVIOUS
  <2>2. /\ d.makes \in Hashes /\ digests' = digests \ {d} /\ result' = [result EXCEPT ![d.makes] = v]
        /\ UNCHANGED <<place, text, aesLoading, askedFor, wsVars, overtaken>>
    BY <1>8, <2>1 DEF DigestReady
  <2>3. v \in ValueKinds /\ v.of = d.of /\ v.kind # "hangs"
    BY <1>2, <2>1 DEF ValueKinds, Digests
  <2>4. \A e \in digests' : e.makes = "aesOutput" => aesLoading
    BY <1>1, <2>2 DEF Awaiting
  <2> QED
    BY <1>2, <1>3, <1>6, <2>2, <2>3, <2>4
<1> QED
  BY Zenon, <1>4, <1>5, <1>7, <1>8 DEF ToolboxAwaited

LEMMA ToolboxInitInv == ToolboxInit => ToolboxInv
<1> SUFFICES ASSUME ToolboxInit PROVE ToolInv /\ SocketInv /\ wanted \in Bunches
  BY ToolboxParts
<1>1. /\ place = "grid" /\ text = [f \in Fields |-> NoText] /\ result = [r \in Results |-> NoValue]
      /\ digests = {} /\ aesLoading = FALSE /\ askedFor = [r \in Results |-> 0]
      /\ sockets = [s \in {} |-> "closed"] /\ mine = {} /\ wsInstanceRef = 0 /\ wsConnected = FALSE
      /\ wsListed = 0 /\ passed = 0 /\ overtaken = {} /\ wanted \in Bunches
  BY DEF ToolboxInit, ToolsFresh
<1>2. MaxTyped \in Nat /\ MaxListed \in Nat
  BY ToolboxAssumption
<1>3. 0 \in 0 .. MaxTyped /\ 0 \in 0 .. MaxListed /\ 0 <= 0
  BY <1>2
<1>4. NoText \in TextKinds /\ NoValue \in ValueKinds /\ NoValue.of = 0 /\ NoValue.kind = "none"
  BY <1>3 DEF NoText, NoValue, TextKinds, ValueKinds
<1>5. ToolKinds
  BY <1>1, <1>3, <1>4 DEF ToolKinds
<1>6. \A r \in Results : Settled(r)
  BY <1>1, <1>4 DEF Settled
<1>7. Awaiting /\ RegexEnds
  BY <1>1, <1>4, <1>6 DEF Awaiting, AwaitedOnce, RegexEnds
<1>8. DOMAIN sockets = {}
  BY <1>1
<1>9. SocketKinds /\ OneSocket
  BY <1>1, <1>3, <1>8 DEF SocketKinds, OneSocket
<1> QED
  BY <1>1, <1>5, <1>7, <1>9 DEF ToolInv, SocketInv

LEMMA ToolboxInvariance == ToolboxInv /\ [ToolboxNext]_toolboxVars => ToolboxInv'
<1> SUFFICES ASSUME ToolboxInv, [ToolboxNext]_toolboxVars PROVE ToolInv' /\ SocketInv' /\ wanted' \in Bunches
  BY DEF ToolboxInv, ToolInv, SocketInv, ToolKinds, SocketKinds, ToolboxTypeOK, Digests, ValueKinds, TextKinds
<1>1. ToolInv /\ SocketInv /\ wanted \in Bunches
  BY ToolboxParts
<1>2. UNCHANGED wanted
  BY DEF ToolboxNext, toolboxVars
<1>3. CASE ToolboxNext
  BY <1>1, <1>2, <1>3, PageKeepsToolbox, AtOnceKeepsToolbox, AwaitedKeepsToolbox, SocketsKeepToolbox
  DEF ToolboxNext
<1>4. CASE UNCHANGED toolboxVars
  <2>1. UNCHANGED <<toolVars, wsVars, overtaken>>
    BY <1>4 DEF toolboxVars
  <2> QED
    BY <1>1, <1>2, <2>1, ToolKeptBySockets, SocketsKept
<1> QED
  BY <1>3, <1>4

\* For every set of tools, texts and patterns, and every order of clicks, edits, answers and
\* socket events: what an awaited tool shows is the result of the last click, the button of
\* the WebSocket client tells the truth of the only socket, and the loop over the matches of
\* a global expression ends (Toolbox.tsx).
THEOREM ToolsShowWhatTheyDid == ToolboxSpec => [](ToolboxTypeOK /\ ToolboxIsTrue)
<1>1. ToolboxInit => ToolboxInv
  BY ToolboxInitInv
<1>2. ToolboxInv /\ [ToolboxNext]_toolboxVars => ToolboxInv'
  BY ToolboxInvariance
<1>3. ToolboxInv => ToolboxTypeOK /\ ToolboxIsTrue
  BY ToolboxShows
<1> QED
  BY <1>1, <1>2, <1>3, PTL DEF ToolboxSpec

-----------------------------------------------------------------------------
(* The history page                                                        *)

\* The list is the table's, and the selection one of it.
Listed == DOMAIN sessions = table /\ IF table = {} THEN selectedSession = 0 ELSE selectedSession \in table

\* What the page will make of the only call there is.
Promises(a) ==
    /\ a.page
    /\ a.verb = "list" => /\ a.of = selectedSession /\ selectedSession \in table \cup {0}
                          /\ a.done => a.got = table
    /\ a.verb = "requests" => Listed
    /\ a.verb = "create" => /\ a.of = selectedSession /\ selectedSession \in table \cup {0}
                            /\ ~ a.done => Listed
    /\ a.verb = "delete" => /\ a.of = selectedSession /\ a.list = DOMAIN sessions /\ a.id \in a.list
                            /\ IF a.done
                                 THEN table = a.list \ {a.id} /\ selectedSession \in a.list
                                 ELSE Listed

\* A call as it is made.
Asked(a, verb, id) ==
    /\ a.verb = verb /\ a.id = id /\ a.list = DOMAIN sessions /\ a.of = selectedSession
    /\ ~ a.done /\ a.page

\* Of a user who waits for every answer: the list is true, or the only call makes it so.
HistoryKinds ==
    /\ table \subseteq SessionIds /\ born \in 0 .. MaxSessions
    /\ pageOpen \in BOOLEAN /\ entangled \in BOOLEAN
    /\ DOMAIN sessions \subseteq SessionIds /\ \A s \in DOMAIN sessions : sessions[s] \in BOOLEAN
    /\ selectedSession \in {0} \cup SessionIds
    /\ asks \subseteq Asking /\ askCount \in 0 .. MaxAsks
Patient ==
    pageOpen /\ ~ entangled =>
        IF asks = {} THEN Listed ELSE \E a \in asks : asks = {a} /\ Promises(a)
Away == ~ pageOpen => selectedSession = 0 /\ \A a \in asks : ~ a.page
HistoryInv == HistoryKinds /\ Patient /\ Away

LEMMA HistoryTypes == HistoryInv => HistoryTypeOK /\ HistoryIsTrue
<1> SUFFICES ASSUME HistoryInv PROVE HistoryTypeOK /\ HistoryIsTrue
  OBVIOUS
<1>1. \A a \in Asking : a.nth \in 1 .. MaxAsks /\ a.id \in {0} \cup SessionIds
  BY DEF Asking
<1>2. HistoryTypeOK
  BY <1>1 DEF HistoryInv, HistoryKinds, HistoryTypeOK
<1>3. HistoryIsTrue
  BY DEF HistoryInv, Patient, Listed, HistoryIsTrue
<1> QED
  BY <1>2, <1>3

\* The newest of some sessions is one of them.
LEMMA NewestIs ==
  ASSUME NEW S \in SUBSET SessionIds
  PROVE  IF S = {} THEN NewestOf(S) = 0 ELSE NewestOf(S) \in S
<1>1. ASSUME S # {} PROVE \E s \in S : \A r \in S : r <= s
  <2>1. MaxSessions \in Nat
    BY HistoryAssumption
  <2>2. PICK T : T = {k \in Nat : \E s \in S : k = MaxSessions - s}
    OBVIOUS
  <2>3. \A s \in S : s \in 1 .. MaxSessions
    BY DEF SessionIds
  <2>4. \A s \in S : MaxSessions - s \in T
    BY <2>1, <2>2, <2>3
  <2>5. T \subseteq Nat /\ T # {}
    BY <1>1, <2>2, <2>4
  <2>6. PICK x \in T : \A y \in T : <<y, x>> \notin OpToRel(<, Nat)
    BY <2>5, NatLessThanWellFounded, WFMin
  <2>7. \A a, b \in Nat : a < b => <<a, b>> \in OpToRel(<, Nat)
    BY Zenon DEF OpToRel
  <2>8. \A y \in T : ~ (y < x)
    BY <2>5, <2>6, <2>7
  <2>9. PICK s \in S : x = MaxSessions - s
    BY <2>2
  <2>10. ASSUME NEW r \in S PROVE r <= s
    <3>1. ~ (MaxSessions - r < MaxSessions - s)
      BY <2>4, <2>8, <2>9
    <3> QED
      BY <2>1, <2>3, <3>1
  <2> QED
    BY <2>10
<1> QED
  BY <1>1 DEF NewestOf

\* A call is made: beside another it entangles the page.
LEMMA CallKinds ==
  ASSUME HistoryKinds, NEW verb \in {"list", "requests", "create", "delete"},
         NEW id \in {0} \cup SessionIds, CallApp(verb, id)
  PROVE  /\ askCount' \in 0 .. MaxAsks /\ entangled' \in BOOLEAN /\ asks' \subseteq Asking
         /\ entangled' <=> asks # {} \/ (pageOpen /\ entangled)
         /\ \E a \in Asking : asks' = asks \cup {a} /\ Asked(a, verb, id)
<1>1. PICK a : a = [nth |-> askCount', verb |-> verb, id |-> id,
                    list |-> DOMAIN sessions, of |-> selectedSession,
                    done |-> FALSE, got |-> {}, page |-> TRUE]
  OBVIOUS
<1>2. /\ askCount < MaxAsks /\ askCount' = askCount + 1 /\ asks' = asks \cup {a}
      /\ entangled' = (asks # {} \/ (pageOpen /\ entangled))
  BY <1>1 DEF CallApp
<1>3. askCount \in 0 .. MaxAsks /\ MaxAsks \in Nat
  BY HistoryAssumption DEF HistoryKinds
<1>4. askCount' \in 1 .. MaxAsks /\ askCount' \in 0 .. MaxAsks
  BY <1>2, <1>3
<1>5. DOMAIN sessions \in SUBSET SessionIds /\ selectedSession \in {0} \cup SessionIds
      /\ {} \in SUBSET SessionIds /\ asks \subseteq Asking
  BY DEF HistoryKinds
<1>6. a \in Asking
  BY <1>1, <1>4, <1>5 DEF Asking
<1> QED
  BY <1>1, <1>2, <1>4, <1>5, <1>6 DEF Asked

\* A call that is made when no other is under way promises what the page shows by then.
LEMMA CallMade ==
  ASSUME HistoryInv, NEW verb \in {"list", "requests", "create", "delete"},
         NEW id \in {0} \cup SessionIds, CallApp(verb, id),
         UNCHANGED <<table, born, sessions>>, pageOpen' = TRUE,
         selectedSession' \in {0} \cup SessionIds,
         \A a \in Asking : Asked(a, verb, id) /\ pageOpen /\ Listed => Promises(a)',
         \A a \in Asking : Asked(a, verb, id) /\ ~ pageOpen /\ selectedSession = 0 => Promises(a)'
  PROVE  HistoryInv'
<1>1. HistoryKinds /\ Patient /\ Away
  BY DEF HistoryInv
<1>2. /\ askCount' \in 0 .. MaxAsks /\ entangled' \in BOOLEAN /\ asks' \subseteq Asking
      /\ entangled' <=> asks # {} \/ (pageOpen /\ entangled)
      /\ \E a \in Asking : asks' = asks \cup {a} /\ Asked(a, verb, id)
  BY <1>1, CallKinds
<1>3. PICK a \in Asking : asks' = asks \cup {a} /\ Asked(a, verb, id)
  BY <1>2
<1>4. HistoryKinds'
  BY <1>1, <1>2 DEF HistoryKinds
<1>5. ASSUME ~ entangled' PROVE asks' = {a} /\ a \in asks' /\ Promises(a)'
  <2>1. asks = {} /\ asks' = {a}
    BY <1>2, <1>3, <1>5
  <2>2. CASE pageOpen
    <3>1. Listed
      BY <1>1, <1>2, <1>5, <2>1, <2>2 DEF Patient
    <3> QED
      BY <1>3, <2>1, <2>2, <3>1
  <2>3. CASE ~ pageOpen
    <3>1. selectedSession = 0
      BY <1>1, <2>3 DEF Away
    <3> QED
      BY <1>3, <2>1, <2>3, <3>1
  <2> QED
    BY <2>2, <2>3
<1>6. Patient'
  BY <1>3, <1>5 DEF Patient
<1>7. Away'
  BY DEF Away
<1> QED
  BY <1>4, <1>6, <1>7 DEF HistoryInv

LEMMA ClicksKeepHistory ==
  ASSUME HistoryInv,
         \/ OpenHistory \/ CreateSession
         \/ \E s \in SessionIds : SelectSession(s) \/ DeleteSession(s)
  PROVE  HistoryInv'
<1>1. selectedSession \in {0} \cup SessionIds /\ 0 \in {0} \cup SessionIds
      /\ SessionIds \subseteq {0} \cup SessionIds
  BY DEF HistoryInv, HistoryKinds
<1>2. ASSUME OpenHistory PROVE HistoryInv'
  <2>1. /\ ~ pageOpen /\ pageOpen' = TRUE /\ CallApp("list", 0)
        /\ UNCHANGED <<table, born, sessions, selectedSession>>
    BY <1>2 DEF OpenHistory
  <2>2. \A a \in Asking : Asked(a, "list", 0) /\ selectedSession = 0 => Promises(a)'
    BY <2>1 DEF Promises, Listed, Asked
  <2> QED
    BY <1>1, <2>1, <2>2, CallMade
<1>3. ASSUME CreateSession PROVE HistoryInv'
  <2>1. /\ pageOpen /\ pageOpen' = TRUE /\ CallApp("create", 0)
        /\ UNCHANGED <<table, born, sessions, selectedSession>>
    BY <1>3 DEF CreateSession
  <2>2. \A a \in Asking : Asked(a, "create", 0) /\ Listed => Promises(a)'
    BY <2>1 DEF Promises, Listed, Asked
  <2> QED
    BY <1>1, <2>1, <2>2, CallMade
<1>4. ASSUME NEW s \in SessionIds, SelectSession(s) PROVE HistoryInv'
  <2>1. /\ pageOpen /\ pageOpen' = TRUE /\ s \in DOMAIN sessions /\ selectedSession' = s
        /\ CallApp("requests", s) /\ UNCHANGED <<table, born, sessions>>
    BY <1>4 DEF SelectSession
  <2>2. \A a \in Asking : Asked(a, "requests", s) /\ Listed => Promises(a)'
    BY <2>1 DEF Promises, Listed, Asked
  <2> QED
    BY <1>1, <2>1, <2>2, CallMade
<1>5. ASSUME NEW s \in SessionIds, DeleteSession(s) PROVE HistoryInv'
  <2>1. /\ pageOpen /\ pageOpen' = TRUE /\ s \in DOMAIN sessions
        /\ CallApp("delete", s) /\ UNCHANGED <<table, born, sessions, selectedSession>>
    BY <1>5 DEF DeleteSession
  <2>2. \A a \in Asking : Asked(a, "delete", s) /\ Listed => Promises(a)'
    BY <2>1 DEF Promises, Listed, Asked
  <2> QED
    BY <1>1, <2>1, <2>2, CallMade
<1> QED
  BY <1>2, <1>3, <1>4, <1>5

LEMMA LeaveKeepsHistory ==
  ASSUME HistoryInv, LeaveHistory
  PROVE  HistoryInv'
<1>1. /\ pageOpen' = FALSE /\ sessions' = ListOf({}) /\ selectedSession' = 0
      /\ asks' = {[a EXCEPT !.page = FALSE] : a \in {b \in asks : b.verb \in {"create", "delete"} /\ ~ b.done}}
      /\ UNCHANGED <<table, born, askCount, entangled>>
  BY DEF LeaveHistory
<1>2. \A a \in Asking : [a EXCEPT !.page = FALSE] \in Asking /\ [a EXCEPT !.page = FALSE].page = FALSE
  BY DEF Asking
<1>3. asks \subseteq Asking
  BY DEF HistoryInv, HistoryKinds
<1>4. asks' \subseteq Asking /\ \A a \in asks' : ~ a.page
  BY <1>1, <1>2, <1>3
<1>5. DOMAIN sessions' = {}
  BY <1>1 DEF ListOf
<1>6. HistoryKinds'
  BY <1>1, <1>4, <1>5 DEF HistoryInv, HistoryKinds
<1> QED
  BY <1>1, <1>4, <1>6 DEF HistoryInv, Patient, Away

LEMMA EffectKeepsHistory ==
  ASSUME HistoryInv, NEW m \in asks, TakesEffect(m)
  PROVE  HistoryInv'
<1>1. HistoryKinds /\ Patient /\ Away
  BY DEF HistoryInv
<1>2. PICK d : d = [m EXCEPT !.done = TRUE, !.got = IF m.verb = "list" THEN table ELSE {}]
  OBVIOUS
<1>3. /\ ~ m.done
      /\ m.verb = "create" => born < MaxSessions
      /\ born' = (IF m.verb = "create" THEN born + 1 ELSE born)
      /\ table' = (CASE m.verb = "create" -> table \cup {born'}
                     [] m.verb = "delete" -> table \ {m.id}
                     [] OTHER             -> table)
      /\ asks' = (asks \ {m}) \cup (IF m.page THEN {d} ELSE {})
      /\ UNCHANGED <<pageOpen, sessions, selectedSession, askCount, entangled>>
  BY <1>2 DEF TakesEffect
<1>4. table \subseteq SessionIds /\ m \in Asking /\ born \in 0 .. MaxSessions /\ MaxSessions \in Nat
  BY <1>1, HistoryAssumption DEF HistoryKinds
<1>5. /\ d \in Asking /\ d.verb = m.verb /\ d.id = m.id /\ d.list = m.list /\ d.of = m.of
      /\ d.page = m.page /\ d.done = TRUE /\ (m.verb = "list" => d.got = table)
  BY <1>2, <1>4 DEF Asking
<1>6. born' \in 0 .. MaxSessions /\ (m.verb = "create" => born' \in SessionIds)
  BY <1>3, <1>4 DEF SessionIds
<1>7. table' \subseteq SessionIds
  BY <1>3, <1>4, <1>6
<1>8. asks' \subseteq Asking
  BY <1>1, <1>3, <1>5 DEF HistoryKinds
<1>9. HistoryKinds'
  BY <1>1, <1>3, <1>6, <1>7, <1>8 DEF HistoryKinds
<1>10. Away'
  BY <1>1, <1>3, <1>5 DEF Away
<1>11. ASSUME pageOpen, ~ entangled PROVE asks' = {d} /\ Promises(d)'
  <2>1. asks = {m} /\ Promises(m)
    BY <1>1, <1>11 DEF Patient
  <2>2. m.page
    BY <2>1 DEF Promises
  <2>3. m.verb \in {"list", "requests", "create", "delete"}
    BY <1>4 DEF Asking
  <2>4. Promises(d)'
    <3>1. CASE m.verb = "list"
      <4>1. table' = table
        BY <1>3, <3>1
      <4> QED
        BY <1>3, <1>5, <2>1, <2>2, <3>1, <4>1 DEF Promises
    <3>2. CASE m.verb = "requests"
      <4>1. table' = table /\ Listed
        BY <1>3, <2>1, <3>2 DEF Promises
      <4>2. Listed'
        BY <1>3, <4>1 DEF Listed
      <4> QED
        BY <1>5, <2>2, <3>2, <4>2 DEF Promises
    <3>3. CASE m.verb = "create"
      <4>1. table' = table \cup {born'} /\ m.of = selectedSession /\ selectedSession \in table \cup {0}
        BY <1>3, <2>1, <3>3 DEF Promises
      <4> QED
        BY <1>3, <1>5, <2>2, <3>3, <4>1 DEF Promises
    <3>4. CASE m.verb = "delete"
      <4>1. table' = table \ {m.id} /\ m.of = selectedSession /\ m.list = DOMAIN sessions /\ Listed
        BY <1>3, <2>1, <3>4 DEF Promises
      <4>2. m.list = table
        BY <4>1 DEF Listed
      <4>3. m.id \in m.list /\ selectedSession \in m.list
        BY <2>1, <3>4, <4>1, <4>2 DEF Promises, Listed
      <4> QED
        BY <1>3, <1>5, <2>2, <3>4, <4>1, <4>2, <4>3 DEF Promises
    <3> QED
      BY <2>3, <3>1, <3>2, <3>3, <3>4
  <2> QED
    BY <1>3, <2>1, <2>2, <2>4
<1>12. Patient'
  BY <1>3, <1>11 DEF Patient
<1> QED
  BY <1>9, <1>10, <1>12 DEF HistoryInv

LEMMA FailureKeepsHistory ==
  ASSUME HistoryInv, NEW m \in asks, AskFails(m)
  PROVE  HistoryInv'
<1>1. /\ asks' = asks \ {m} /\ entangled' = TRUE
      /\ UNCHANGED <<table, born, pageOpen, sessions, selectedSession, askCount>>
  BY DEF AskFails
<1>2. HistoryKinds'
  BY <1>1 DEF HistoryInv, HistoryKinds
<1> QED
  BY <1>1, <1>2 DEF HistoryInv, Patient, Away

\* The answer to the only call makes the page what the call promised.
LEMMA AnswerKeepsHistory ==
  ASSUME HistoryInv, NEW m \in asks, m.page, UNCHANGED <<table, born, pageOpen, askCount, entangled>>,
         asks' = asks \ {m},
         DOMAIN sessions' \subseteq SessionIds, \A s \in DOMAIN sessions' : sessions'[s] \in BOOLEAN,
         selectedSession' \in {0} \cup SessionIds,
         Promises(m) => Listed'
  PROVE  HistoryInv'
<1>1. HistoryKinds /\ Patient /\ Away
  BY DEF HistoryInv
<1>2. HistoryKinds'
  BY <1>1 DEF HistoryKinds
<1>3. pageOpen
  BY <1>1 DEF Away
<1>4. ASSUME ~ entangled PROVE asks' = {} /\ Listed'
  <2>1. asks = {m} /\ Promises(m)
    BY <1>1, <1>3, <1>4 DEF Patient
  <2> QED
    BY <2>1
<1>5. Patient'
  BY <1>4 DEF Patient
<1>6. Away'
  BY <1>3 DEF Away
<1> QED
  BY <1>2, <1>5, <1>6 DEF HistoryInv

LEMMA AnswersKeepHistory ==
  ASSUME HistoryInv, NEW m \in asks, ListCame(m) \/ RequestsLoaded(m) \/ DeletionCame(m)
  PROVE  HistoryInv'
<1>1. HistoryKinds
  BY DEF HistoryInv
<1>2. /\ DOMAIN sessions \subseteq SessionIds /\ \A s \in DOMAIN sessions : sessions[s] \in BOOLEAN
      /\ selectedSession \in {0} \cup SessionIds /\ m \in Asking
  BY <1>1 DEF HistoryKinds
<1>3. m.list \subseteq SessionIds /\ m.got \subseteq SessionIds
  BY <1>2 DEF Asking
<1>4. ASSUME ListCame(m) PROVE HistoryInv'
  <2>1. /\ m.page /\ m.done /\ m.verb = "list" /\ asks' = asks \ {m}
        /\ sessions' = ListOf(m.got)
        /\ selectedSession' = (IF m.of = 0 /\ m.got # {} THEN NewestOf(m.got) ELSE selectedSession)
        /\ UNCHANGED <<table, born, pageOpen, askCount, entangled>>
    BY <1>4 DEF ListCame, Comes
  <2>2. DOMAIN sessions' = m.got /\ \A s \in DOMAIN sessions' : sessions'[s] \in BOOLEAN
    BY <2>1 DEF ListOf
  <2>3. IF m.got = {} THEN NewestOf(m.got) = 0 ELSE NewestOf(m.got) \in m.got
    BY <1>3, NewestIs
  <2>4. selectedSession' \in {0} \cup SessionIds
    BY <1>2, <1>3, <2>1, <2>3
  <2>5. ASSUME Promises(m) PROVE Listed'
    <3>1. m.of = selectedSession /\ selectedSession \in table \cup {0} /\ m.got = table
      BY <2>1, <2>5 DEF Promises
    <3>2. 0 \notin SessionIds
      BY DEF SessionIds
    <3> QED
      BY <1>3, <2>1, <2>2, <2>3, <3>1, <3>2 DEF Listed
  <2> QED
    BY <1>3, <2>1, <2>2, <2>4, <2>5, AnswerKeepsHistory
<1>5. ASSUME RequestsLoaded(m) PROVE HistoryInv'
  <2>1. /\ m.page /\ m.verb = "requests" /\ asks' = asks \ {m}
        /\ sessions' = [s \in DOMAIN sessions |-> sessions[s] \/ s = m.id]
        /\ UNCHANGED <<table, born, pageOpen, selectedSession, askCount, entangled>>
    BY <1>5 DEF RequestsLoaded, Comes
  <2>2. DOMAIN sessions' = DOMAIN sessions /\ \A s \in DOMAIN sessions' : sessions'[s] \in BOOLEAN
    BY <1>2, <2>1
  <2>3. ASSUME Promises(m) PROVE Listed'
    BY <2>1, <2>2, <2>3 DEF Promises, Listed
  <2> QED
    BY <1>2, <2>1, <2>2, <2>3, AnswerKeepsHistory
<1>6. ASSUME DeletionCame(m) PROVE HistoryInv'
  <2>1. PICK next : next = m.list \ {m.id}
    OBVIOUS
  <2>2. /\ m.page /\ m.done /\ m.verb = "delete" /\ asks' = asks \ {m}
        /\ sessions' = [s \in next |-> s \in DOMAIN sessions /\ sessions[s]]
        /\ selectedSession' = (IF m.of = m.id THEN NewestOf(next) ELSE selectedSession)
        /\ UNCHANGED <<table, born, pageOpen, askCount, entangled>>
    BY <1>6, <2>1 DEF DeletionCame, Comes
  <2>3. next \subseteq SessionIds
    BY <1>3, <2>1
  <2>4. DOMAIN sessions' = next /\ \A s \in DOMAIN sessions' : sessions'[s] \in BOOLEAN
    BY <1>2, <2>2
  <2>5. IF next = {} THEN NewestOf(next) = 0 ELSE NewestOf(next) \in next
    BY <2>3, NewestIs
  <2>6. selectedSession' \in {0} \cup SessionIds
    BY <1>2, <2>2, <2>3, <2>5
  <2>7. ASSUME Promises(m) PROVE Listed'
    <3>1. table = next /\ m.of = selectedSession /\ selectedSession \in m.list
      BY <2>1, <2>2, <2>7 DEF Promises
    <3> QED
      BY <2>1, <2>2, <2>4, <2>5, <3>1 DEF Listed
  <2> QED
    BY <2>2, <2>3, <2>4, <2>6, <2>7, AnswerKeepsHistory
<1> QED
  BY <1>4, <1>5, <1>6

LEMMA CreatedKeepsHistory ==
  ASSUME HistoryInv, NEW m \in asks, Created(m)
  PROVE  HistoryInv'
<1>1. HistoryKinds /\ Patient /\ Away
  BY DEF HistoryInv
<1>2. PICK d : d = [m EXCEPT !.verb = "list", !.done = FALSE]
  OBVIOUS
<1>3. /\ m.page /\ m.verb = "create" /\ asks' = (asks \ {m}) \cup {d}
      /\ UNCHANGED <<table, born, pageOpen, sessions, selectedSession, askCount, entangled>>
  BY <1>2 DEF Created, Comes
<1>4. m \in Asking
  BY <1>1 DEF HistoryKinds
<1>5. d \in Asking /\ d.verb = "list" /\ ~ d.done /\ d.of = m.of /\ d.page = m.page
  BY <1>2, <1>4 DEF Asking
<1>6. pageOpen
  BY <1>1, <1>3 DEF Away
<1>7. HistoryKinds'
  BY <1>1, <1>3, <1>5 DEF HistoryKinds
<1>8. ASSUME ~ entangled PROVE asks' = {d} /\ Promises(d)'
  <2>1. asks = {m} /\ Promises(m)
    BY <1>1, <1>6, <1>8 DEF Patient
  <2>2. m.of = selectedSession /\ selectedSession \in table \cup {0}
    BY <1>3, <2>1 DEF Promises
  <2> QED
    BY <1>3, <1>5, <2>1, <2>2 DEF Promises
<1>9. Patient'
  BY <1>3, <1>8 DEF Patient
<1>10. Away'
  BY <1>3, <1>6 DEF Away
<1> QED
  BY <1>7, <1>9, <1>10 DEF HistoryInv

LEMMA HistoryInitInv == HistoryInit => HistoryInv
<1> SUFFICES ASSUME HistoryInit PROVE HistoryInv
  OBVIOUS
<1>1. /\ table = Recorded /\ born = NewestOf(Recorded)
      /\ pageOpen = FALSE /\ sessions = ListOf({}) /\ selectedSession = 0
      /\ asks = {} /\ askCount = 0 /\ entangled = FALSE
  BY DEF HistoryInit
<1>2. Recorded \subseteq SessionIds /\ MaxAsks \in Nat /\ MaxSessions \in Nat
  BY HistoryAssumption DEF SessionIds
<1>3. IF Recorded = {} THEN NewestOf(Recorded) = 0 ELSE NewestOf(Recorded) \in Recorded
  BY <1>2, NewestIs
<1>4. \A k \in SessionIds \cup {0} : k \in 0 .. MaxSessions
  BY <1>2 DEF SessionIds
<1>5. born \in 0 .. MaxSessions
  BY <1>1, <1>2, <1>3, <1>4
<1>6. DOMAIN sessions = {}
  BY <1>1 DEF ListOf
<1>7. 0 \in 0 .. MaxAsks
  BY <1>2
<1>8. HistoryKinds
  BY <1>1, <1>2, <1>5, <1>6, <1>7 DEF HistoryKinds
<1> QED
  BY <1>1, <1>8 DEF HistoryInv, Patient, Away

LEMMA HistoryInvariance == HistoryInv /\ [HistoryNext]_historyVars => HistoryInv'
<1> SUFFICES ASSUME HistoryInv, [HistoryNext]_historyVars PROVE HistoryInv'
  OBVIOUS
<1>1. CASE OpenHistory
  BY <1>1, ClicksKeepHistory
<1>2. CASE LeaveHistory
  BY <1>2, LeaveKeepsHistory
<1>3. CASE CreateSession
  BY <1>3, ClicksKeepHistory
<1>4. CASE \E s \in SessionIds : SelectSession(s) \/ DeleteSession(s)
  BY <1>4, ClicksKeepHistory
<1>5. ASSUME NEW m \in asks, TakesEffect(m) PROVE HistoryInv'
  BY <1>5, EffectKeepsHistory
<1>6. ASSUME NEW m \in asks, AskFails(m) PROVE HistoryInv'
  BY <1>6, FailureKeepsHistory
<1>7. ASSUME NEW m \in asks, ListCame(m) \/ RequestsLoaded(m) \/ DeletionCame(m) PROVE HistoryInv'
  BY <1>7, AnswersKeepHistory
<1>8. ASSUME NEW m \in asks, Created(m) PROVE HistoryInv'
  BY <1>8, CreatedKeepsHistory
<1>9. CASE UNCHANGED historyVars
  BY <1>9 DEF historyVars, HistoryInv, HistoryKinds, Patient, Away, Promises, Listed
<1> QED
  BY Zenon, <1>1, <1>2, <1>3, <1>4, <1>5, <1>6, <1>7, <1>8, <1>9 DEF HistoryNext

\* For every number of sessions and of calls, answered or failed in any order: the page of
\* a user who waits for every answer lists the sessions of the database when it rests, and
\* selects one of them (fetchSessions, handleDeleteSession).
THEOREM HistoryListsTheTable == HistorySpec => [](HistoryTypeOK /\ HistoryIsTrue)
<1>1. HistoryInit => HistoryInv
  BY HistoryInitInv
<1>2. HistoryInv /\ [HistoryNext]_historyVars => HistoryInv'
  BY HistoryInvariance
<1>3. HistoryInv => HistoryTypeOK /\ HistoryIsTrue
  BY HistoryTypes
<1> QED
  BY <1>1, <1>2, <1>3, PTL DEF HistorySpec

-----------------------------------------------------------------------------
(* Export and import                                                       *)

\* The exchanges there can be: an import has no host that was not captured.
Ours  == {r \in Shape : r.host \in Hosts}
OurLists == {S \in Seq(Ours) : Len(S) <= MaxTraffic}
\* A file is what was written of a list.
WrittenFiles == {[format |-> f, content |-> Written(f, S), of |-> S] : f \in Formats, S \in OurLists}
TransferInv ==
    /\ traffic \in OurLists
    /\ files \in Seq(WrittenFiles) /\ Len(files) <= MaxFiles
    /\ reading \subseteq {n \in DOMAIN files : Readable(files[n])}
    /\ dialogOpen \in BOOLEAN /\ scope \in Scopes
    /\ selectedDomains \subseteq Hosts

\* One exchange, written and read.
Back(format, r) == IF format = "har" THEN FromHar(HarEntry(r)) ELSE FromJson(JsonItem(r))

LEMMA MendedIs == \A n \in Nat : Mended(n) \in Nat /\ Mended(0) = 0
BY DEF Mended

\* What comes back of one exchange.
LEMMA BackIs ==
  ASSUME NEW r \in Shape, NEW format \in {"har", "json"}
  PROVE  LET is == Back(format, r) IN
         /\ is \in Shape /\ is.host = r.host /\ is.known = FALSE /\ is.body \in {"text", "mangled"}
         /\ ~ Pending(r) => is.status = r.status
         /\ r.commas = 0 => is.commas = 0
         /\ r.body = "text" => is.body = "text"
         /\ format = "har"  => /\ r.body = "binary" => is.body = "text"
                               /\ is.own = FALSE /\ is.many = FALSE /\ is.status # 0
         /\ format = "json" => is.own = r.own /\ is.many = r.many /\ is.status = r.status
<1>1. Mended(r.commas) \in Nat /\ Mended(0) = 0 /\ r.commas \in Nat
  BY MendedIs DEF Shape
<1>2. CASE format = "har"
  <2>1. PICK m \in Nat : m = (IF r.body = "binary" THEN r.commas ELSE Mended(r.commas)) /\ (r.commas = 0 => m = 0)
    BY <1>1
  <2>2. PICK n \in Nat : n = IF r.status = 0 THEN 200 ELSE r.status
    BY DEF Shape
  <2>3. PICK b \in {"text", "mangled"} : b = IF r.body = "mangled" THEN "mangled" ELSE "text"
    OBVIOUS
  <2>4. Back(format, r) = [host |-> r.host, own |-> FALSE, many |-> FALSE, known |-> FALSE,
                           commas |-> m, status |-> n, body |-> b]
    BY <1>2, <2>1, <2>2, <2>3 DEF Back, FromHar, HarEntry
  <2>5. PICK is : is = Back(format, r)
    OBVIOUS
  <2>6. is \in Shape /\ is.known = FALSE /\ is.commas = m /\ is.body = b
        /\ is.host = r.host /\ is.own = FALSE /\ is.many = FALSE /\ is.status = n
    BY <2>4, <2>5 DEF Shape
  <2>7. n # 0 /\ (~ Pending(r) => n = r.status)
    BY <2>2 DEF Pending
  <2> QED
    BY <1>2, <2>1, <2>3, <2>5, <2>6, <2>7
<1>3. CASE format = "json"
  <2>1. PICK m \in Nat : m = Mended(r.commas) /\ (r.commas = 0 => m = 0)
    BY <1>1
  <2>2. PICK b \in {"text", "mangled"} : b = IF r.body = "binary" THEN "mangled" ELSE r.body
    BY DEF Shape
  <2>3. Back(format, r) = [r EXCEPT !.known = FALSE, !.commas = m, !.body = b]
    BY <1>3, <2>1, <2>2 DEF Back, FromJson, JsonItem
  <2>4. PICK is : is = Back(format, r)
    OBVIOUS
  <2>5. is \in Shape /\ is.known = FALSE /\ is.commas = m /\ is.body = b
        /\ is.host = r.host /\ is.own = r.own /\ is.many = r.many /\ is.status = r.status
    BY <2>3, <2>4 DEF Shape
  <2> QED
    BY <1>3, <2>1, <2>2, <2>4, <2>5
<1> QED
  BY <1>2, <1>3

\* What came back without a comma to lose comes back the same again.
LEMMA BackAgain ==
  ASSUME NEW r \in Shape, NEW format \in {"har", "json"}, Back(format, r).commas = 0
  PROVE  Back(format, Back(format, r)) = Back(format, r)
<1>1. PICK is : is = Back(format, r)
  OBVIOUS
<1>2. /\ is \in Shape /\ is.known = FALSE /\ is.body \in {"text", "mangled"} /\ is.commas = 0
      /\ (format = "har" => is.own = FALSE /\ is.many = FALSE /\ is.status # 0)
  BY <1>1, BackIs
<1>3. CASE format = "har"
  <2>1. Back(format, is) =
          [host |-> is.host, own |-> FALSE, many |-> FALSE, known |-> FALSE,
           commas |-> 0, status |-> is.status, body |-> is.body]
    BY <1>2, <1>3, MendedIs DEF Back, FromHar, HarEntry
  <2>2. is = [host |-> is.host, own |-> FALSE, many |-> FALSE, known |-> FALSE,
              commas |-> 0, status |-> is.status, body |-> is.body]
    BY <1>2, <1>3 DEF Shape
  <2> QED
    BY <1>1, <2>1, <2>2
<1>4. CASE format = "json"
  <2>1. Back(format, is) = [is EXCEPT !.known = FALSE, !.commas = 0, !.body = is.body]
    BY <1>2, <1>4, MendedIs DEF Back, FromJson, JsonItem
  <2>2. is = [is EXCEPT !.known = FALSE, !.commas = 0, !.body = is.body]
    BY <1>2 DEF Shape
  <2> QED
    BY <1>1, <2>1, <2>2
<1> QED
  BY <1>3, <1>4

\* A whole list, written and read.
LEMMA ListBack ==
  ASSUME NEW S \in OurLists, NEW format \in {"har", "json"}
  PROVE  /\ Parse(format, Written(format, S)) = [i \in DOMAIN S |-> Back(format, S[i])]
         /\ Parse(format, Written(format, S)) \in OurLists
         /\ Len(Parse(format, Written(format, S))) = Len(S)
<1>1. S \in Seq(Ours) /\ Len(S) <= MaxTraffic /\ DOMAIN S = 1 .. Len(S) /\ Len(S) \in Nat
  BY DEF OurLists
<1>2. PICK w : w = Written(format, S)
  OBVIOUS
<1>3. w = [i \in DOMAIN S |-> IF format = "har" THEN HarEntry(S[i]) ELSE JsonItem(S[i])]
  BY <1>2 DEF Written
<1>4. DOMAIN w = DOMAIN S /\ \A i \in DOMAIN S : w[i] = IF format = "har" THEN HarEntry(S[i]) ELSE JsonItem(S[i])
  BY <1>3
<1>5. PICK p : p = Parse(format, w)
  OBVIOUS
<1>6. p = [i \in DOMAIN w |-> IF format = "har" THEN FromHar(w[i]) ELSE FromJson(w[i])]
  BY <1>5 DEF Parse
<1>7. p = [i \in DOMAIN S |-> Back(format, S[i])]
  BY <1>4, <1>6 DEF Back
<1>8. \A i \in DOMAIN S : Back(format, S[i]) \in Ours
  <2>1. TAKE i \in DOMAIN S
  <2>2. S[i] \in Shape /\ S[i].host \in Hosts
    BY <1>1 DEF Ours
  <2>3. Back(format, S[i]) \in Shape /\ Back(format, S[i]).host = S[i].host
    BY <2>2, BackIs
  <2> QED
    BY <2>2, <2>3 DEF Ours
<1>9. p \in Seq(Ours) /\ Len(p) = Len(S)
  BY <1>1, <1>7, <1>8
<1> QED
  BY <1>1, <1>2, <1>5, <1>7, <1>9 DEF OurLists

\* A file that was written keeps what the window promises of it.
LEMMA FileComesBack ==
  ASSUME NEW f \in WrittenFiles, Readable(f)
  PROVE  LET back == Parse(f.format, f.content) IN
         /\ back \in OurLists /\ Len(back) = Len(f.of)
         /\ \A i \in DOMAIN back :
              LET was == f.of[i]  is == back[i] IN
              /\ is.host = was.host
              /\ ~ Pending(was) => is.status = was.status
              /\ was.commas = 0 => is.commas = 0
              /\ was.body = "text" => is.body = "text"
              /\ f.format = "har"  => (was.body = "binary" => is.body = "text")
              /\ f.format = "json" => is.own = was.own /\ is.many = was.many
                                      /\ is.status = was.status
         /\ (\A i \in DOMAIN back : back[i].commas = 0) =>
                Parse(f.format, Written(f.format, back)) = back
<1>1. PICK S \in OurLists : f.of = S /\ f.content = Written(f.format, S)
  BY DEF WrittenFiles
<1>2. PICK format \in {"har", "json"} : format = f.format
  BY DEF Readable
<1>3. PICK back : back = Parse(format, Written(format, S))
  OBVIOUS
<1>4. /\ back = [i \in DOMAIN S |-> Back(format, S[i])]
      /\ back \in OurLists /\ Len(back) = Len(S)
  BY <1>3, ListBack
<1>5. \A i \in DOMAIN S : S[i] \in Shape
  BY DEF OurLists, Ours
<1>6. \A i \in DOMAIN S :
              LET was == S[i]  is == Back(format, S[i]) IN
              /\ is.host = was.host
              /\ ~ Pending(was) => is.status = was.status
              /\ was.commas = 0 => is.commas = 0
              /\ was.body = "text" => is.body = "text"
              /\ format = "har"  => (was.body = "binary" => is.body = "text")
              /\ format = "json" => is.own = was.own /\ is.many = was.many
                                      /\ is.status = was.status
  BY <1>5, BackIs
<1>7. ASSUME \A i \in DOMAIN back : back[i].commas = 0
      PROVE  Parse(format, Written(format, back)) = back
  <2>1. Parse(format, Written(format, back)) = [i \in DOMAIN back |-> Back(format, back[i])]
    BY <1>4, ListBack
  <2>2. \A i \in DOMAIN S : Back(format, Back(format, S[i])) = Back(format, S[i])
    <3>1. TAKE i \in DOMAIN S
    <3>2. Back(format, S[i]).commas = 0
      BY <1>4, <1>7
    <3> QED
      BY <1>5, <3>2, BackAgain
  <2> QED
    BY <1>4, <2>1, <2>2
<1> QED
  BY <1>1, <1>2, <1>3, <1>4, <1>6, <1>7

LEMMA TransferTypes == TransferInv => TransferTypeOK /\ TransferIsTrue
<1> SUFFICES ASSUME TransferInv PROVE TransferTypeOK /\ TransferIsTrue
  OBVIOUS
<1>1. \A S \in OurLists : S \in Seq(Shape) /\ Len(S) <= MaxTraffic
  BY DEF OurLists, Ours
<1>2. \A n \in DOMAIN files :
          /\ files[n].format \in Formats /\ files[n].of \in Seq(Shape)
          /\ DOMAIN files[n].content = DOMAIN files[n].of
  <2>1. \A n \in DOMAIN files : files[n] \in WrittenFiles
    BY DEF TransferInv
  <2>2. \A format, S : DOMAIN Written(format, S) = DOMAIN S
    BY DEF Written
  <2> QED
    BY <1>1, <2>1, <2>2 DEF WrittenFiles
<1>3. Len(files) <= MaxFiles
  BY TransferAssumption DEF TransferInv
<1>4. TransferTypeOK
  BY <1>1, <1>2, <1>3 DEF TransferInv, TransferTypeOK
<1>5. ComesBack
  <2>1. \A n \in DOMAIN files : files[n] \in WrittenFiles
    BY DEF TransferInv
  <2> QED
    BY <2>1, FileComesBack DEF ComesBack
<1>6. SettledByOneTrip
  <2>1. \A n \in DOMAIN files : files[n] \in WrittenFiles
    BY DEF TransferInv
  <2> QED
    BY <2>1, FileComesBack DEF SettledByOneTrip
<1> QED
  BY <1>4, <1>5, <1>6 DEF TransferIsTrue

\* A list that is written becomes one file more.
LEMMA WritingKeeps ==
  ASSUME TransferInv, NEW format \in Formats, NEW S \in OurLists, WriteFile(format, S)
  PROVE  files' \in Seq(WrittenFiles) /\ Len(files') <= MaxFiles /\ \A n \in DOMAIN files : n \in DOMAIN files' /\ files'[n] = files[n]
<1>1. PICK f : f = [format |-> format, content |-> Written(format, S), of |-> S]
  OBVIOUS
<1>2. Len(files) < MaxFiles /\ files' = Append(files, f)
  BY <1>1 DEF WriteFile
<1>3. f \in WrittenFiles
  BY <1>1 DEF WrittenFiles
<1>4. files \in Seq(WrittenFiles) /\ MaxFiles \in Nat
  BY TransferAssumption DEF TransferInv
<1> QED
  BY <1>2, <1>3, <1>4

\* The dialog chooses some of the list.
LEMMA ChosenIsAList ==
  ASSUME traffic \in OurLists
  PROVE  Chosen \in OurLists
<1>1. PICK K : K = {i \in DOMAIN traffic : scope = "all" \/ traffic[i].host \in selectedDomains}
  OBVIOUS
<1>2. K \in SUBSET DOMAIN traffic /\ traffic \in Seq(Ours) /\ Len(traffic) <= MaxTraffic
  BY <1>1 DEF OurLists
<1>3. Cardinality(K) \in Nat /\ Cardinality(K) <= Len(traffic)
  BY <1>2, PositionsFinite
<1>4. Subsequence(traffic, K) \in Seq(Ours) /\ Len(Subsequence(traffic, K)) = Cardinality(K)
  BY <1>2, SubsequenceKeeps
<1>5. MaxTraffic \in Nat /\ Len(traffic) \in Nat
  BY <1>2, TransferAssumption
<1>6. Len(Subsequence(traffic, K)) <= MaxTraffic
  BY <1>2, <1>3, <1>4, <1>5
<1> QED
  BY <1>1, <1>4, <1>6 DEF Chosen, OurLists

LEMMA TransferInitInv == TransferInit => TransferInv
<1> SUFFICES ASSUME TransferInit PROVE TransferInv
  OBVIOUS
<1>1. MaxTraffic \in Nat /\ MaxFiles \in Nat
  BY TransferAssumption
<1>2. <<>> \in OurLists
  BY <1>1 DEF OurLists
<1>3. <<>> \in Seq(WrittenFiles) /\ Len(<<>>) <= MaxFiles
  BY <1>1
<1> QED
  BY <1>2, <1>3 DEF TransferInit, TransferInv, Scopes

\* The traffic comes and goes; what was written stays.
LEMMA TrafficKeepsTransfer ==
  ASSUME TransferInv, (\E s \in Shapes : CaptureOne(s)) \/ ClearTraffic
  PROVE  TransferInv'
<1>1. UNCHANGED <<files, reading, dialogOpen, scope, selectedDomains>>
  BY Zenon DEF CaptureOne, ClearTraffic, dialogVars
<1>2. traffic' \in OurLists
  <2>1. ASSUME NEW s \in Shapes, CaptureOne(s) PROVE traffic' \in OurLists
    <3>1. s \in Ours
      BY TransferAssumption DEF Ours, Hosts
    <3>2. traffic \in Seq(Ours) /\ Len(traffic) < MaxTraffic /\ traffic' = <<s>> \o traffic
      BY <2>1 DEF CaptureOne, TransferInv, OurLists
    <3>3. <<s>> \in Seq(Ours) /\ Len(<<s>>) = 1 /\ MaxTraffic \in Nat /\ Len(traffic) \in Nat
      BY <3>1, <3>2, TransferAssumption
    <3>4. traffic' \in Seq(Ours) /\ Len(traffic') = 1 + Len(traffic)
      BY <3>2, <3>3
    <3> QED
      BY <3>2, <3>3, <3>4 DEF OurLists
  <2>2. ASSUME ClearTraffic PROVE traffic' \in OurLists
    <3>1. MaxTraffic \in Nat /\ traffic' = <<>>
      BY <2>2, TransferAssumption DEF ClearTraffic
    <3> QED
      BY <3>1 DEF OurLists
  <2> QED
    BY <2>1, <2>2
<1> QED
  BY <1>1, <1>2 DEF TransferInv

LEMMA DialogKeepsTransfer ==
  ASSUME TransferInv,
         \/ OpenExport \/ CloseExport
         \/ \E sc \in Scopes : SetScope(sc)
         \/ \E d \in Hosts : ToggleBox(d)
         \/ \E all \in BOOLEAN : SetAllBoxes(all)
  PROVE  TransferInv'
<1>1. UNCHANGED <<traffic, files, reading>>
  BY Zenon DEF OpenExport, CloseExport, SetScope, ToggleBox, SetAllBoxes
<1>2. /\ dialogOpen \in BOOLEAN /\ scope \in Scopes /\ selectedDomains \subseteq Hosts
      /\ traffic \in OurLists
  BY DEF TransferInv
<1>3. Available \subseteq Hosts
  <2>1. \A i \in DOMAIN traffic : traffic[i] \in Ours
    BY <1>2 DEF OurLists
  <2> QED
    BY <2>1 DEF Available, Ours
<1>4. dialogOpen' \in BOOLEAN /\ scope' \in Scopes /\ selectedDomains' \subseteq Hosts
  BY <1>2, <1>3 DEF OpenExport, CloseExport, SetScope, ToggleBox, SetAllBoxes, Scopes
<1> QED
  BY <1>1, <1>4 DEF TransferInv

LEMMA ExportKeepsTransfer ==
  ASSUME TransferInv, NEW f \in Formats, QuickExport(f) \/ ExportChosen(f)
  PROVE  TransferInv'
<1>1. traffic \in OurLists /\ reading \subseteq {n \in DOMAIN files : Readable(files[n])}
  BY DEF TransferInv
<1>2. Chosen \in OurLists
  BY <1>1, ChosenIsAList
<1>3. UNCHANGED <<traffic, reading, scope, selectedDomains>> /\ dialogOpen' \in {dialogOpen, FALSE}
  BY DEF QuickExport, ExportChosen, dialogVars
<1>4. WriteFile(f, traffic) \/ WriteFile(f, Chosen) \/ UNCHANGED files
  BY DEF QuickExport, ExportChosen
<1>5. files' \in Seq(WrittenFiles) /\ Len(files') <= MaxFiles /\ \A n \in DOMAIN files : n \in DOMAIN files' /\ files'[n] = files[n]
  <2>1. ASSUME UNCHANGED files
        PROVE  files' \in Seq(WrittenFiles) /\ Len(files') <= MaxFiles /\ \A n \in DOMAIN files : n \in DOMAIN files' /\ files'[n] = files[n]
    BY <2>1 DEF TransferInv
  <2> QED
    BY <1>1, <1>2, <1>4, <2>1, WritingKeeps
<1> QED
  BY <1>1, <1>3, <1>5 DEF TransferInv

LEMMA ImportKeepsTransfer ==
  ASSUME TransferInv, NEW n \in DOMAIN files, PickFile(n) \/ FileRead(n) \/ FileFails(n)
  PROVE  TransferInv'
<1>1. UNCHANGED <<files, dialogOpen, scope, selectedDomains>>
  BY Zenon DEF PickFile, FileRead, FileFails, dialogVars
<1>2. reading' \subseteq {k \in DOMAIN files : Readable(files[k])}
  BY DEF PickFile, FileRead, FileFails, TransferInv
<1>3. traffic' \in OurLists
  <2>1. ASSUME FileRead(n) PROVE traffic' \in OurLists
    <3>1. n \in reading /\ traffic' = Parse(files[n].format, files[n].content)
      BY <2>1 DEF FileRead
    <3>2. Readable(files[n])
      BY <3>1 DEF TransferInv
    <3>3. files[n] \in WrittenFiles
      BY DEF TransferInv
    <3> QED
      BY <3>2, <3>1, <3>3, FileComesBack
  <2>2. ASSUME PickFile(n) \/ FileFails(n) PROVE traffic' \in OurLists
    BY <2>2 DEF PickFile, FileFails, TransferInv
  <2> QED
    BY <2>1, <2>2
<1> QED
  BY <1>1, <1>2, <1>3 DEF TransferInv

LEMMA TransferInvariance == TransferInv /\ [TransferNext]_transferVars => TransferInv'
<1> SUFFICES ASSUME TransferInv, [TransferNext]_transferVars PROVE TransferInv'
  OBVIOUS
<1>1. CASE (\E s \in Shapes : CaptureOne(s)) \/ ClearTraffic
  BY <1>1, TrafficKeepsTransfer
<1>2. CASE \/ OpenExport \/ CloseExport
           \/ \E sc \in Scopes : SetScope(sc)
           \/ \E d \in Hosts : ToggleBox(d)
           \/ \E all \in BOOLEAN : SetAllBoxes(all)
  BY <1>2, DialogKeepsTransfer
<1>3. ASSUME NEW f \in Formats, QuickExport(f) \/ ExportChosen(f) PROVE TransferInv'
  BY <1>3, ExportKeepsTransfer
<1>4. ASSUME NEW n \in DOMAIN files, PickFile(n) \/ FileRead(n) \/ FileFails(n) PROVE TransferInv'
  BY <1>4, ImportKeepsTransfer
<1>5. CASE UNCHANGED transferVars
  BY <1>5 DEF transferVars, dialogVars, TransferInv
<1> QED
  BY Zenon, <1>1, <1>2, <1>3, <1>4, <1>5 DEF TransferNext

\* For every set of exchanges, of any length: what was exported as HAR or JSON comes back
\* as every exchange in its order, with its status and body but for what the format has no
\* place for, and a second trip changes nothing more (exportHelper.ts).
THEOREM ExportsComeBack == TransferSpec => [](TransferTypeOK /\ TransferIsTrue)
<1>1. TransferInit => TransferInv
  BY TransferInitInv
<1>2. TransferInv /\ [TransferNext]_transferVars => TransferInv'
  BY TransferInvariance
<1>3. TransferInv => TransferTypeOK /\ TransferIsTrue
  BY TransferTypes
<1> QED
  BY <1>1, <1>2, <1>3, PTL DEF TransferSpec

-----------------------------------------------------------------------------
(* The panel of the selected exchange                                      *)

\* What a run has done already, and what it still will do, is what the panel shows.
Foreseen(r) ==
    /\ r.isMounted /\ r.of = panelRequest /\ r.bodies = Sides \ spoiled /\ r.side \in r.bodies
    /\ r.side = "response" /\ "request" \in r.bodies => messages["request"] = panelRequest

\* One run at most belongs to the tab as it is drawn: the one it is loading from.
OneRun == \A r, q \in decodings : r.isMounted /\ q.isMounted => r = q
NoRun  == \A r \in decodings : ~ r.isMounted
Decoding ==
    IF GrpcMounted(panelRequest, activeTab)
      THEN IF grpcLoading THEN \E r \in decodings : Foreseen(r)
                          ELSE NoRun /\ \A s \in Sides \ spoiled : messages[s] = panelRequest
      ELSE NoRun /\ grpcLoading
InspectorInv == InspectorTypeOK /\ OneRun /\ Decoding

Decodings == [nth : 1 .. MaxEffects, of : CallIds, bodies : SUBSET Sides, side : Sides, isMounted : BOOLEAN]

LEMMA DroppedKinds ==
  ASSUME InspectorTypeOK
  PROVE  Dropped \subseteq Decodings /\ \A r \in Dropped : ~ r.isMounted
<1>1. decodings \subseteq Decodings
  BY DEF InspectorTypeOK, Decodings
<1>2. \A r \in Decodings : [r EXCEPT !.isMounted = FALSE] \in Decodings
                           /\ [r EXCEPT !.isMounted = FALSE].isMounted = FALSE
  BY DEF Decodings
<1> QED
  BY <1>1, <1>2 DEF Dropped

\* The effect starts the only mounted run there is, or has nothing to decode.
LEMMA EffectStarts ==
  ASSUME InspectorTypeOK, NEW c \in CallIds, NEW known, DecodeEffect(c, known)
  PROVE  /\ effects' \in 0 .. MaxEffects /\ grpcLoading' \in BOOLEAN /\ spoiled' \subseteq Sides
         /\ decodings' \subseteq Decodings /\ OneRun'
         /\ IF grpcLoading'
              THEN \E r \in decodings' : /\ r.isMounted /\ r.of = c /\ r.bodies = Sides \ spoiled'
                                         /\ r.side \in r.bodies
                                         /\ r.side = "response" => "request" \notin r.bodies
              ELSE NoRun' /\ Sides \subseteq spoiled'
<1>1. PICK B : B = Bodies(c, known)
  OBVIOUS
<1>2. PICK next : next = IF "request" \in B THEN "request" ELSE "response"
  OBVIOUS
<1>3. PICK r : r = [nth |-> effects', of |-> c, bodies |-> B, side |-> next, isMounted |-> TRUE]
  OBVIOUS
<1>4. /\ effects < MaxEffects /\ effects' = effects + 1 /\ grpcLoading' = (B # {})
      /\ decodings' = Dropped \cup (IF B = {} THEN {} ELSE {r})
      /\ spoiled' = Sides \ B
  BY <1>1, <1>2, <1>3 DEF DecodeEffect
<1>5. effects \in 0 .. MaxEffects /\ MaxEffects \in Nat
  BY InspectorAssumption DEF InspectorTypeOK
<1>6. effects' \in 0 .. MaxEffects /\ effects' \in 1 .. MaxEffects
  BY <1>4, <1>5
<1>7. B \subseteq Sides
  BY <1>1 DEF Bodies
<1>8. B # {} => next \in B
  BY <1>2, <1>7 DEF Sides
<1>9. next \in Sides /\ (next = "response" => "request" \notin B)
  BY <1>2 DEF Sides
<1>10. /\ r \in Decodings /\ r.isMounted /\ r.of = c /\ r.bodies = B /\ r.side = next
  BY <1>3, <1>6, <1>7, <1>9 DEF Decodings
<1>11. Dropped \subseteq Decodings /\ \A q \in Dropped : ~ q.isMounted
  BY DroppedKinds
<1>12. decodings' \subseteq Decodings /\ OneRun'
  BY <1>4, <1>10, <1>11 DEF OneRun
<1>13. B = Sides \ spoiled'
  BY <1>4, <1>7
<1> QED
  BY <1>4, <1>6, <1>7, <1>8, <1>9, <1>10, <1>11, <1>12, <1>13 DEF NoRun

LEMMA FramesKept ==
  ASSUME InspectorTypeOK
  PROVE  {[s EXCEPT !.isMounted = FALSE] : s \in linesSent} \subseteq [nth : 1 .. MaxLinesSent, isMounted : BOOLEAN]
<1>1. \A s \in [nth : 1 .. MaxLinesSent, isMounted : BOOLEAN] :
          [s EXCEPT !.isMounted = FALSE] \in [nth : 1 .. MaxLinesSent, isMounted : BOOLEAN]
  OBVIOUS
<1> QED
  BY <1>1 DEF InspectorTypeOK

\* However the panel is drawn next, the tab it shows has its run, or needs none.
LEMMA RedrawKeepsInspector ==
  ASSUME InspectorInv, NEW c \in {0} \cup CallIds, NEW tab \in Tabs, NEW anew \in BOOLEAN, NEW known,
         Redraw(c, tab, anew, known), anew \/ c = panelRequest, responded' \subseteq CallIds
  PROVE  InspectorInv'
<1>1. InspectorTypeOK /\ OneRun /\ Decoding
  BY DEF InspectorInv
<1>2. /\ responded \subseteq CallIds /\ panelRequest \in {0} \cup CallIds
      /\ activeTab \in Tabs /\ grpcLoading \in BOOLEAN
      /\ messages \in [Sides -> {0} \cup CallIds]
      /\ decodings \subseteq Decodings
      /\ effects \in 0 .. MaxEffects /\ spoiled \subseteq Sides
      /\ messageInput \in 0 .. MaxLines /\ lines \in 0 .. MaxLines
      /\ linesSent \subseteq [nth : 1 .. MaxLinesSent, isMounted : BOOLEAN]
      /\ sendCount \in 0 .. MaxLinesSent
  BY <1>1 DEF InspectorTypeOK, Decodings
<1>3. panelRequest' = c /\ activeTab' = tab /\ UNCHANGED <<lines, sendCount>>
  BY Zenon DEF Redraw
<1>4. messageInput' \in 0 .. MaxLines /\ linesSent' \subseteq [nth : 1 .. MaxLinesSent, isMounted : BOOLEAN]
  <2>1. \/ UNCHANGED <<messageInput, linesSent>>
        \/ messageInput' = 0 /\ linesSent' = {[s EXCEPT !.isMounted = FALSE] : s \in linesSent}
    BY Zenon DEF Redraw
  <2>2. MaxLines \in Nat /\ 0 \in 0 .. MaxLines
    BY InspectorAssumption
  <2> QED
    BY <1>1, <1>2, <2>1, <2>2, FramesKept
<1>5. NoMessages \in [Sides -> {0} \cup CallIds]
  BY DEF NoMessages
<1>6. ASSUME ~ GrpcMounted(c, tab) PROVE InspectorInv'
  <2>1. grpcLoading' = TRUE /\ messages' = NoMessages /\ decodings' = Dropped /\ spoiled' = {} /\ UNCHANGED effects
    BY <1>6 DEF Redraw
  <2>2. Dropped \subseteq Decodings /\ \A r \in Dropped : ~ r.isMounted
    BY <1>1, DroppedKinds
  <2>3. InspectorTypeOK'
    BY <1>2, <1>3, <1>4, <1>5, <2>1, <2>2 DEF InspectorTypeOK, Decodings
  <2>4. ~ GrpcMounted(panelRequest, activeTab)'
    BY <1>3, <1>6
  <2>5. OneRun' /\ NoRun' /\ Decoding'
    BY <2>1, <2>2, <2>4 DEF OneRun, NoRun, Decoding
  <2> QED
    BY <2>3, <2>5 DEF InspectorInv
<1>7. ASSUME GrpcMounted(c, tab), DecodeEffect(c, known), messages' \in [Sides -> {0} \cup CallIds]
      PROVE  InspectorInv'
  <2>1. c \in CallIds
    BY <1>7 DEF GrpcMounted
  <2>2. /\ effects' \in 0 .. MaxEffects /\ grpcLoading' \in BOOLEAN /\ spoiled' \subseteq Sides
        /\ decodings' \subseteq Decodings /\ OneRun'
        /\ IF grpcLoading'
             THEN \E r \in decodings' : /\ r.isMounted /\ r.of = c /\ r.bodies = Sides \ spoiled'
                                        /\ r.side \in r.bodies
                                        /\ r.side = "response" => "request" \notin r.bodies
             ELSE NoRun' /\ Sides \subseteq spoiled'
    BY <1>1, <1>7, <2>1, EffectStarts
  <2>3. InspectorTypeOK'
    BY <1>2, <1>3, <1>4, <1>7, <2>2 DEF InspectorTypeOK, Decodings
  <2>4. GrpcMounted(panelRequest, activeTab)'
    BY <1>3, <1>7
  <2>5. Decoding'
    <3>1. CASE grpcLoading'
      BY <1>3, <2>2, <2>4, <3>1 DEF Decoding, Foreseen
    <3>2. CASE ~ grpcLoading'
      BY <1>3, <2>2, <2>4, <3>2 DEF Decoding
    <3> QED
      BY <3>1, <3>2
  <2> QED
    BY <2>2, <2>3, <2>5 DEF InspectorInv
<1>8. ASSUME GrpcMounted(c, tab), ~ GrpcMounted(panelRequest, activeTab) PROVE InspectorInv'
  <2>1. DecodeEffect(c, known) /\ messages' = NoMessages
    BY <1>8 DEF Redraw
  <2> QED
    BY <1>5, <1>7, <1>8, <2>1
<1>9. ASSUME GrpcMounted(c, tab), GrpcMounted(panelRequest, activeTab), anew PROVE InspectorInv'
  <2>1. DecodeEffect(c, known) /\ UNCHANGED messages
    BY <1>9 DEF Redraw
  <2> QED
    BY <1>2, <1>7, <1>9, <2>1
<1>10. ASSUME GrpcMounted(c, tab), GrpcMounted(panelRequest, activeTab), ~ anew PROVE InspectorInv'
  <2>1. UNCHANGED <<grpcLoading, messages, decodings, effects, spoiled>>
    BY <1>10 DEF Redraw, grpcVars
  <2>2. c = panelRequest /\ tab = activeTab
    BY <1>10 DEF GrpcMounted
  <2>3. InspectorTypeOK'
    BY <1>2, <1>3, <1>4, <2>1, <2>2 DEF InspectorTypeOK, Decodings
  <2>4. OneRun' /\ Decoding'
    BY <1>1, <1>3, <2>1, <2>2 DEF OneRun, NoRun, Decoding, Foreseen
  <2> QED
    BY <2>3, <2>4 DEF InspectorInv
<1> QED
  BY <1>6, <1>8, <1>9, <1>10

\* What does not touch the gRPC tab.
LEMMA FramesKeepInspector ==
  ASSUME InspectorInv, TypeLine \/ SendLine \/ \E s \in linesSent : LineSent(s) \/ LineFails(s)
  PROVE  InspectorInv'
<1>1. InspectorTypeOK /\ OneRun /\ Decoding
  BY DEF InspectorInv
<1>2. UNCHANGED <<responded, panelRequest, activeTab, grpcLoading, messages, decodings, effects, spoiled>>
  BY DEF TypeLine, SendLine, LineSent, LineFails, grpcVars
<1>3. /\ messageInput \in 0 .. MaxLines /\ lines \in 0 .. MaxLines
      /\ linesSent \subseteq [nth : 1 .. MaxLinesSent, isMounted : BOOLEAN]
      /\ sendCount \in 0 .. MaxLinesSent
  BY <1>1 DEF InspectorTypeOK
<1>4. MaxLines \in Nat /\ MaxLinesSent \in Nat /\ 0 \in 0 .. MaxLines
  BY InspectorAssumption
<1>5. /\ messageInput' \in 0 .. MaxLines /\ lines' \in 0 .. MaxLines
      /\ linesSent' \subseteq [nth : 1 .. MaxLinesSent, isMounted : BOOLEAN]
      /\ sendCount' \in 0 .. MaxLinesSent
  <2>1. CASE TypeLine
    BY <1>3, <1>4, <2>1 DEF TypeLine
  <2>2. CASE SendLine
    <3>1. /\ sendCount < MaxLinesSent /\ sendCount' = sendCount + 1
          /\ linesSent' = linesSent \cup {[nth |-> sendCount', isMounted |-> TRUE]}
          /\ UNCHANGED <<messageInput, lines>>
      BY <2>2 DEF SendLine
    <3>2. sendCount' \in 1 .. MaxLinesSent /\ sendCount' \in 0 .. MaxLinesSent
      BY <1>3, <1>4, <3>1
    <3>3. [nth |-> sendCount', isMounted |-> TRUE] \in [nth : 1 .. MaxLinesSent, isMounted : BOOLEAN]
      BY <3>2
    <3> QED
      BY <1>3, <3>1, <3>2, <3>3
  <2>3. CASE \E s \in linesSent : LineSent(s)
    BY <1>3, <1>4, <2>3 DEF LineSent
  <2>4. CASE \E s \in linesSent : LineFails(s)
    BY <1>3, <2>4 DEF LineFails
  <2> QED
    BY <2>1, <2>2, <2>3, <2>4
<1>6. InspectorTypeOK'
  BY <1>1, <1>2, <1>5 DEF InspectorTypeOK
<1>7. OneRun' /\ Decoding'
  BY <1>1, <1>2 DEF OneRun, NoRun, Decoding, Foreseen
<1> QED
  BY <1>6, <1>7 DEF InspectorInv

\* A run that is still mounted is the one the tab is loading from.
LEMMA TheRun ==
  ASSUME InspectorInv, NEW m \in decodings, m.isMounted
  PROVE  GrpcMounted(panelRequest, activeTab) /\ grpcLoading /\ Foreseen(m)
BY DEF InspectorInv, OneRun, NoRun, Decoding, Foreseen

LEMMA DecodingKeepsInspector ==
  ASSUME InspectorInv, NEW m \in decodings, SideDecoded(m)
  PROVE  InspectorInv'
<1>1. InspectorTypeOK /\ OneRun /\ Decoding
  BY DEF InspectorInv
<1>2. PICK more \in BOOLEAN : more = (m.side = "request" /\ "response" \in m.bodies)
  OBVIOUS
<1>3. PICK d : d = [m EXCEPT !.side = "response"]
  OBVIOUS
<1>4. /\ messages' = (IF m.isMounted THEN [messages EXCEPT ![m.side] = m.of] ELSE messages)
      /\ decodings' = (decodings \ {m}) \cup (IF more THEN {d} ELSE {})
      /\ grpcLoading' = (IF m.isMounted THEN more ELSE grpcLoading)
      /\ UNCHANGED <<responded, panelRequest, activeTab, effects, spoiled, messageInput, lines, linesSent, sendCount>>
  BY <1>2, <1>3 DEF SideDecoded, frameVars
<1>5. /\ panelRequest \in {0} \cup CallIds /\ grpcLoading \in BOOLEAN
      /\ messages \in [Sides -> {0} \cup CallIds]
      /\ decodings \subseteq Decodings /\ spoiled \subseteq Sides
  BY <1>1 DEF InspectorTypeOK, Decodings
<1>6. m.side \in Sides /\ m.of \in CallIds /\ m \in Decodings /\ m.isMounted \in BOOLEAN
  BY <1>5 DEF Decodings
<1>7. d \in Decodings /\ d.side = "response" /\ d.of = m.of /\ d.bodies = m.bodies /\ d.isMounted = m.isMounted
  BY <1>3, <1>6 DEF Decodings, Sides
<1>8. /\ messages' \in [Sides -> {0} \cup CallIds]
      /\ m.isMounted => messages'[m.side] = m.of /\ \A s \in Sides \ {m.side} : messages'[s] = messages[s]
  BY <1>4, <1>5, <1>6
<1>9. decodings' \subseteq Decodings /\ grpcLoading' \in BOOLEAN
  BY <1>2, <1>4, <1>5, <1>7
<1>10. InspectorTypeOK'
  BY <1>1, <1>4, <1>8, <1>9 DEF InspectorTypeOK, Decodings
<1>11. OneRun'
  BY <1>1, <1>4, <1>7 DEF OneRun
<1>12. CASE m.isMounted
  <2>1. GrpcMounted(panelRequest, activeTab) /\ grpcLoading /\ Foreseen(m)
    BY <1>12, TheRun
  <2>2. GrpcMounted(panelRequest, activeTab)'
    BY <1>4, <2>1
  <2>3. /\ m.of = panelRequest /\ m.bodies = Sides \ spoiled /\ m.side \in m.bodies
        /\ (m.side = "response" /\ "request" \in m.bodies => messages["request"] = panelRequest)
    BY <2>1 DEF Foreseen
  <2>4. CASE more
    <3>1. messages'["request"] = panelRequest
      BY <1>2, <1>8, <1>12, <2>3, <2>4
    <3>2. Foreseen(d)' /\ d \in decodings' /\ grpcLoading'
      BY <1>2, <1>4, <1>7, <1>12, <2>3, <2>4, <3>1 DEF Foreseen
    <3> QED
      BY <1>10, <1>11, <2>2, <3>2 DEF InspectorInv, Decoding
  <2>5. CASE ~ more
    <3>1. decodings' = decodings \ {m} /\ ~ grpcLoading'
      BY <1>4, <1>12, <2>5
    <3>2. NoRun'
      BY <1>1, <1>12, <3>1 DEF OneRun, NoRun
    <3>3. ASSUME NEW s \in Sides \ spoiled PROVE messages'[s] = panelRequest
      BY <1>2, <1>8, <1>12, <2>3, <2>5, <3>3 DEF Sides
    <3>4. Decoding'
      BY <1>4, <2>2, <3>1, <3>2, <3>3 DEF Decoding
    <3> QED
      BY <1>10, <1>11, <3>4 DEF InspectorInv
  <2> QED
    BY <2>4, <2>5
<1>13. CASE ~ m.isMounted
  <2>1. UNCHANGED <<messages, grpcLoading>>
    BY <1>4, <1>13
  <2>2. \A r : r.isMounted => (r \in decodings' <=> r \in decodings)
    BY <1>4, <1>7, <1>13
  <2>3. Decoding'
    BY <1>1, <1>4, <2>1, <2>2 DEF Decoding, NoRun, Foreseen
  <2> QED
    BY <1>10, <1>11, <2>3 DEF InspectorInv
<1> QED
  BY <1>12, <1>13

LEMMA FailureKeepsInspector ==
  ASSUME InspectorInv, NEW m \in decodings, DecodeFails(m)
  PROVE  InspectorInv'
<1>1. InspectorTypeOK /\ OneRun /\ Decoding
  BY DEF InspectorInv
<1>2. /\ decodings' = decodings \ {m}
      /\ grpcLoading' = (grpcLoading /\ ~ m.isMounted)
      /\ spoiled' = (IF m.isMounted THEN spoiled \cup {m.side, "response"} ELSE spoiled)
      /\ UNCHANGED <<responded, panelRequest, activeTab, messages, effects, messageInput, lines, linesSent, sendCount>>
  BY DEF DecodeFails, frameVars
<1>3. m.side \in Sides /\ m.isMounted \in BOOLEAN /\ grpcLoading \in BOOLEAN /\ spoiled \subseteq Sides
      /\ "response" \in Sides
  BY <1>1 DEF InspectorTypeOK, Sides
<1>4. grpcLoading' \in BOOLEAN /\ spoiled' \subseteq Sides
  BY <1>2, <1>3
<1>5. InspectorTypeOK'
  BY <1>1, <1>2, <1>4 DEF InspectorTypeOK
<1>6. OneRun'
  BY <1>1, <1>2 DEF OneRun
<1>7. CASE m.isMounted
  <2>1. GrpcMounted(panelRequest, activeTab) /\ grpcLoading /\ Foreseen(m)
    BY <1>7, TheRun
  <2>2. GrpcMounted(panelRequest, activeTab)' /\ ~ grpcLoading'
    BY <1>2, <1>7, <2>1
  <2>3. NoRun'
    BY <1>1, <1>2, <1>7 DEF OneRun, NoRun
  <2>4. /\ m.bodies = Sides \ spoiled /\ m.side \in m.bodies
        /\ (m.side = "response" /\ "request" \in m.bodies => messages["request"] = panelRequest)
    BY <2>1 DEF Foreseen
  <2>5. ASSUME NEW s \in Sides \ spoiled' PROVE messages[s] = panelRequest
    <3>1. s = "request" /\ m.side # "request" /\ s \in m.bodies
      BY <1>2, <1>7, <2>4, <2>5 DEF Sides
    <3> QED
      BY <1>3, <2>4, <3>1 DEF Sides
  <2>6. Decoding'
    BY <1>2, <2>2, <2>3, <2>5 DEF Decoding
  <2> QED
    BY <1>5, <1>6, <2>6 DEF InspectorInv
<1>8. CASE ~ m.isMounted
  <2>1. Decoding'
    BY <1>1, <1>2, <1>8 DEF Decoding, NoRun, Foreseen
  <2> QED
    BY <1>5, <1>6, <2>1 DEF InspectorInv
<1> QED
  BY <1>3, <1>7, <1>8

LEMMA InspectorInitInv == InspectorInit => InspectorInv
<1> SUFFICES ASSUME InspectorInit PROVE InspectorInv
  OBVIOUS
<1>1. {MaxEffects, MaxLinesSent, MaxLines} \subseteq Nat
  BY InspectorAssumption
<1>2. 0 \in 0 .. MaxEffects /\ 0 \in 0 .. MaxLines /\ 0 \in 0 .. MaxLinesSent
  BY <1>1
<1>3. NoMessages \in [Sides -> {0} \cup CallIds]
  BY DEF NoMessages
<1>4. InspectorTypeOK
  BY <1>2, <1>3 DEF InspectorInit, InspectorTypeOK, Tabs
<1>5. OneRun /\ Decoding
  BY DEF InspectorInit, OneRun, Decoding, NoRun, GrpcMounted
<1> QED
  BY <1>4, <1>5 DEF InspectorInv

LEMMA InspectorInvariance == InspectorInv /\ [InspectorNext]_inspectorVars => InspectorInv'
<1> SUFFICES ASSUME InspectorInv, [InspectorNext]_inspectorVars PROVE InspectorInv'
  OBVIOUS
<1>1. responded \subseteq CallIds /\ panelRequest \in {0} \cup CallIds /\ activeTab \in Tabs
  BY DEF InspectorInv, InspectorTypeOK
<1>2. ASSUME NEW c \in {0} \cup CallIds, Select(c) PROVE InspectorInv'
  <2>1. Redraw(c, activeTab, TRUE, responded) /\ responded' = responded
    BY <1>2 DEF Select
  <2> QED
    BY <1>1, <2>1, RedrawKeepsInspector
<1>3. ASSUME NEW tab \in Tabs, ClickTab(tab) PROVE InspectorInv'
  <2>1. Redraw(panelRequest, tab, FALSE, responded) /\ responded' = responded
    BY <1>3 DEF ClickTab
  <2> QED
    BY <1>1, <2>1, RedrawKeepsInspector
<1>4. ASSUME NEW c \in CallIds, PanelResponds(c) PROVE InspectorInv'
  <2>1. responded' = responded \cup {c} /\ Redraw(panelRequest, activeTab, c = panelRequest, responded')
    BY <1>4 DEF PanelResponds
  <2>2. responded' \subseteq CallIds /\ (c = panelRequest) \in BOOLEAN
    BY <1>1, <2>1
  <2> QED
    BY <1>1, <2>1, <2>2, RedrawKeepsInspector
<1>5. ASSUME NEW m \in decodings, SideDecoded(m) PROVE InspectorInv'
  BY <1>5, DecodingKeepsInspector
<1>6. ASSUME NEW m \in decodings, DecodeFails(m) PROVE InspectorInv'
  BY <1>6, FailureKeepsInspector
<1>7. CASE TypeLine \/ SendLine \/ \E s \in linesSent : LineSent(s) \/ LineFails(s)
  BY <1>7, FramesKeepInspector
<1>8. CASE UNCHANGED inspectorVars
  <2>1. UNCHANGED <<responded, panelRequest, activeTab, grpcLoading, messages, decodings, effects, spoiled,
                    messageInput, lines, linesSent, sendCount>>
    BY <1>8 DEF inspectorVars, grpcVars, frameVars
  <2> QED
    BY <2>1 DEF InspectorInv, InspectorTypeOK, OneRun, NoRun, Decoding, Foreseen, GrpcMounted
<1> QED
  BY Zenon, <1>2, <1>3, <1>4, <1>5, <1>6, <1>7, <1>8 DEF InspectorNext

\* For every set of exchanges, however fast the selection moves and however late the
\* application decodes: the gRPC tab that has finished loading draws the messages of the
\* exchange that is shown, but for a side that was empty or not decodable (GrpcTab.tsx).
THEOREM DecodedIsOfTheShown == InspectorSpec => [](InspectorTypeOK /\ DecodedIsShown)
<1>1. InspectorInit => InspectorInv
  BY InspectorInitInv
<1>2. InspectorInv /\ [InspectorNext]_inspectorVars => InspectorInv'
  BY InspectorInvariance
<1>3. InspectorInv => InspectorTypeOK /\ DecodedIsShown
  BY DEF InspectorInv, Decoding, DecodedIsShown
<1> QED
  BY <1>1, <1>2, <1>3, PTL DEF InspectorSpec

-----------------------------------------------------------------------------
(* The rule dialogs                                                        *)

\* The kinds of dialogs: lists of rules that exist, and switches.
Dialogs == [shares : BOOLEAN, template : Lists, initial : Lists, keepsOne : BOOLEAN, reads : BOOLEAN,
            calls : BOOLEAN, stores : BOOLEAN, lists : BOOLEAN, kept : BOOLEAN]

\* Where nothing drew them apart and no save has arrived, the store's list is the one in
\* force; a save alone is the only one, and what has arrived of it is in force.
RulesInv ==
    /\ RulesTypeOK /\ dialog \in Dialogs
    /\ \A s \in saves : s.nth <= saveCount
    /\ \A s \in saves : s.alone => saves = {s}
    /\ \A s \in saves : s.alone /\ s.arrived /\ dialog.kept => inForce = s.payload
    /\ dialog.stores /\ dialog.kept /\ ~ apart /\ (\A s \in saves : ~ s.arrived) => ruleStore = inForce

\* Lists of rules, with one more, one less or one switched.
LEMMA ListOps ==
  ASSUME NEW f \in Lists, NEW r \in Rules
  PROVE  /\ DOMAIN f \subseteq Rules
         /\ [q \in DOMAIN f \cup {r} |-> IF q = r THEN TRUE ELSE f[q]] \in Lists
         /\ [q \in DOMAIN f \ {r} |-> f[q]] \in Lists
         /\ Flip(f, r) \in Lists
         /\ r \notin DOMAIN f => Flip(f, r) = f
<1>1. f \in [DOMAIN f -> BOOLEAN] /\ DOMAIN f \subseteq Rules
  BY DEF Lists
<1>2. \A S : S \subseteq Rules => \A g \in [S -> BOOLEAN] : g \in Lists
  BY DEF Lists
<1>3. /\ [q \in DOMAIN f \cup {r} |-> IF q = r THEN TRUE ELSE f[q]] \in [DOMAIN f \cup {r} -> BOOLEAN]
      /\ [q \in DOMAIN f \ {r} |-> f[q]] \in [DOMAIN f \ {r} -> BOOLEAN]
  BY <1>1
<1>4. DOMAIN f \cup {r} \subseteq Rules /\ DOMAIN f \ {r} \subseteq Rules
  BY <1>1
<1>5. Flip(f, r) \in [DOMAIN f -> BOOLEAN]
  BY <1>1 DEF Flip
<1>6. r \notin DOMAIN f => Flip(f, r) = f
  BY DEF Flip
<1> QED
  BY <1>1, <1>2, <1>3, <1>4, <1>5, <1>6

LEMMA DialogShapes ==
  /\ Scenes \subseteq Dialogs /\ Defaults \subseteq Lists /\ NoRules \in Lists
  /\ RequestBlockDialog \in Dialogs
<1>1. Template \in Rules /\ Defaults \subseteq Lists
  BY DialogAssumption
<1>2. NoRules \in [{} -> BOOLEAN] /\ {} \subseteq Rules
  BY DEF NoRules
<1>3. NoRules \in Lists
  BY <1>2 DEF Lists
<1>4. /\ [r \in {Template} |-> TRUE] \in [{Template} -> BOOLEAN]
      /\ [r \in {Template} |-> FALSE] \in [{Template} -> BOOLEAN]
      /\ {Template} \subseteq Rules
  BY <1>1
<1>5. [r \in {Template} |-> TRUE] \in Lists /\ [r \in {Template} |-> FALSE] \in Lists
  BY <1>4 DEF Lists
<1>6. ListDialog \in Dialogs
  BY <1>3 DEF ListDialog, Dialogs
<1>7. \A d \in Dialogs :
         /\ [d EXCEPT !.shares = TRUE] \in Dialogs
         /\ [d EXCEPT !.keepsOne = TRUE, !.template = [r \in {Template} |-> TRUE]] \in Dialogs
         /\ [d EXCEPT !.lists = FALSE, !.initial = [r \in {Template} |-> FALSE]] \in Dialogs
         /\ [d EXCEPT !.reads = FALSE, !.stores = FALSE] \in Dialogs
         /\ [d EXCEPT !.kept = FALSE, !.initial = [r \in {Template} |-> TRUE]] \in Dialogs
         /\ [d EXCEPT !.reads = FALSE, !.calls = FALSE, !.stores = FALSE] \in Dialogs
  BY <1>5 DEF Dialogs
<1>8. /\ BreakpointDialog \in Dialogs /\ HostsDialog \in Dialogs /\ RequestMapDialog \in Dialogs
      /\ RequestCryptoDialog \in Dialogs /\ RequestRewriteDialog \in Dialogs
      /\ RequestBlockDialog \in Dialogs
  BY <1>6, <1>7 DEF BreakpointDialog, HostsDialog, RequestMapDialog, RequestCryptoDialog,
                    RequestRewriteDialog, RequestBlockDialog
<1>9. /\ ScriptDialog \in Dialogs /\ FilterDialog \in Dialogs /\ QuickRuleDialog \in Dialogs
      /\ WeakNetworkDialog \in Dialogs
  BY <1>6, <1>7 DEF ScriptDialog, FilterDialog, QuickRuleDialog, WeakNetworkDialog
<1>10. ExternalProxyDialog \in Dialogs
  BY <1>7, <1>9 DEF ExternalProxyDialog
<1>11. Scenes \subseteq Dialogs
  BY <1>8, <1>9, <1>10, DialogAssumption, Zenon
<1> QED
  BY <1>1, <1>3, <1>8, <1>11

\* The types of the saves, and of the rest, step by step.
RuleKinds ==
    /\ dialog \in Scenes /\ dialog \in Dialogs
    /\ ruleStore \in Lists /\ inForce \in Lists /\ draft \in Lists
    /\ isOpen \in BOOLEAN /\ apart \in BOOLEAN
    /\ saveCount \in Nat /\ others \in Nat
SaveKinds ==
    /\ saves \subseteq Save
    /\ \A s, t \in saves : s.nth = t.nth => s = t
    /\ \A s \in saves : s.nth <= saveCount
Agreement ==
    /\ \A s \in saves : s.alone => saves = {s}
    /\ \A s \in saves : s.alone /\ s.arrived /\ dialog.kept => inForce = s.payload
    /\ dialog.stores /\ dialog.kept /\ ~ apart /\ (\A s \in saves : ~ s.arrived) => ruleStore = inForce

LEMMA RulesInvParts == RulesInv <=> RuleKinds /\ SaveKinds /\ Agreement
BY DEF RulesInv, RulesTypeOK, RuleKinds, SaveKinds, Agreement

\* What a save is: its fields, and what the steps make of it.
LEMMA SaveOps ==
  ASSUME NEW s \in Save
  PROVE  /\ s.nth \in Nat /\ s.payload \in Lists /\ s.array \in Lists
         /\ s.arrived \in BOOLEAN /\ s.alone \in BOOLEAN
         /\ [s EXCEPT !.alone = FALSE] \in Save /\ [s EXCEPT !.arrived = TRUE] \in Save
         /\ [s EXCEPT !.alone = FALSE].nth = s.nth /\ [s EXCEPT !.alone = FALSE].alone = FALSE
         /\ [s EXCEPT !.alone = FALSE].arrived = s.arrived
         /\ [s EXCEPT !.arrived = TRUE].nth = s.nth /\ [s EXCEPT !.arrived = TRUE].alone = s.alone
         /\ [s EXCEPT !.arrived = TRUE].payload = s.payload /\ [s EXCEPT !.arrived = TRUE].arrived = TRUE
         /\ \A g \in Lists : LET t == [s EXCEPT !.array = g]
                             IN  /\ t \in Save /\ t.nth = s.nth /\ t.alone = s.alone
                                 /\ t.arrived = s.arrived /\ t.payload = s.payload
BY DEF Save

\* The saves that others join are the same saves, no longer alone.
LEMMA JoinedSaves ==
  ASSUME SaveKinds
  PROVE  /\ InCompany(saves) \subseteq Save
         /\ \A s, t \in InCompany(saves) : s.nth = t.nth => s = t
         /\ \A s \in InCompany(saves) : s.nth <= saveCount /\ s.alone = FALSE
         /\ \A s \in saves : \E t \in InCompany(saves) : t.arrived = s.arrived
         /\ saves = {} => InCompany(saves) = {}
<1>1. saves \subseteq Save /\ \A s, t \in saves : s.nth = t.nth => s = t
  BY DEF SaveKinds
<1>2. \A s \in saves : s.nth <= saveCount
  BY DEF SaveKinds
<1> DEFINE joined(s) == [s EXCEPT !.alone = FALSE]
<1>3. \A t : t \in InCompany(saves) <=> \E s \in saves : t = joined(s)
  BY DEF InCompany
<1>4. \A s \in saves : /\ joined(s) \in Save /\ joined(s).nth = s.nth
                       /\ joined(s).alone = FALSE /\ joined(s).arrived = s.arrived
  BY <1>1, SaveOps
<1> HIDE DEF Save, joined
<1>5. InCompany(saves) \subseteq Save
  BY <1>3, <1>4
<1>6. ASSUME NEW s \in InCompany(saves), NEW t \in InCompany(saves), s.nth = t.nth PROVE s = t
  <2>1. PICK x \in saves : s = joined(x)
    BY <1>3
  <2>2. PICK y \in saves : t = joined(y)
    BY <1>3
  <2> QED
    BY <1>1, <1>4, <1>6, <2>1, <2>2
<1>7. ASSUME NEW s \in InCompany(saves) PROVE s.nth <= saveCount /\ s.alone = FALSE
  <2>1. PICK x \in saves : s = joined(x)
    BY <1>3
  <2> QED
    BY <1>2, <1>4, <2>1
<1>8. \A s \in saves : \E t \in InCompany(saves) : t.arrived = s.arrived
  BY <1>3, <1>4
<1> QED
  BY <1>3, <1>5, <1>6, <1>7, <1>8

\* The steps that leave the saves, the store and the application alone.
LEMMA DraftsKeep ==
  ASSUME RulesInv, UNCHANGED <<dialog, ruleStore, inForce, saves, saveCount, others, apart>>,
         isOpen' \in BOOLEAN, draft' \in Lists
  PROVE  RulesInv'
BY DEF RulesInv, RulesTypeOK

LEMMA DialogStepsKeep ==
  ASSUME RulesInv, DialogSteps
  PROVE  RulesInv'
<1>1. RuleKinds /\ SaveKinds /\ Agreement
  BY RulesInvParts
<1>2. NoRules \in Lists /\ dialog.template \in Lists /\ ruleStore \in Lists /\ draft \in Lists
      /\ isOpen \in BOOLEAN /\ dialog.kept \in BOOLEAN /\ dialog.stores \in BOOLEAN
  BY <1>1, DialogShapes DEF RuleKinds, Dialogs
<1>3. ASSUME OpenDialog PROVE RulesInv'
  <2>1. /\ isOpen' = TRUE
        /\ draft' = (IF dialog.reads /\ ruleStore # NoRules THEN ruleStore ELSE dialog.template)
        /\ UNCHANGED <<dialog, ruleStore, inForce, saves, saveCount, others, apart>>
    BY <1>3 DEF OpenDialog
  <2> QED
    BY <1>2, <2>1, DraftsKeep
<1>4. ASSUME SaveNothing \/ CloseDialog PROVE RulesInv'
  <2>1. /\ isOpen' = FALSE /\ draft' = NoRules
        /\ UNCHANGED <<dialog, ruleStore, inForce, saves, saveCount, others, apart>>
    BY <1>4 DEF SaveNothing, CloseDialog
  <2> QED
    BY <1>2, <2>1, DraftsKeep
<1>5. ASSUME NEW r \in Rules, AddRule(r) \/ DeleteRule(r) PROVE RulesInv'
  <2>1. draft' \in Lists
    <3>1. CASE AddRule(r)
      <4>1. draft' = [q \in DOMAIN draft \cup {r} |-> IF q = r THEN TRUE ELSE draft[q]]
        BY Zenon, <3>1 DEF AddRule
      <4> QED
        BY Zenon, <1>2, <4>1, ListOps
    <3>2. CASE DeleteRule(r)
      <4>1. draft' = [q \in DOMAIN draft \ {r} |-> draft[q]]
        BY Zenon, <3>2 DEF DeleteRule
      <4> QED
        BY Zenon, <1>2, <4>1, ListOps
    <3> QED
      BY Zenon, <1>5, <3>1, <3>2
  <2>2. UNCHANGED <<dialog, ruleStore, inForce, isOpen, saves, saveCount, others, apart>>
    BY <1>5 DEF AddRule, DeleteRule
  <2> QED
    BY <1>2, <2>1, <2>2, DraftsKeep
<1>6. ASSUME SaveRules PROVE RulesInv'
  <2>1. PICK m : m = [nth |-> saveCount', payload |-> draft, array |-> draft,
                      arrived |-> FALSE, alone |-> saves = {}]
    OBVIOUS
  <2>2. saveCount' = saveCount + 1 /\ saves' = InCompany(saves) \cup {m}
        /\ UNCHANGED <<dialog, ruleStore, inForce, isOpen, draft, others, apart>>
    BY <1>6, <2>1 DEF SaveRules
  <2>3. saveCount \in Nat /\ saveCount' \in Nat
    BY <1>1, <2>2 DEF RuleKinds
  <2>4. m \in Save /\ m.nth = saveCount' /\ m.arrived = FALSE /\ (m.alone <=> saves = {})
        /\ m.alone \in BOOLEAN
    BY <1>2, <2>1, <2>3 DEF Save
  <2>5. /\ InCompany(saves) \subseteq Save
        /\ \A s, t \in InCompany(saves) : s.nth = t.nth => s = t
        /\ \A s \in InCompany(saves) : s.nth <= saveCount /\ s.alone = FALSE
        /\ \A s \in saves : \E t \in InCompany(saves) : t.arrived = s.arrived
        /\ saves = {} => InCompany(saves) = {}
    BY <1>1, JoinedSaves
  <2>6. \A s \in InCompany(saves) : s.nth \in Nat
    BY <2>5, SaveOps
  <2>7. \A s \in InCompany(saves) : s.nth # m.nth /\ s.nth <= saveCount'
    BY <2>2, <2>3, <2>4, <2>5, <2>6
  <2> HIDE DEF InCompany
  <2>8. SaveKinds'
    <3>1. \A s \in saves' : s.nth <= saveCount'
      BY <2>2, <2>3, <2>4, <2>7
    <3> QED
      BY <2>2, <2>4, <2>5, <2>7, <3>1 DEF SaveKinds
  <2>9. Agreement'
    <3>1. \A s \in saves' : s.alone => s = m /\ saves = {}
      BY <2>2, <2>4, <2>5
    <3>2. (\A s \in saves' : ~ s.arrived) => \A s \in saves : ~ s.arrived
      BY <2>2, <2>5
    <3>3. \A s \in saves' : s.alone => saves' = {s} /\ ~ s.arrived
      BY <2>2, <2>4, <2>5, <3>1
    <3> QED
      BY <1>1, <2>2, <3>2, <3>3 DEF Agreement
  <2>10. RuleKinds'
    BY <1>1, <2>2, <2>3 DEF RuleKinds
  <2>11. (RuleKinds /\ SaveKinds /\ Agreement)' => RulesInv'
    BY DEF RulesInv, RulesTypeOK, RuleKinds, SaveKinds, Agreement
  <2> QED
    BY <2>8, <2>9, <2>10, <2>11
<1>7. ASSUME NEW r \in Rules, ToggleRule(r) PROVE RulesInv'
  <2>1. draft' = Flip(draft, r) /\ UNCHANGED <<dialog, inForce, isOpen, saveCount, others>>
    BY <1>7 DEF ToggleRule
  <2>2. draft' \in Lists
    BY <1>2, <2>1, ListOps
  <2>3. CASE ~ dialog.shares
    <3>1. UNCHANGED <<ruleStore, saves, apart>>
      BY <1>7, <2>3, Zenon DEF ToggleRule
    <3> QED
      BY <1>2, <2>1, <2>2, <3>1, DraftsKeep
  <2>4. CASE dialog.shares
    <3>1. /\ ruleStore' = Flip(ruleStore, r)
          /\ saves' = {[s EXCEPT !.array = Flip(@, r)] : s \in saves}
          /\ apart' = (apart \/ r \in DOMAIN ruleStore \/ \E s \in saves : r \in DOMAIN s.array)
      BY <1>7, <2>4, Zenon DEF ToggleRule
    <3>2. ruleStore' \in Lists /\ (r \notin DOMAIN ruleStore => ruleStore' = ruleStore)
      BY <1>2, <3>1, ListOps
    <3>3. \A s \in saves : /\ Flip(s.array, r) \in Lists /\ s \in Save
      BY <1>1, SaveOps, ListOps DEF SaveKinds
    <3> DEFINE g(s) == [s EXCEPT !.array = Flip(@, r)]
    <3>4. \A s \in saves : /\ g(s) \in Save /\ g(s).nth = s.nth /\ g(s).alone = s.alone
                           /\ g(s).arrived = s.arrived /\ g(s).payload = s.payload
      BY <3>3 DEF Save
    <3>5. \A t : t \in saves' <=> \E s \in saves : t = g(s)
      BY <3>1
    <3> HIDE DEF g
    <3>6. SaveKinds'
      BY <1>1, <2>1, <3>4, <3>5 DEF SaveKinds
    <3>7. \A t \in saves' : t.alone => saves' = {t}
      <4> SUFFICES ASSUME NEW t \in saves', t.alone PROVE saves' = {t}
        OBVIOUS
      <4>1. PICK s \in saves : t = g(s)
        BY <3>5
      <4>2. saves = {s}
        BY <1>1, <3>4, <4>1 DEF Agreement
      <4> QED
        BY <3>5, <4>1, <4>2
    <3>8. \A t \in saves' : t.alone /\ t.arrived /\ dialog'.kept => inForce' = t.payload
      BY <1>1, <2>1, <3>4, <3>5 DEF Agreement
    <3>9. (\A s \in saves' : ~ s.arrived) => \A s \in saves : ~ s.arrived
      BY <3>4, <3>5
    <3>10. ~ apart' => ~ apart /\ ruleStore' = ruleStore
      BY <3>1, <3>2
    <3>11. Agreement'
      BY <1>1, <2>1, <3>7, <3>8, <3>9, <3>10 DEF Agreement
    <3>12. apart' \in BOOLEAN
      BY <3>1
    <3>13. RuleKinds'
      BY <1>1, <2>1, <2>2, <3>2, <3>12 DEF RuleKinds
    <3>14. (RuleKinds /\ SaveKinds /\ Agreement)' => RulesInv'
      BY DEF RulesInv, RulesTypeOK, RuleKinds, SaveKinds, Agreement
    <3> QED
      BY <3>6, <3>11, <3>13, <3>14
  <2> QED
    BY <2>3, <2>4
<1> QED
  BY <1>3, <1>4, <1>5, <1>6, <1>7, Zenon DEF DialogSteps

LEMMA ArrivedKeeps ==
  ASSUME RulesInv, NEW m \in saves, Arrived(m)
  PROVE  RulesInv'
<1>1. RuleKinds /\ SaveKinds /\ Agreement
  BY RulesInvParts
<1>2. PICK a : a = [m EXCEPT !.arrived = TRUE]
  OBVIOUS
<1>3. /\ saves' = (saves \ {m}) \cup {a}
      /\ inForce' = (IF dialog.kept THEN m.payload ELSE NoRules)
      /\ UNCHANGED <<dialog, ruleStore, isOpen, draft, saveCount, others, apart>>
  BY <1>2 DEF Arrived
<1>4. m \in Save
  BY <1>1 DEF SaveKinds
<1>5. /\ a \in Save /\ a.nth = m.nth /\ a.alone = m.alone /\ a.payload = m.payload /\ a.arrived = TRUE
      /\ m.payload \in Lists
  BY <1>2, <1>4, SaveOps
<1>6. SaveKinds'
  <2>1. \A s \in saves \ {m} : s.nth # a.nth
    BY <1>1, <1>5 DEF SaveKinds
  <2>2. a.nth <= saveCount
    BY <1>1, <1>5 DEF SaveKinds
  <2> QED
    BY <1>1, <1>3, <1>5, <2>1, <2>2 DEF SaveKinds
<1>7. \A s \in saves' : s.alone => saves' = {s} /\ s = a
  <2> SUFFICES ASSUME NEW s \in saves', s.alone PROVE saves' = {s} /\ s = a
    OBVIOUS
  <2>1. CASE s = a
    <3>1. saves = {m}
      BY <1>1, <1>5, <2>1 DEF Agreement
    <3> QED
      BY <1>3, <2>1, <3>1
  <2>2. CASE s # a
    <3>1. s \in saves /\ s # m
      BY <1>3, <2>2
    <3> QED
      BY <1>1, <3>1 DEF Agreement
  <2> QED
    BY <2>1, <2>2
<1>8. a \in saves'
  BY <1>3
<1>9. Agreement'
  <2>1. \A s \in saves' : s.alone /\ s.arrived /\ dialog'.kept => inForce' = s.payload
    BY <1>3, <1>5, <1>7
  <2>2. ~ \A s \in saves' : ~ s.arrived
    BY <1>5, <1>8
  <2> QED
    BY <1>7, <2>1, <2>2 DEF Agreement
<1>10. inForce' \in Lists
  BY <1>3, <1>5, DialogShapes
<1>11. RuleKinds'
  BY <1>1, <1>3, <1>10 DEF RuleKinds
<1>12. (RuleKinds /\ SaveKinds /\ Agreement)' => RulesInv'
  BY DEF RulesInv, RulesTypeOK, RuleKinds, SaveKinds, Agreement
<1> QED
  BY <1>6, <1>9, <1>11, <1>12

LEMMA EndedSavesKeep ==
  ASSUME RulesInv, NEW m \in saves, Saved(m) \/ Failed(m)
  PROVE  RulesInv'
<1>1. RuleKinds /\ SaveKinds /\ Agreement
  BY RulesInvParts
<1>2. m \in Save /\ m.array \in Lists /\ m.alone \in BOOLEAN /\ m.arrived \in BOOLEAN
  BY <1>1, SaveOps DEF SaveKinds
<1>3. saves' = saves \ {m} /\ UNCHANGED <<dialog, inForce, saveCount, others>>
  BY DEF Saved, Failed
<1>4. SaveKinds'
  BY <1>1, <1>3 DEF SaveKinds
<1>5. \A s \in saves' : s.alone => saves' = {s}
  BY <1>1, <1>3 DEF Agreement
<1>6. \A s \in saves' : s.alone /\ s.arrived /\ dialog'.kept => inForce' = s.payload
  BY <1>1, <1>3 DEF Agreement
<1>7. ASSUME Saved(m)
      PROVE  /\ RuleKinds'
             /\ dialog.stores /\ dialog.kept /\ ~ apart' => ruleStore' = inForce'
  <2>1. /\ m.arrived /\ ruleStore' = (IF dialog.stores THEN m.array ELSE ruleStore)
        /\ isOpen' = FALSE /\ draft' = NoRules
        /\ apart' = ~ (m.alone /\ m.array = m.payload)
    BY <1>7 DEF Saved
  <2>2. RuleKinds'
    BY <1>1, <1>2, <1>3, <2>1, DialogShapes DEF RuleKinds
  <2>3. ASSUME dialog.stores, dialog.kept, ~ apart' PROVE ruleStore' = inForce'
    <3>1. m.alone /\ m.array = m.payload
      BY <2>1, <2>3
    <3>2. inForce = m.payload
      BY <1>1, <2>1, <2>3, <3>1 DEF Agreement
    <3> QED
      BY <1>3, <2>1, <2>3, <3>1, <3>2
  <2> QED
    BY <2>2, <2>3
<1>8. ASSUME Failed(m)
      PROVE  /\ RuleKinds'
             /\ dialog.stores /\ dialog.kept /\ ~ apart' /\ (\A s \in saves' : ~ s.arrived)
                    => ruleStore' = inForce'
  <2>1. ~ m.arrived /\ UNCHANGED <<ruleStore, isOpen, draft, apart>>
    BY <1>8 DEF Failed
  <2>2. (\A s \in saves' : ~ s.arrived) => \A s \in saves : ~ s.arrived
    BY <1>3, <2>1
  <2> QED
    BY <1>1, <1>3, <2>1, <2>2 DEF RuleKinds, Agreement
<1>9. RuleKinds' /\ Agreement'
  BY <1>3, <1>5, <1>6, <1>7, <1>8 DEF Agreement
<1>10. (RuleKinds /\ SaveKinds /\ Agreement)' => RulesInv'
  BY DEF RulesInv, RulesTypeOK, RuleKinds, SaveKinds, Agreement
<1> QED
  BY <1>4, <1>9, <1>10

LEMMA OthersKeep ==
  ASSUME RulesInv, OtherSteps
  PROVE  RulesInv'
<1>1. RuleKinds /\ SaveKinds /\ Agreement
  BY RulesInvParts
<1>2. others \in Nat /\ others + 1 \in Nat /\ inForce \in Lists /\ dialog.initial \in Lists
      /\ dialog.kept \in BOOLEAN
  BY <1>1 DEF RuleKinds, Dialogs
<1>3. (RuleKinds /\ SaveKinds /\ Agreement)' => RulesInv'
  BY DEF RulesInv, RulesTypeOK, RuleKinds, SaveKinds, Agreement
<1>4. ASSUME NEW r \in Rules, BlockUrl(r) PROVE RulesInv'
  <2>1. /\ others' = others + 1 /\ apart' = TRUE /\ saves' = InCompany(saves)
        /\ inForce' = [q \in DOMAIN inForce \cup {r} |-> IF q = r THEN TRUE ELSE inForce[q]]
        /\ UNCHANGED <<dialog, ruleStore, isOpen, draft, saveCount>>
    BY <1>4 DEF BlockUrl
  <2>2. inForce' \in Lists
    BY <1>2, <2>1, ListOps
  <2>3. RuleKinds'
    BY <1>1, <1>2, <2>1, <2>2 DEF RuleKinds
  <2>4. SaveKinds' /\ \A s \in saves' : s.alone = FALSE
    BY <1>1, <2>1, JoinedSaves DEF SaveKinds
  <2>5. Agreement'
    BY <2>1, <2>4 DEF Agreement
  <2> QED
    BY <1>3, <2>3, <2>4, <2>5
<1>5. ASSUME RestartApp PROVE RulesInv'
  <2>1. PICK list : list = IF dialog.kept THEN inForce ELSE NoRules
    OBVIOUS
  <2>2. /\ others' = others + 1 /\ dialog' = dialog
        /\ ruleStore' = dialog.initial /\ inForce' = list
        /\ isOpen' = FALSE /\ draft' = NoRules
        /\ saves' = {} /\ saveCount' = 0
        /\ apart' = (list # dialog.initial)
    BY <1>5, <2>1 DEF RestartApp, Started
  <2>3. list \in Lists
    BY <1>2, <2>1, DialogShapes
  <2>4. RuleKinds'
    BY <1>1, <1>2, <2>2, <2>3, DialogShapes DEF RuleKinds
  <2>5. SaveKinds' /\ Agreement'
    BY <2>2 DEF SaveKinds, Agreement
  <2> QED
    BY <1>3, <2>4, <2>5
<1> QED
  BY <1>4, <1>5, Zenon DEF OtherSteps

LEMMA RulesInvariance == RulesSpec => []RulesInv
<1>1. RulesInit => RulesInv
  <2> SUFFICES ASSUME RulesInit PROVE RulesInv
    OBVIOUS
  <2>1. /\ dialog \in Scenes /\ ruleStore = dialog.initial
        /\ inForce \in Defaults \cup {dialog.initial}
        /\ isOpen = FALSE /\ draft = NoRules
        /\ saves = {} /\ saveCount = 0 /\ others = 0
        /\ apart = (inForce # ruleStore)
    BY DEF RulesInit
  <2>2. dialog \in Dialogs /\ dialog.initial \in Lists
    BY <2>1, DialogShapes DEF Dialogs
  <2>3. inForce \in Lists
    BY <2>1, <2>2, DialogShapes
  <2>4. RuleKinds
    BY <2>1, <2>2, <2>3, DialogShapes DEF RuleKinds
  <2>5. SaveKinds /\ Agreement
    BY <2>1 DEF SaveKinds, Agreement
  <2> QED
    BY <2>4, <2>5, RulesInvParts
<1>2. RulesInv /\ [RulesNext]_ruleVars => RulesInv'
  <2> SUFFICES ASSUME RulesInv, [RulesNext]_ruleVars PROVE RulesInv'
    OBVIOUS
  <2>1. CASE UNCHANGED ruleVars
    BY <2>1 DEF ruleVars, RulesInv, RulesTypeOK
  <2>2. CASE DialogSteps
    BY <2>2, DialogStepsKeep
  <2>3. CASE SaveSteps
    BY <2>3, ArrivedKeeps, EndedSavesKeep DEF SaveSteps
  <2>4. CASE OtherSteps
    BY <2>4, OthersKeep
  <2> QED
    BY <2>1, <2>2, <2>3, <2>4, Zenon DEF RulesNext
<1> QED
  BY <1>1, <1>2, PTL DEF RulesSpec

\* The store's lists, the application's, a dialog's draft and the saves keep their types.
THEOREM RulesTypeCorrect == RulesSpec => []RulesTypeOK
<1>1. RulesInv => RulesTypeOK
  BY DEF RulesInv
<1> QED
  BY <1>1, RulesInvariance, PTL

\* Once a save that nothing overtook has ended, the list a dialog shows is the one in
\* force (handleSave of the rule dialogs, the setters of useProxyStore.ts).
THEOREM StoreMatches == RulesSpec => []StoreMatchesApplication
<1>1. RulesInv => StoreMatchesApplication
  BY DEF RulesInv, StoreMatchesApplication
<1> QED
  BY <1>1, RulesInvariance, PTL

\* Where a dialog copies its entries, only a save that reached the application or a
\* restart changes the store's list: editing and Cancel do not.
THEOREM CancelIsHarmless == RulesSpec => CancelChangesNothing
<1>1. ASSUME RulesInv, [RulesNext]_ruleVars, ~ dialog.shares, ruleStore' # ruleStore
      PROVE  (\E s \in saves \ saves' : s.arrived) \/ others' # others
  <2>1. CASE UNCHANGED ruleVars
    BY <1>1, <2>1 DEF ruleVars
  <2>2. CASE DialogSteps
    BY <1>1, <2>2, Zenon DEF DialogSteps, OpenDialog, SaveRules, SaveNothing, CloseDialog, AddRule,
                           ToggleRule, DeleteRule
  <2>3. CASE SaveSteps
    <3>1. PICK s \in saves : Arrived(s) \/ Saved(s) \/ Failed(s)
      BY <2>3 DEF SaveSteps
    <3>2. Saved(s)
      BY <1>1, <3>1 DEF Arrived, Failed
    <3>3. s.arrived /\ saves' = saves \ {s}
      BY <3>2 DEF Saved
    <3> QED
      BY <3>3
  <2>4. CASE OtherSteps
    <3>1. others' = others + 1 \/ ruleStore' = ruleStore
      BY <2>4 DEF OtherSteps, RestartApp, BlockUrl
    <3>2. others \in Nat
      BY <1>1 DEF RulesInv, RulesTypeOK
    <3> QED
      BY <1>1, <3>1, <3>2
  <2> QED
    BY <1>1, <2>1, <2>2, <2>3, <2>4, Zenon DEF RulesNext
<1>2. RulesInv /\ [RulesNext]_ruleVars =>
         [~ dialog.shares /\ ruleStore' # ruleStore =>
             \/ \E s \in saves \ saves' : s.arrived
             \/ others' # others]_ruleVars
  BY <1>1
<1> QED
  BY <1>2, RulesInvariance, PTL DEF RulesSpec, CancelChangesNothing

-----------------------------------------------------------------------------
(* The rule form                                                           *)

FormInv == RuleFormTypeOK /\ FormIsKept

\* What fills the form, and what the GraphQL editors make of it.
LEMMA FillTypes ==
  ASSUME NEW s \in Suggestions, NEW r \in Answers \cup {"pending"}
  PROVE  /\ Filled(s, r) \in [FormFields -> Origins] /\ TypeFrom(s, r) \in BodyTypes
<1>1. BodyFrom(s, r) \in Origins
  BY DEF BodyFrom, Origins
<1>2. \A f \in FormFields :
        (CASE f \in {"urlPattern", "matchMethod", "simUrl", "paramList", "headerList"} -> "captured"
           [] f \in {"ruleName", "ruleType"} -> "suggested"
           [] f = "statusCode"  -> IF r # "pending" THEN "captured"
                                   ELSE IF f \in s.brings THEN "suggested" ELSE "default"
           [] f = "bodyContent" -> BodyFrom(s, r)
           [] OTHER             -> "default") \in Origins
  BY <1>1 DEF Origins
<1>3. Filled(s, r) \in [FormFields -> Origins]
  BY <1>2 DEF Filled
<1>4. r \in BodyKinds \cup {"pending"}
  BY RuleFormAssumption
<1>5. BodyFrom(s, r) = "captured" => r \in BodyTypes
  BY <1>4 DEF BodyFrom, BodyTypes
<1>6. TypeFrom(s, r) \in BodyTypes
  BY <1>5 DEF TypeFrom, BodyTypes, BodyKinds
<1> QED
  BY <1>3, <1>6

LEMMA GraphqlIs ==
  ASSUME NEW next \in [FormFields -> Origins], NEW type
  PROVE  /\ Graphql(next, type) \in [FormFields -> Origins]
         /\ \A f \in FormFields \ Drowned(type) : Graphql(next, type)[f] = next[f]
<1>1. CASE type # "graphql"
  BY <1>1 DEF Graphql
<1>2. CASE type = "graphql"
  <2>1. PICK v \in Origins : Graphql(next, type) = [next EXCEPT !.bodyContent = v]
    BY <1>2 DEF Graphql, Origins
  <2>2. Drowned(type) = {"bodyContent"}
    BY <1>2 DEF Drowned
  <2> QED
    BY <2>1, <2>2
<1> QED
  BY <1>1, <1>2

\* Fields are written: those the user typed and those nobody changed keep what they have.
LEMMA WriteKeeps ==
  ASSUME FormInv, NEW S \in SUBSET FormFields, NEW origin \in Origins, NEW type \in BodyTypes,
         Write(S, origin, type), formTab' = formTab
  PROVE  FormInv'
<1>1. PICK next : next = [f \in FormFields |-> IF f \in S THEN origin ELSE form[f]]
  OBVIOUS
<1>2. /\ formOpen /\ formChanges < MaxFields /\ formChanges' = formChanges + 1
      /\ bodyType' = type /\ form' = Graphql(next, type)
      /\ untouched' = (untouched \ S) \ Drowned(type)
      /\ typed' = (IF origin = "typed" THEN typed \cup S ELSE typed \ S) \ Drowned(type)
      /\ simResult' = (IF simResult = "none" THEN "none" ELSE "old")
      /\ UNCHANGED <<reply, formOpen, taken>>
  BY <1>1 DEF Write
<1>3. /\ RuleFormTypeOK
      /\ \A f \in typed : form[f] = "typed"
      /\ \A f \in untouched : form[f] = Filled(taken.by, taken.reply)[f]
  BY <1>2 DEF FormInv, FormIsKept
<1>4. form \in [FormFields -> Origins] /\ typed \subseteq FormFields /\ untouched \subseteq FormFields
  BY <1>3 DEF RuleFormTypeOK
<1>5. next \in [FormFields -> Origins] /\ \A f \in FormFields : next[f] = IF f \in S THEN origin ELSE form[f]
  BY <1>1, <1>4
<1>6. /\ form' \in [FormFields -> Origins]
      /\ \A f \in FormFields \ Drowned(type) : form'[f] = next[f]
  BY <1>2, <1>5, GraphqlIs
<1>7. formChanges' \in 0 .. MaxFields
  BY <1>2, <1>3, RuleFormAssumption DEF RuleFormTypeOK
<1>8. typed' \subseteq FormFields /\ untouched' \subseteq FormFields
  BY <1>2, <1>4
<1>9. RuleFormTypeOK'
  BY <1>2, <1>3, <1>6, <1>7, <1>8 DEF RuleFormTypeOK
<1>10. \A f \in typed' : form'[f] = "typed"
  BY <1>2, <1>3, <1>4, <1>5, <1>6
<1>11. \A f \in untouched' : form'[f] = Filled(taken.by, taken.reply)[f]
  BY <1>2, <1>3, <1>4, <1>5, <1>6
<1> QED
  BY <1>2, <1>9, <1>10, <1>11 DEF FormInv, FormIsKept

\* The steps that leave the fields alone.
LEMMA FieldsKeep ==
  ASSUME FormInv, UNCHANGED <<formOpen, form, bodyType, taken, typed, untouched, formChanges>>,
         reply' \in Answers \cup {"pending"}, formTab' \in FormTabs,
         simResult' \in {"none", "current", "old"}
  PROVE  FormInv'
BY DEF FormInv, RuleFormTypeOK, FormIsKept

LEMMA OpenFormKeeps ==
  ASSUME FormInv, NEW s \in Suggestions, OpenForm(s)
  PROVE  FormInv'
<1>1. reply \in Answers \cup {"pending"} /\ formChanges \in 0 .. MaxFields
  BY DEF FormInv, RuleFormTypeOK
<1>2. PICK type : type = TypeFrom(s, reply)
  OBVIOUS
<1>3. PICK next : next = Filled(s, reply)
  OBVIOUS
<1>4. next \in [FormFields -> Origins] /\ type \in BodyTypes
  BY <1>1, <1>2, <1>3, FillTypes
<1>5. /\ formOpen' = TRUE /\ taken' = [reply |-> reply, by |-> s]
      /\ bodyType' = type /\ form' = Graphql(next, type)
      /\ formTab' = "body" /\ simResult' = "none" /\ typed' = {}
      /\ untouched' = FormFields \ Drowned(type)
      /\ UNCHANGED <<reply, formChanges>>
  BY <1>2, <1>3 DEF OpenForm
<1>6. /\ form' \in [FormFields -> Origins]
      /\ \A f \in FormFields \ Drowned(type) : form'[f] = next[f]
  BY <1>4, <1>5, GraphqlIs
<1>7. taken' \in Snapshots /\ taken'.by = s /\ taken'.reply = reply
  BY <1>1, <1>5 DEF Snapshots
<1>8. RuleFormTypeOK'
  BY <1>1, <1>4, <1>5, <1>6, <1>7 DEF RuleFormTypeOK, FormTabs
<1>9. \A f \in untouched' : form'[f] = Filled(taken.by, taken.reply)'[f]
  <2>1. Filled(taken.by, taken.reply)' = Filled(taken'.by, taken'.reply)
    BY DEF Filled, BodyFrom
  <2> QED
    BY <1>3, <1>5, <1>6, <1>7, <2>1
<1> QED
  BY <1>5, <1>8, <1>9 DEF FormInv, FormIsKept

LEMMA UnfilledIs == Unfilled \in [FormFields -> Origins] /\ NotTaken \in Snapshots
<1>1. Unfilled \in [FormFields -> Origins]
  BY DEF Unfilled, Origins
<1>2. PauseHere \in Suggestions
  BY DEF Suggestions
<1> QED
  BY <1>1, <1>2 DEF NotTaken, Snapshots

LEMMA FormInvariance == RuleFormSpec => []FormInv
<1>1. RuleFormInit => FormInv
  <2> SUFFICES ASSUME RuleFormInit PROVE FormInv
    OBVIOUS
  <2>1. /\ reply = "pending" /\ formOpen = FALSE
        /\ form = Unfilled /\ bodyType = "json" /\ formTab = "body" /\ simResult = "none"
        /\ taken = NotTaken /\ typed = {} /\ untouched = {} /\ formChanges = 0
    BY DEF RuleFormInit
  <2>2. 0 \in 0 .. MaxFields
    BY RuleFormAssumption
  <2>3. "json" \in BodyTypes /\ "body" \in FormTabs
    BY DEF BodyTypes, BodyKinds, FormTabs
  <2> QED
    BY <2>1, <2>2, <2>3, UnfilledIs DEF FormInv, FormIsKept, RuleFormTypeOK
<1>2. FormInv /\ [RuleFormNext]_ruleFormVars => FormInv'
  <2> SUFFICES ASSUME FormInv, [RuleFormNext]_ruleFormVars PROVE FormInv'
    OBVIOUS
  <2>1. /\ reply \in Answers \cup {"pending"} /\ formTab \in FormTabs /\ bodyType \in BodyTypes
        /\ simResult \in {"none", "current", "old"} /\ formChanges \in 0 .. MaxFields
    BY DEF FormInv, RuleFormTypeOK
  <2>2. CASE UNCHANGED ruleFormVars
    BY <2>1, <2>2, FieldsKeep DEF ruleFormVars, formVars
  <2>3. ASSUME NEW k \in Answers, ReplyComes(k) PROVE FormInv'
    <3>1. reply' = k /\ UNCHANGED <<formOpen, formVars, formChanges>>
      BY <2>3 DEF ReplyComes
    <3> QED
      BY <2>1, <3>1, FieldsKeep DEF formVars
  <2>4. ASSUME NEW f \in FormFields, TypeField(f) PROVE FormInv'
    <3>1. Write({f}, "typed", bodyType) /\ formTab' = formTab
      BY <2>4 DEF TypeField
    <3>2. {f} \in SUBSET FormFields /\ "typed" \in Origins
      BY DEF Origins
    <3> QED
      BY <2>1, <3>1, <3>2, WriteKeeps
  <2>5. CASE SelectDomain
    <3>1. Write({"urlPattern", "simUrl", "ruleName"}, "template", bodyType) /\ formTab' = formTab
      BY <2>5 DEF SelectDomain
    <3>2. {"urlPattern", "simUrl", "ruleName"} \in SUBSET FormFields /\ "template" \in Origins
      BY DEF Origins, FormFields, MatchFields, TestFields
    <3> QED
      BY <2>1, <3>1, <3>2, WriteKeeps
  <2>6. CASE ApplyTemplate
    <3>1. Write({"statusCode", "bodyContent"}, "template", "json") /\ formTab' = formTab
      BY <2>6 DEF ApplyTemplate
    <3>2. /\ {"statusCode", "bodyContent"} \in SUBSET FormFields /\ "template" \in Origins
          /\ "json" \in BodyTypes
      BY DEF Origins, FormFields, BodyFields, ActionFields, BodyTypes, BodyKinds
    <3> QED
      BY <3>1, <3>2, WriteKeeps
  <2>7. ASSUME NEW type \in BodyTypes, PickBodyType(type) PROVE FormInv'
    <3>1. Write({}, "default", type) /\ formTab' = formTab
      BY <2>7 DEF PickBodyType
    <3>2. {} \in SUBSET FormFields /\ "default" \in Origins
      BY DEF Origins
    <3> QED
      BY <3>1, <3>2, WriteKeeps
  <2>8. CASE RunTest
    <3>1. simResult' = "current"
          /\ UNCHANGED <<reply, formOpen, form, bodyType, formTab, taken, typed, untouched, formChanges>>
      BY <2>8 DEF RunTest
    <3> QED
      BY <2>1, <3>1, FieldsKeep
  <2>9. ASSUME NEW tab \in FormTabs, OpenTab(tab) PROVE FormInv'
    <3>1. formTab' = tab /\ simResult' = (IF tab = "simulator" THEN "current" ELSE simResult)
          /\ UNCHANGED <<reply, formOpen, form, bodyType, taken, typed, untouched, formChanges>>
      BY <2>9 DEF OpenTab
    <3> QED
      BY <2>1, <3>1, FieldsKeep
  <2>10. CASE LeaveForm
    <3>1. /\ formOpen' = FALSE /\ form' = Unfilled /\ bodyType' = "json" /\ formTab' = "body"
          /\ simResult' = "none" /\ taken' = NotTaken /\ typed' = {} /\ untouched' = {}
          /\ UNCHANGED <<reply, formChanges>>
      BY <2>10 DEF LeaveForm, FreshForm
    <3>2. "json" \in BodyTypes /\ "body" \in FormTabs
      BY DEF BodyTypes, BodyKinds, FormTabs
    <3> QED
      BY <2>1, <3>1, <3>2, UnfilledIs DEF FormInv, FormIsKept, RuleFormTypeOK
  <2>11. CASE \E s \in Suggestions : OpenForm(s)
    BY <2>11, OpenFormKeeps
  <2> QED
    BY <2>2, <2>3, <2>4, <2>5, <2>6, <2>7, <2>8, <2>9, <2>10, <2>11, Zenon DEF RuleFormNext
<1> QED
  BY <1>1, <1>2, PTL DEF RuleFormSpec

\* What was typed into the form stays, and what nobody changed is what the exchange and
\* the suggestion gave when it opened, but for a body whose type was GraphQL (the effects
\* and the templates of QuickRuleDialog.tsx).
THEOREM FormKeepsWhatWasTyped == RuleFormSpec => [](RuleFormTypeOK /\ FormIsKept)
BY FormInvariance, PTL DEF FormInv

-----------------------------------------------------------------------------
(* The proxy panel                                                         *)

Applications == [running : BOOLEAN, ssl : BOOLEAN, cfg : BOOLEAN, os : BOOLEAN, ca : BOOLEAN]
StatusFields == {"running", "ssl", "sys", "ca"}
FlowKind == [n : Nat, todo : Seq(Verbs), from : Status, sets : UNION {[S -> BOOLEAN] : S \in SUBSET StatusFields},
             alone : BOOLEAN, failed : BOOLEAN, whole : BOOLEAN, badge : BOOLEAN, first : BOOLEAN,
             quiet : BOOLEAN]

\* The handlers that start or stop the server, before they do, and what the others still do.
Starts     == {<<"start">>, <<"start", "status">>, <<"start", "sys">>}
LeavesOver == {<<>>, <<"status">>, <<"sys">>, <<"sysOff">>, <<"ssl">>, <<"sslOff">>, <<"port">>,
               <<"ca">>, <<"install", "ca">>}
QuietCalls == {<<"launch">>, <<"java">>, <<"external">>, <<"stop">>}
\* The calls that may start or stop the server.
Switches   == {"start", "stop", "port", "launch", "java", "external"}
SaysRunning(f, b) == "running" \in DOMAIN f.sets /\ f.sets["running"] = b

\* What a handler of its own will store of the server, after its last call.
Foretells(f) ==
    \/ f.todo \in Starts /\ SaysRunning(f, TRUE)
    \/ f.todo = <<"stop">> /\ SaysRunning(f, FALSE)
    \/ /\ f.todo \in LeavesOver
       /\ f.whole \/ ~ unsure => Merged(f).running = app.running
       /\ f.todo = <<"status">> => SaysRunning(f, app.running)
       /\ f.todo = <<"port">> => ~ f.whole

\* What is known while a handler runs that will store nothing.
Silent(f) ==
    /\ f.todo \in QuietCalls \cup {<<>>} /\ ~ f.whole
    /\ ~ unsure => status.running = app.running

\* A handler alone is the only one, and stores the truth unless it fails.
PanelKinds ==
    /\ app \in Applications /\ status \in Status /\ flows \subseteq FlowKind
    /\ badge \in BOOLEAN /\ auto \in BOOLEAN /\ auto \in AutoStartup
    /\ pill \in BOOLEAN /\ unsure \in BOOLEAN
QuestionKinds ==
    /\ asked \in Question \cup {NoQuestion} /\ resolver = asked
    /\ confirmed \subseteq 1 .. MaxClicks /\ performed \subseteq confirmed
    /\ clicks \in 0 .. MaxClicks
Lonely ==
    /\ \A f \in flows : f.alone => flows = {f} /\ ~ f.first
    /\ \A f \in flows : f.alone => IF f.failed THEN f.todo = <<>>
                                     ELSE IF f.quiet THEN Silent(f) ELSE Foretells(f)
    /\ PanelTellsRunning
PanelInvariant == PanelKinds /\ QuestionKinds /\ Lonely

LEMMA PanelTypes == PanelInvariant => PanelTypeOK /\ ConfirmedFirst /\ PanelTellsRunning
<1> SUFFICES ASSUME PanelInvariant PROVE PanelTypeOK /\ ConfirmedFirst /\ PanelTellsRunning
  OBVIOUS
<1>1. PanelKinds /\ QuestionKinds /\ Lonely
  BY DEF PanelInvariant
<1>2. \A f \in FlowKind :
         /\ f.n \in Nat /\ f.todo \in Seq(Verbs) /\ f.from \in Status
         /\ DOMAIN f.sets \subseteq StatusFields
         /\ {f.alone, f.failed, f.whole, f.badge, f.first, f.quiet} \subseteq BOOLEAN
  BY DEF FlowKind
<1>3. \A s \in Status : DOMAIN s = StatusFields
  BY DEF Status, StatusFields
<1>4. \A f \in flows :
         /\ f.n \in Nat /\ f.todo \in Seq(Verbs) /\ f.from \in Status
         /\ DOMAIN f.sets \subseteq DOMAIN f.from
         /\ {f.alone, f.failed, f.whole, f.badge, f.first, f.quiet} \subseteq BOOLEAN
  BY <1>1, <1>2, <1>3 DEF PanelKinds
<1>5. {asked, resolver} \subseteq Question \cup {NoQuestion} /\ performed \subseteq 1 .. MaxClicks
  BY <1>1 DEF QuestionKinds
<1>6. PanelTypeOK
  BY <1>1, <1>4, <1>5 DEF PanelTypeOK, PanelKinds, QuestionKinds, Applications
<1> QED
  BY <1>1, <1>6 DEF QuestionKinds, Lonely, ConfirmedFirst

\* What a call makes of the application, and of the server when it succeeds.
LEMMA RunOf ==
  ASSUME NEW a \in Applications, NEW v \in Verbs, NEW b \in Run(v, a)
  PROVE  /\ b \in Applications /\ Fails(v, a, b) \in BOOLEAN
         /\ v = "start" /\ ~ Fails(v, a, b) => b.running = TRUE
         /\ v = "stop" => b.running = FALSE /\ ~ Fails(v, a, b)
         /\ v = "port" /\ ~ Fails(v, a, b) => b.running = TRUE
         /\ v \notin Switches /\ ~ Fails(v, a, b) => b.running = a.running
<1>1. \A c \in Restarted(a) : c \in Applications
  BY DEF Restarted, Applications
<1>2. CASE v = "start"
  <2>1. PICK c \in Restarted(a) : b = [c EXCEPT !.ssl = TRUE, !.cfg = TRUE, !.os = @ \/ c.running]
    BY <1>2 DEF Run
  <2>2. b \in Applications
    BY <1>1, <2>1 DEF Applications
  <2>3. Fails(v, a, b) = ~ b.running
    BY <1>2 DEF Fails
  <2> QED
    BY <1>2, <2>2, <2>3 DEF Applications, Switches
<1>3. CASE v = "stop"
  <2>1. b = [a EXCEPT !.running = FALSE, !.os = FALSE]
    BY <1>3 DEF Run
  <2> QED
    BY <1>3, <2>1 DEF Applications, Fails, Switches
<1>4. CASE v \in {"ssl", "sslOff"}
  <2>1. \/ b = a
        \/ a.running /\ \E c \in Restarted(a) : b = [c EXCEPT !.ssl = ~ @]
    BY <1>4 DEF Run
  <2>2. Fails(v, a, b) = (a.running /\ ~ b.running)
    BY <1>4 DEF Fails
  <2>3. b \in Applications
    BY <1>1, <2>1 DEF Applications
  <2>4. a.running \in BOOLEAN /\ b.running \in BOOLEAN
    BY <2>3 DEF Applications
  <2>5. ~ Fails(v, a, b) => b.running = a.running
    BY <2>1, <2>2, <2>4
  <2> QED
    BY <1>4, <2>2, <2>3, <2>5
<1>5. CASE v \in {"sys", "sysOff"}
  <2>1. b \in {[a EXCEPT !.os = (v = "sys")], a}
    BY <1>5 DEF Run
  <2>2. Fails(v, a, b) \in BOOLEAN
    BY <1>5 DEF Fails
  <2> QED
    BY <1>5, <2>1, <2>2 DEF Applications
<1>6. CASE v = "port"
  <2>1. PICK c \in Restarted(a) : b = [c EXCEPT !.os = @ \/ (a.running /\ c.running /\ a.cfg)]
    BY <1>6 DEF Run
  <2>2. Fails(v, a, b) = ~ b.running
    BY <1>6 DEF Fails
  <2>3. b \in Applications
    BY <1>1, <2>1 DEF Applications
  <2> QED
    BY <1>6, <2>2, <2>3 DEF Applications, Switches
<1>7. CASE v \in {"install", "uninstall"}
  <2>1. b \in {[a EXCEPT !.ca = (v = "install")], a}
    BY <1>7 DEF Run
  <2>2. Fails(v, a, b) \in BOOLEAN
    BY <1>7 DEF Fails
  <2> QED
    BY <1>7, <2>1, <2>2 DEF Applications
<1>8. CASE v \in {"status", "ca"}
  <2>1. b = a
    BY <1>8 DEF Run
  <2>2. Fails(v, a, b) = FALSE
    BY <1>8 DEF Fails
  <2>3. v # "start" /\ v # "stop" /\ v # "port"
    BY <1>8
  <2>4. b \in Applications
    BY <2>1
  <2>5. b.running = a.running
    BY <2>1
  <2> QED
    BY <2>2, <2>3, <2>4, <2>5
<1>9. CASE v \in {"launch", "java", "external"}
  <2>1. \A c \in Launched(a) : c \in Applications
    <3>1. \A c \in Applications : [c EXCEPT !.ssl = TRUE, !.cfg = FALSE] \in Applications
      BY DEF Applications
    <3>2. \A c \in Launched(a) :
            c = a \/ \E d \in Restarted(a) : c = [d EXCEPT !.ssl = TRUE, !.cfg = FALSE]
      BY Zenon DEF Launched
    <3> QED
      BY <1>1, <3>1, <3>2
  <2>2. \A c \in Applications : [c EXCEPT !.ca = TRUE] \in Applications
    BY DEF Applications
  <2>3. CASE v = "launch"
    BY <2>1, <2>3 DEF Run, Fails, Switches
  <2>4. CASE v = "java"
    <3>1. b \in Launched(a) \/ \E c \in Launched(a) : b = [c EXCEPT !.ca = TRUE]
      BY <2>4 DEF Run
    <3> QED
      BY <2>1, <2>2, <2>4, <3>1 DEF Fails, Switches
  <2>5. CASE v = "external"
    BY <1>1, <2>5 DEF Run, Fails, Switches
  <2> QED
    BY <1>9, <2>3, <2>4, <2>5
<1> QED
  BY <1>2, <1>3, <1>4, <1>5, <1>6, <1>7, <1>8, <1>9 DEF Verbs, Switches

\* The handlers that store what they did.
Telling(s) == {ToggleProxy(s), MobileToggle(s), PreferSystem(s), ToggleSsl(s), UpdatePort(s),
               RefreshCa(s), InstallCa(s), SystemBadge(s)}

\* What a handler is when it starts that stores nothing.
LEMMA QuietKinds ==
  ASSUME NEW s \in Status, NEW v \in {"launch", "java", "external", "stop"}
  PROVE  /\ Quiet(v, s) \in FlowKind /\ Quiet(v, s).from = s /\ Quiet(v, s).todo = <<v>>
         /\ ~ Quiet(v, s).failed /\ ~ Quiet(v, s).whole /\ ~ Quiet(v, s).first
         /\ Quiet(v, s).quiet = TRUE
<1>1. <<v>> \in Seq(Verbs)
  BY DEF Verbs
<1>2. Nothing2Set \in UNION {[S -> BOOLEAN] : S \in SUBSET StatusFields}
  <2>1. {} \in SUBSET StatusFields /\ Nothing2Set \in [{} -> BOOLEAN]
    BY DEF Nothing2Set
  <2> QED
    BY <2>1
<1>3. Flow(<<v>>, s, Nothing2Set) \in FlowKind
  BY <1>1, <1>2 DEF Flow, FlowKind
<1>4. Quiet(v, s) \in FlowKind
  BY <1>3 DEF Quiet, FlowKind
<1> QED
  BY <1>4 DEF Quiet, Flow

\* What a handler is when it starts.
LEMMA HandlerKinds ==
  ASSUME NEW s \in Status, NEW h \in Telling(s)
  PROVE  /\ h \in FlowKind /\ h.from = s /\ ~ h.failed /\ ~ h.whole /\ ~ h.first /\ ~ h.quiet
         /\ \/ h.todo \in Starts /\ SaysRunning(h, TRUE)
            \/ h.todo = <<"stop">> /\ SaysRunning(h, FALSE)
            \/ /\ h.todo \in {<<"sys">>, <<"sysOff">>, <<"ssl">>, <<"sslOff">>, <<"port">>,
                              <<"ca">>, <<"install", "ca">>}
               /\ "running" \in DOMAIN h.sets => h.sets["running"] = s.running
<1> DEFINE Partial == UNION {[S -> BOOLEAN] : S \in SUBSET StatusFields}
           TwoSets == [k \in {"running", "sys"} |-> TRUE]
<1>1. Nothing2Set \in Partial /\ DOMAIN Nothing2Set = {}
  BY DEF Nothing2Set
<1>2. \A k \in StatusFields, v \in BOOLEAN :
         Sets(k, v) \in Partial /\ DOMAIN Sets(k, v) = {k} /\ Sets(k, v)[k] = v
  <2> SUFFICES ASSUME NEW k \in StatusFields, NEW v \in BOOLEAN
               PROVE  Sets(k, v) \in Partial /\ DOMAIN Sets(k, v) = {k} /\ Sets(k, v)[k] = v
    OBVIOUS
  <2>1. Sets(k, v) \in [{k} -> BOOLEAN] /\ {k} \in SUBSET StatusFields
    BY DEF Sets
  <2> QED
    BY <2>1 DEF Sets
<1>3. TwoSets \in Partial /\ DOMAIN TwoSets = {"running", "sys"} /\ TwoSets["running"] = TRUE
  <2>1. {"running", "sys"} \in SUBSET StatusFields
    BY DEF StatusFields
  <2>2. TwoSets \in [{"running", "sys"} -> BOOLEAN]
    OBVIOUS
  <2> QED
    BY <2>1, <2>2
<1>4. s.running \in BOOLEAN /\ s.ssl \in BOOLEAN /\ s.sys \in BOOLEAN /\ s.ca \in BOOLEAN
  BY DEF Status
<1>5. /\ <<"start">> \in Seq(Verbs) /\ <<"start", "status">> \in Seq(Verbs) /\ <<"start", "sys">> \in Seq(Verbs)
      /\ <<"stop">> \in Seq(Verbs) /\ <<"sys">> \in Seq(Verbs) /\ <<"sysOff">> \in Seq(Verbs)
      /\ <<"ssl">> \in Seq(Verbs) /\ <<"sslOff">> \in Seq(Verbs) /\ <<"port">> \in Seq(Verbs)
      /\ <<"ca">> \in Seq(Verbs) /\ <<"install", "ca">> \in Seq(Verbs)
  BY DEF Verbs
<1>6. \A todo \in Seq(Verbs), sets \in Partial :
         /\ Flow(todo, s, sets) \in FlowKind
         /\ [Flow(todo, s, sets) EXCEPT !.badge = TRUE] \in FlowKind
  BY DEF Flow, FlowKind
<1>7. \A todo, sets :
         LET f == Flow(todo, s, sets)
             g == [Flow(todo, s, sets) EXCEPT !.badge = TRUE]
         IN  /\ f.todo = todo /\ f.sets = sets /\ f.from = s
             /\ ~ f.failed /\ ~ f.whole /\ ~ f.first /\ ~ f.quiet
             /\ g.todo = todo /\ g.sets = sets /\ g.from = s
             /\ ~ g.failed /\ ~ g.whole /\ ~ g.first /\ ~ g.quiet
  BY DEF Flow
<1>8. "running" \in StatusFields /\ "sys" \in StatusFields /\ "ssl" \in StatusFields
  BY DEF StatusFields
<1> DEFINE Made(todo, sets) == h = Flow(todo, s, sets) \/ h = [Flow(todo, s, sets) EXCEPT !.badge = TRUE]
<1>9. \/ \E todo \in Starts : Made(todo, Sets("running", TRUE)) \/ Made(todo, TwoSets)
      \/ Made(<<"stop">>, Sets("running", FALSE))
      \/ s.running /\ Made(<<"sys">>, TwoSets)
      \/ \E todo \in {<<"sys">>, <<"sysOff">>} : \E v \in BOOLEAN : Made(todo, Sets("sys", v))
      \/ \E todo \in {<<"ssl">>, <<"sslOff">>} : \E v \in BOOLEAN : Made(todo, Sets("ssl", v))
      \/ \E todo \in {<<"port">>, <<"ca">>, <<"install", "ca">>} : Made(todo, Nothing2Set)
  <2>1. CASE h = SystemBadge(s)
    <3>1. CASE s.sys
      <4>1. h = [Flow(<<"sysOff">>, s, Sets("sys", FALSE)) EXCEPT !.badge = TRUE]
        BY <2>1, <3>1 DEF SystemBadge
      <4>2. Made(<<"sysOff">>, Sets("sys", FALSE))
        BY <4>1
      <4> HIDE DEF Made, TwoSets, Partial
      <4>3. \E v \in BOOLEAN : Made(<<"sysOff">>, Sets("sys", v))
        BY <4>2
      <4>4. \E todo \in {<<"sys">>, <<"sysOff">>} : \E v \in BOOLEAN : Made(todo, Sets("sys", v))
        BY <4>3, Zenon
      <4> QED
        BY <4>4
    <3>2. CASE ~ s.sys /\ s.running
      <4>1. h = [Flow(<<"sys">>, s, TwoSets) EXCEPT !.badge = TRUE]
        BY <2>1, <3>2 DEF SystemBadge
      <4>2. s.running /\ Made(<<"sys">>, TwoSets)
        BY <3>2, <4>1
      <4> QED
        BY <4>2
    <3>3. CASE ~ s.sys /\ ~ s.running
      <4>1. h = [Flow(<<"start", "sys">>, s, TwoSets) EXCEPT !.badge = TRUE]
        BY <2>1, <3>3 DEF SystemBadge
      <4> QED
        BY <4>1 DEF Starts
    <3> QED
      BY <3>1, <3>2, <3>3
  <2>2. CASE h \in {ToggleProxy(s), MobileToggle(s)}
    BY <2>2 DEF ToggleProxy, MobileToggle, Starts
  <2>3. CASE h = PreferSystem(s)
    BY <1>4, <2>3 DEF PreferSystem
  <2>4. CASE h = ToggleSsl(s)
    BY <1>4, <2>4 DEF ToggleSsl
  <2>5. CASE h \in {UpdatePort(s), RefreshCa(s), InstallCa(s)}
    BY <2>5 DEF UpdatePort, RefreshCa, InstallCa
  <2> QED
    BY <2>1, <2>2, <2>3, <2>4, <2>5 DEF Telling
<1>10. \A todo \in Seq(Verbs), sets \in Partial : Made(todo, sets) =>
          /\ h \in FlowKind /\ h.from = s /\ ~ h.failed /\ ~ h.whole /\ ~ h.first /\ ~ h.quiet
          /\ h.todo = todo /\ h.sets = sets
  <2> SUFFICES ASSUME NEW todo \in Seq(Verbs), NEW sets \in Partial, Made(todo, sets)
               PROVE  /\ h \in FlowKind /\ h.from = s /\ ~ h.failed /\ ~ h.whole /\ ~ h.first /\ ~ h.quiet
                      /\ h.todo = todo /\ h.sets = sets
    OBVIOUS
  <2> HIDE DEF Partial
  <2>1. CASE h = Flow(todo, s, sets)
    BY <1>6, <1>7, <2>1
  <2>2. CASE h = [Flow(todo, s, sets) EXCEPT !.badge = TRUE]
    <3>1. h \in FlowKind
      BY <1>6, <2>2
    <3> QED
      BY <1>7, <2>2, <3>1
  <2> QED
    BY <2>1, <2>2
<1> HIDE DEF Made, Partial, TwoSets
<1>11. CASE \E todo \in Starts : Made(todo, Sets("running", TRUE)) \/ Made(todo, TwoSets)
  <2>1. PICK todo \in Starts : Made(todo, Sets("running", TRUE)) \/ Made(todo, TwoSets)
    BY <1>11
  <2>2. todo \in Seq(Verbs)
    BY <1>5 DEF Starts
  <2>3. PICK sets \in Partial : Made(todo, sets) /\ "running" \in DOMAIN sets /\ sets["running"] = TRUE
    BY <1>2, <1>3, <1>8, <2>1
  <2> QED
    BY <1>10, <2>2, <2>3 DEF SaysRunning
<1>12. CASE Made(<<"stop">>, Sets("running", FALSE))
  BY <1>2, <1>5, <1>8, <1>10, <1>12 DEF SaysRunning
<1>13. CASE \E todo \in {<<"sys">>, <<"sysOff">>} : \E v \in BOOLEAN : Made(todo, Sets("sys", v))
  <2>1. PICK todo \in {<<"sys">>, <<"sysOff">>}, v \in BOOLEAN : Made(todo, Sets("sys", v))
    BY <1>13
  <2>2. Sets("sys", v) \in Partial /\ "running" \notin DOMAIN Sets("sys", v) /\ todo \in Seq(Verbs)
    BY <1>2, <1>5, <1>8
  <2> QED
    BY <1>10, <2>1, <2>2
<1>14. CASE \E todo \in {<<"ssl">>, <<"sslOff">>} : \E v \in BOOLEAN : Made(todo, Sets("ssl", v))
  <2>1. PICK todo \in {<<"ssl">>, <<"sslOff">>}, v \in BOOLEAN : Made(todo, Sets("ssl", v))
    BY <1>14
  <2>2. Sets("ssl", v) \in Partial /\ "running" \notin DOMAIN Sets("ssl", v) /\ todo \in Seq(Verbs)
    BY <1>2, <1>5, <1>8
  <2> QED
    BY <1>10, <2>1, <2>2
<1>15. CASE \E todo \in {<<"port">>, <<"ca">>, <<"install", "ca">>} : Made(todo, Nothing2Set)
  BY <1>1, <1>5, <1>10, <1>15
<1>16. CASE s.running /\ Made(<<"sys">>, TwoSets)
  BY <1>3, <1>4, <1>5, <1>10, <1>16
<1> QED
  BY <1>9, <1>11, <1>12, <1>13, <1>14, <1>15, <1>16

\* What a handler stores is a status, with what it sets of the server.
LEMMA MergedIs ==
  ASSUME NEW f \in FlowKind
  PROVE  /\ Merged(f) \in Status
         /\ "running" \in DOMAIN f.sets => Merged(f).running = f.sets["running"]
         /\ "running" \notin DOMAIN f.sets => Merged(f).running = f.from.running
<1>1. f.sets \in [DOMAIN f.sets -> BOOLEAN] /\ f.from \in Status
  BY DEF FlowKind
<1>2. DOMAIN f.from = StatusFields /\ \A k \in StatusFields : f.from[k] \in BOOLEAN
  BY <1>1 DEF Status, StatusFields
<1>3. Merged(f) = [k \in StatusFields |-> IF k \in DOMAIN f.sets THEN f.sets[k] ELSE f.from[k]]
  BY <1>2 DEF Merged
<1>4. Merged(f) \in [StatusFields -> BOOLEAN]
  BY <1>1, <1>2, <1>3
<1>5. Status = [StatusFields -> BOOLEAN]
  BY Zenon DEF Status, StatusFields
<1>6. "running" \in StatusFields
  BY DEF StatusFields
<1> QED
  BY <1>3, <1>4, <1>5, <1>6

\* Handlers that another joins are the same handlers, no longer alone.
LEMMA CompanyIs ==
  ASSUME NEW S \in SUBSET FlowKind
  PROVE  Company(S) \subseteq FlowKind /\ \A f \in Company(S) : f.alone = FALSE
<1>1. \A f \in FlowKind : [f EXCEPT !.alone = FALSE] \in FlowKind /\ [f EXCEPT !.alone = FALSE].alone = FALSE
  BY DEF FlowKind
<1> QED
  BY <1>1 DEF Company

\* A handler starts, alone or beside others.
LEMMA ClickKeeps ==
  ASSUME PanelInvariant, NEW h \in Telling(status) \cup {Quiet(v, status) : v \in {"launch", "java", "external", "stop"}},
         ClickControl(h)
  PROVE  PanelInvariant'
<1>1. PanelKinds /\ QuestionKinds /\ Lonely
  BY DEF PanelInvariant
<1>2. PICK g : g = [h EXCEPT !.n = clicks', !.alone = (flows = {})]
  OBVIOUS
<1>3. /\ clicks < MaxClicks /\ clicks' = clicks + 1
      /\ flows' = Company(flows) \cup {g}
      /\ badge' = (badge \/ h.badge)
      /\ UNCHANGED <<app, status, asked, resolver, confirmed, performed, auto, pill, unsure>>
  BY <1>2 DEF ClickControl, Begin
<1>4. clicks \in 0 .. MaxClicks /\ MaxClicks \in Nat
  BY <1>1, PanelAssumption DEF QuestionKinds
<1>5. clicks' \in 0 .. MaxClicks /\ clicks' \in Nat
  BY <1>3, <1>4
<1>6. status \in Status
  BY <1>1 DEF PanelKinds
<1>7. /\ h \in FlowKind /\ h.from = status /\ ~ h.failed /\ ~ h.whole /\ ~ h.first
      /\ h.quiet => h.todo \in QuietCalls
      /\ \/ h.quiet
         \/ h.todo \in Starts /\ SaysRunning(h, TRUE)
         \/ h.todo = <<"stop">> /\ SaysRunning(h, FALSE)
         \/ /\ h.todo \in {<<"sys">>, <<"sysOff">>, <<"ssl">>, <<"sslOff">>, <<"port">>,
                           <<"ca">>, <<"install", "ca">>}
            /\ "running" \in DOMAIN h.sets => h.sets["running"] = status.running
  <2>1. CASE h \in Telling(status)
    BY <1>6, <2>1, HandlerKinds
  <2>2. CASE h \notin Telling(status)
    <3>1. PICK v \in {"launch", "java", "external", "stop"} : h = Quiet(v, status)
      BY <2>2
    <3> QED
      <4>1. /\ h \in FlowKind /\ h.from = status /\ h.todo = <<v>>
            /\ ~ h.failed /\ ~ h.whole /\ ~ h.first /\ h.quiet
        BY Zenon, <1>6, <3>1, QuietKinds
      <4>2. <<v>> \in QuietCalls
        BY Zenon, <3>1 DEF QuietCalls
      <4> QED
        BY Zenon, <4>1, <4>2
  <2> QED
    BY <2>1, <2>2
<1>8. /\ g \in FlowKind /\ g.from = status /\ ~ g.failed /\ ~ g.whole /\ ~ g.first
      /\ g.todo = h.todo /\ g.sets = h.sets /\ g.quiet = h.quiet /\ (g.alone <=> flows = {})
  BY <1>2, <1>5, <1>7 DEF FlowKind
<1>9. badge' \in BOOLEAN
  BY <1>3
<1>10. Company(flows) \subseteq FlowKind /\ \A f \in Company(flows) : f.alone = FALSE
  BY <1>1, CompanyIs DEF PanelKinds
<1>11. flows = {} => Company(flows) = {}
  BY DEF Company
<1>12. PanelKinds'
  BY <1>1, <1>3, <1>8, <1>9, <1>10 DEF PanelKinds
<1>13. QuestionKinds'
  BY <1>1, <1>3, <1>5 DEF QuestionKinds
<1>14. ASSUME flows = {} PROVE IF g.quiet THEN Silent(g)' ELSE Foretells(g)'
  <2>1. unsure \in BOOLEAN /\ (~ unsure => status.running = app.running)
    BY <1>1, <1>14 DEF PanelKinds, Lonely, PanelTellsRunning
  <2>2. ASSUME h.todo \in Starts /\ SaysRunning(h, TRUE) PROVE Foretells(g)'
    BY <1>8, <2>2 DEF Foretells, SaysRunning
  <2>3. ASSUME h.todo = <<"stop">> /\ SaysRunning(h, FALSE) PROVE Foretells(g)'
    BY <1>8, <2>3 DEF Foretells, SaysRunning
  <2>4. ASSUME /\ h.todo \in {<<"sys">>, <<"sysOff">>, <<"ssl">>, <<"sslOff">>, <<"port">>,
                              <<"ca">>, <<"install", "ca">>}
               /\ "running" \in DOMAIN h.sets => h.sets["running"] = status.running
        PROVE  Foretells(g)'
    <3>1. Merged(g).running = status.running
      BY <1>8, <2>4, MergedIs
    <3>2. g.todo \in LeavesOver /\ g.todo # <<"status">>
      BY <1>8, <2>4 DEF LeavesOver
    <3> QED
      BY <1>3, <1>8, <2>1, <3>1, <3>2 DEF Foretells
  <2>5. CASE h.quiet
    <3>1. g.quiet /\ g.todo \in QuietCalls /\ ~ g.whole
      BY <1>7, <1>8, <2>5
    <3> QED
      BY <1>3, <2>1, <3>1 DEF Silent
  <2>6. CASE ~ h.quiet
    BY <1>7, <1>8, <2>2, <2>3, <2>4, <2>6
  <2> QED
    BY <2>5, <2>6
<1>15. Lonely'
  <2>1. \A f \in flows' : f.alone => f = g /\ flows = {}
    BY <1>3, <1>8, <1>10
  <2>2. \A f \in flows' : f.alone => flows' = {f} /\ ~ f.first
    BY <1>3, <1>8, <1>11, <2>1
  <2>3. \A f \in flows' : f.alone => ~ f.failed /\ IF f.quiet THEN Silent(f)' ELSE Foretells(f)'
    BY <1>8, <1>14, <2>1
  <2>4. flows' # {}
    BY <1>3
  <2> QED
    BY <2>2, <2>3, <2>4 DEF Lonely, PanelTellsRunning
<1> QED
  BY <1>12, <1>13, <1>15 DEF PanelInvariant

\* The calls that are left when one of them is answered.
LEMMA NextCalls ==
  ASSUME NEW todo \in Starts \cup {<<"stop">>} \cup LeavesOver, todo # <<>>
  PROVE  /\ Head(todo) \in Verbs
         /\ todo \in Starts => Head(todo) = "start" /\ Tail(todo) \in {<<>>, <<"status">>, <<"sys">>}
         /\ todo = <<"stop">> => Head(todo) = "stop" /\ Tail(todo) = <<>>
         /\ todo \in LeavesOver =>
               /\ Tail(todo) \in {<<>>, <<"ca">>}
               /\ Head(todo) \notin Switches \ {"port"}
               /\ (Head(todo) = "port" <=> todo = <<"port">>)
               /\ (Head(todo) = "status" <=> todo = <<"status">>)
<1>1. \A x : Head(<<x>>) = x /\ Tail(<<x>>) = <<>>
  OBVIOUS
<1>2. \A x, y : Head(<<x, y>>) = x /\ Tail(<<x, y>>) = <<y>>
  OBVIOUS
<1>3. \A x, y, z : <<x, y>> # <<z>>
  OBVIOUS
<1>4. CASE todo \in Starts
  <2>1. todo \in Starts => Head(todo) = "start" /\ Tail(todo) \in {<<>>, <<"status">>, <<"sys">>}
    BY <1>1, <1>2 DEF Starts
  <2>2. todo # <<"stop">> /\ todo \notin LeavesOver
    BY <1>4 DEF Starts, LeavesOver
  <2> QED
    BY <1>4, <2>1, <2>2 DEF Verbs
<1>5. CASE todo = <<"stop">>
  <2>1. todo \notin Starts /\ todo \notin LeavesOver
    BY <1>5 DEF Starts, LeavesOver
  <2> QED
    BY <1>1, <1>5, <2>1 DEF Verbs
<1>6. CASE todo \in LeavesOver
  <2>1. todo \notin Starts /\ todo # <<"stop">>
    BY <1>6 DEF Starts, LeavesOver
  <2>2. CASE todo = <<"install", "ca">>
    BY <1>2, <2>1, <2>2 DEF Verbs, Switches
  <2>3. CASE todo # <<"install", "ca">>
    <3>1. PICK x \in {"status", "sys", "sysOff", "ssl", "sslOff", "port", "ca"} : todo = <<x>>
      BY <1>6, <2>3 DEF LeavesOver
    <3>2. Head(todo) = x /\ Tail(todo) = <<>>
      BY <1>1, <3>1
    <3> QED
      BY <2>1, <3>1, <3>2 DEF Verbs, Switches
  <2> QED
    BY <2>2, <2>3
<1> QED
  BY <1>4, <1>5, <1>6

LEMMA CallKeeps ==
  ASSUME PanelInvariant, NEW f \in flows, CallAnswered(f)
  PROVE  PanelInvariant'
<1>1. PanelKinds /\ QuestionKinds /\ Lonely
  BY DEF PanelInvariant
<1>2. /\ f.todo # <<>> /\ UNCHANGED <<status, badge, asked, resolver, confirmed, performed, clicks, auto, pill>>
  BY DEF CallAnswered
<1>3. PICK v : v = Head(f.todo)
  OBVIOUS
<1>4. PICK b \in Run(v, app) :
          /\ app' = b
          /\ flows' = (flows \ {f}) \cup
                {[f EXCEPT !.todo   = IF Fails(v, app, b) THEN <<>> ELSE Tail(@),
                           !.failed = Fails(v, app, b),
                           !.whole  = @ \/ v = "status",
                           !.from   = CASE v = "status" -> Seen(b)
                                        [] v = "ca" -> [@ EXCEPT !.ca = b.ca]
                                        [] OTHER -> @]}
          /\ unsure' = (unsure \/ (app.running # b.running /\ (f.quiet \/ v = "port")))
  BY <1>3 DEF CallAnswered
<1>5. PICK bad : bad = Fails(v, app, b)
  OBVIOUS
<1>6. PICK from : from = CASE v = "status" -> Seen(b)
                           [] v = "ca" -> [f.from EXCEPT !.ca = b.ca]
                           [] OTHER -> f.from
  OBVIOUS
<1>7. PICK g : g = [f EXCEPT !.todo   = IF bad THEN <<>> ELSE Tail(f.todo),
                             !.failed = bad,
                             !.whole  = f.whole \/ v = "status",
                             !.from   = from]
  OBVIOUS
<1>8. flows' = (flows \ {f}) \cup {g}
  BY <1>4, <1>5, <1>6, <1>7
<1>9. f \in FlowKind /\ app \in Applications /\ unsure \in BOOLEAN
  BY <1>1 DEF PanelKinds
<1>10. f.todo \in Seq(Verbs) /\ v \in Verbs /\ Tail(f.todo) \in Seq(Verbs)
  <2>1. f.todo \in Seq(Verbs)
    BY <1>9 DEF FlowKind
  <2> QED
    BY <1>2, <1>3, <2>1
<1>11. /\ b \in Applications /\ bad \in BOOLEAN
       /\ v = "start" /\ ~ bad => b.running = TRUE
       /\ v = "stop" => b.running = FALSE /\ ~ bad
       /\ v = "port" /\ ~ bad => b.running = TRUE
       /\ v \notin Switches /\ ~ bad => b.running = app.running
  <2>1. b \in Run(v, app) /\ app \in Applications /\ v \in Verbs
    BY Zenon, <1>4, <1>9, <1>10
  <2>2. /\ b \in Applications /\ Fails(v, app, b) \in BOOLEAN
        /\ v = "start" /\ ~ Fails(v, app, b) => b.running = TRUE
        /\ v = "stop" => b.running = FALSE /\ ~ Fails(v, app, b)
        /\ v = "port" /\ ~ Fails(v, app, b) => b.running = TRUE
        /\ v \notin Switches /\ ~ Fails(v, app, b) => b.running = app.running
    BY Zenon, <2>1, RunOf
  <2> QED
    BY Zenon, <1>5, <2>2
<1>12. from \in Status /\ (v = "status" => from.running = b.running)
       /\ (v # "status" => from.running = f.from.running)
  <2>1. f.from \in Status
    BY <1>9 DEF FlowKind
  <2>2. Seen(b) \in Status /\ Seen(b).running = b.running
    BY <1>11 DEF Seen, Applications, Status
  <2>3. [f.from EXCEPT !.ca = b.ca] \in Status /\ [f.from EXCEPT !.ca = b.ca].running = f.from.running
    BY <1>11, <2>1 DEF Applications, Status
  <2> QED
    BY <1>6, <2>1, <2>2, <2>3
<1>13. /\ g \in FlowKind /\ g.failed = bad /\ g.alone = f.alone /\ g.first = f.first /\ g.sets = f.sets
       /\ g.quiet = f.quiet
       /\ g.from = from /\ (g.whole <=> f.whole \/ v = "status") /\ g.whole \in BOOLEAN
       /\ ~ bad => g.todo = Tail(f.todo)
  <2>1. <<>> \in Seq(Verbs)
    OBVIOUS
  <2> HIDE DEF Status, Verbs
  <2> QED
    BY <1>7, <1>9, <1>10, <1>11, <1>12, <2>1 DEF FlowKind
<1>14. unsure' \in BOOLEAN /\ app.running \in BOOLEAN /\ f.whole \in BOOLEAN /\ f.quiet \in BOOLEAN
       /\ (unsure' <=> unsure \/ (app.running # b.running /\ (f.quiet \/ v = "port")))
  BY <1>4, <1>9 DEF Applications, FlowKind
<1>15. PanelKinds'
  BY <1>1, <1>2, <1>4, <1>8, <1>11, <1>13, <1>14 DEF PanelKinds
<1>16. QuestionKinds'
  BY <1>1, <1>2 DEF QuestionKinds
<1>q. ASSUME f.alone, ~ g.failed, g.quiet PROVE Silent(g)'
  <2>1. ~ bad /\ g.todo = Tail(f.todo) /\ f.quiet
    BY <1>13, <1>q
  <2>2. Silent(f)
    BY <1>1, <1>2, <1>13, <1>q DEF Lonely
  <2>3. f.todo \in QuietCalls /\ ~ f.whole /\ (~ unsure => status.running = app.running)
    BY <1>2, <2>2 DEF Silent
  <2>4. Tail(f.todo) = <<>> /\ v # "status"
    <3>1. PICK x \in {"launch", "java", "external", "stop"} : f.todo = <<x>>
      BY <2>3 DEF QuietCalls
    <3> QED
      BY <1>3, <3>1
  <2>5. ~ unsure' => ~ unsure /\ b.running = app.running
    BY <1>14, <2>1
  <2> QED
    BY <1>2, <1>4, <1>13, <2>1, <2>3, <2>4, <2>5 DEF Silent
<1>17. ASSUME f.alone, ~ g.failed, ~ g.quiet PROVE Foretells(g)'
  <2>1. ~ bad /\ g.todo = Tail(f.todo)
    BY <1>13, <1>17
  <2>2. Foretells(f) /\ ~ f.quiet
    BY <1>1, <1>2, <1>13, <1>17 DEF Lonely
  <2>3. f.todo \in Starts \cup {<<"stop">>} \cup LeavesOver
    BY <2>2, Zenon DEF Foretells
  <2>4. CASE f.todo \in Starts /\ SaysRunning(f, TRUE)
    <3>1. v = "start" /\ g.todo \in {<<>>, <<"status">>, <<"sys">>}
      BY <1>2, <1>3, <2>1, <2>3, <2>4, NextCalls
    <3>2. app'.running = TRUE
      BY <1>4, <1>11, <2>1, <3>1
    <3>3. "running" \in DOMAIN g.sets /\ g.sets["running"] = TRUE
      BY <1>13, <2>4 DEF SaysRunning
    <3>4. Merged(g).running = TRUE
      BY <1>13, <3>3, MergedIs
    <3>5. g.todo \in LeavesOver /\ g.todo # <<"port">>
      BY <3>1 DEF LeavesOver
    <3> QED
      BY <3>2, <3>3, <3>4, <3>5 DEF Foretells, SaysRunning
  <2>5. CASE f.todo = <<"stop">> /\ SaysRunning(f, FALSE)
    <3>1. v = "stop" /\ g.todo = <<>>
      BY <1>2, <1>3, <2>1, <2>3, <2>5, NextCalls
    <3>2. app'.running = FALSE
      BY <1>4, <1>11, <3>1
    <3>3. "running" \in DOMAIN g.sets /\ g.sets["running"] = FALSE
      BY <1>13, <2>5 DEF SaysRunning
    <3>4. Merged(g).running = FALSE
      BY <1>13, <3>3, MergedIs
    <3>5. g.todo \in LeavesOver /\ g.todo # <<"port">> /\ g.todo # <<"status">>
      BY <3>1 DEF LeavesOver
    <3> QED
      BY <3>2, <3>4, <3>5 DEF Foretells
  <2>6. CASE /\ f.todo \in LeavesOver
             /\ f.whole \/ ~ unsure => Merged(f).running = app.running
             /\ f.todo = <<"status">> => SaysRunning(f, app.running)
             /\ f.todo = <<"port">> => ~ f.whole
    <3>1. /\ g.todo \in {<<>>, <<"ca">>} /\ v \notin Switches \ {"port"}
          /\ (v = "port" <=> f.todo = <<"port">>) /\ (v = "status" <=> f.todo = <<"status">>)
      BY <1>2, <1>3, <2>1, <2>3, <2>6, NextCalls
    <3>2. g.todo \in LeavesOver /\ g.todo # <<"port">> /\ g.todo # <<"status">>
      <4>1. \A x, y : <<x>> = <<y>> => x = y
        OBVIOUS
      <4>2. CASE g.todo = <<>>
        BY <4>2 DEF LeavesOver
      <4>3. CASE g.todo = <<"ca">>
        BY <4>1, <4>3 DEF LeavesOver
      <4> QED
        BY <3>1, <4>2, <4>3
    <3>3. /\ "running" \in DOMAIN f.sets => Merged(f).running = f.sets["running"]
          /\ "running" \notin DOMAIN f.sets => Merged(f).running = f.from.running
          /\ "running" \in DOMAIN f.sets => Merged(g).running = f.sets["running"]
          /\ "running" \notin DOMAIN f.sets => Merged(g).running = from.running
      BY <1>9, <1>13, MergedIs
    <3>4. g.whole \/ ~ unsure' => Merged(g).running = app'.running
      <4>1. CASE v = "status"
        <5>1. f.sets["running"] = app.running /\ "running" \in DOMAIN f.sets /\ b.running = app.running
          BY <1>11, <2>1, <2>6, <3>1, <4>1 DEF SaysRunning, Switches
        <5> QED
          BY <1>4, <3>3, <5>1
      <4>2. CASE v = "port"
        <5>1. ~ g.whole /\ b.running = TRUE
          BY <1>11, <1>13, <1>14, <2>1, <2>6, <3>1, <4>2
        <5>2. ~ unsure' => ~ unsure /\ app.running = TRUE
          BY <1>14, <4>2, <5>1
        <5>3. Merged(g).running = Merged(f).running
          BY <1>12, <3>3, <4>2
        <5> QED
          BY <1>4, <2>6, <5>1, <5>2, <5>3
      <4>3. CASE v \notin {"status", "port"}
        <5>1. (g.whole <=> f.whole) /\ (unsure' <=> unsure) /\ b.running = app.running
          BY <1>11, <1>13, <1>14, <2>1, <2>2, <3>1, <4>3 DEF Switches
        <5>2. Merged(g).running = Merged(f).running
          BY <1>12, <3>3, <4>3
        <5> QED
          BY <1>4, <2>6, <5>1, <5>2
      <4> QED
        BY <4>1, <4>2, <4>3
    <3> QED
      BY <3>2, <3>4 DEF Foretells
  <2> QED
    BY <2>2, <2>4, <2>5, <2>6, Zenon DEF Foretells
<1>18. Lonely'
  <2>1. flows' # {}
    BY <1>8
  <2>2. \A h \in flows' : h.alone => h = g
    BY <1>1, <1>8 DEF Lonely
  <2>3. ASSUME g.alone PROVE flows' = {g} /\ ~ g.first
    BY <1>1, <1>8, <1>13, <2>3 DEF Lonely
  <2>4. ASSUME g.alone, g.failed PROVE g.todo = <<>>
    BY <1>7, <1>9, <1>13, <2>4 DEF FlowKind
  <2>5. \A h \in flows' : h.alone => IF h.failed THEN h.todo = <<>>
                                    ELSE IF h.quiet THEN Silent(h)' ELSE Foretells(h)'
    BY <1>13, <1>q, <1>17, <2>2, <2>4
  <2> QED
    BY <2>1, <2>2, <2>3, <2>5 DEF Lonely, PanelTellsRunning
<1> QED
  BY <1>15, <1>16, <1>18 DEF PanelInvariant

LEMMA FlowEndKeeps ==
  ASSUME PanelInvariant, NEW f \in flows, FlowEnds(f)
  PROVE  PanelInvariant'
<1>1. PanelKinds /\ QuestionKinds /\ Lonely
  BY DEF PanelInvariant
<1>2. PICK a : a = [AutoStart(f.from) EXCEPT !.alone = FALSE]
  OBVIOUS
<1>3. /\ f.todo = <<>>
      /\ status' = (IF f.failed \/ f.quiet THEN status ELSE Merged(f))
      /\ pill' \in (IF f.quiet THEN BOOLEAN ELSE {pill})
      /\ flows' = (flows \ {f}) \cup (IF f.first /\ auto /\ ~ f.from.running THEN {a} ELSE {})
      /\ badge' = (badge /\ ~ f.badge)
      /\ unsure' = ~ (f.alone /\ ~ f.failed /\ (f.whole \/ ~ unsure))
      /\ UNCHANGED <<app, asked, resolver, confirmed, performed, clicks, auto>>
  BY <1>2 DEF FlowEnds
<1>4. f \in FlowKind /\ status \in Status
  BY <1>1 DEF PanelKinds
<1>5. f.from \in Status /\ f.alone \in BOOLEAN /\ f.failed \in BOOLEAN
  BY <1>4 DEF FlowKind
<1>6. a \in FlowKind /\ a.alone = FALSE
  <2>1. <<"start">> \in Seq(Verbs)
    BY DEF Verbs
  <2>2. {"running"} \in SUBSET StatusFields /\ Sets("running", TRUE) \in [{"running"} -> BOOLEAN]
    BY DEF StatusFields, Sets
  <2>3. Sets("running", TRUE) \in UNION {[S -> BOOLEAN] : S \in SUBSET StatusFields}
    BY <2>2
  <2>4. AutoStart(f.from) \in FlowKind
    BY <1>5, <2>1, <2>3 DEF AutoStart, Flow, FlowKind
  <2> QED
    BY <1>2, <2>4 DEF FlowKind
<1>7. status' \in Status /\ unsure' \in BOOLEAN /\ badge' \in BOOLEAN /\ pill' \in BOOLEAN
  BY <1>1, <1>3, <1>4, MergedIs DEF PanelKinds
<1>8. PanelKinds'
  BY <1>1, <1>3, <1>6, <1>7 DEF PanelKinds
<1>9. QuestionKinds'
  BY <1>1, <1>3 DEF QuestionKinds
<1>10. \A h \in flows' : ~ h.alone
  <2>1. \A h \in flows \ {f} : ~ h.alone
    BY <1>1 DEF Lonely
  <2> QED
    BY <1>3, <1>6, <2>1
<1>11. ASSUME ~ unsure' PROVE status'.running = app'.running
  <2>1. f.alone /\ ~ f.failed /\ (f.whole \/ ~ unsure)
    BY <1>3, <1>11
  <2>2. CASE f.quiet
    <3>1. Silent(f)
      BY <1>1, <2>1, <2>2 DEF Lonely
    <3> QED
      BY <1>3, <2>1, <2>2, <3>1 DEF Silent
  <2>3. CASE ~ f.quiet
    <3>1. Foretells(f)
      BY <1>1, <2>1, <2>3 DEF Lonely
    <3>2. <<>> \notin Starts /\ <<>> # <<"stop">>
      BY DEF Starts
    <3>3. Merged(f).running = app.running
      BY <1>3, <2>1, <3>1, <3>2, Zenon DEF Foretells
    <3> QED
      BY <1>3, <2>1, <2>3, <3>3
  <2> QED
    BY <2>2, <2>3
<1>12. Lonely'
  BY <1>10, <1>11 DEF Lonely, PanelTellsRunning
<1> QED
  BY <1>8, <1>9, <1>12 DEF PanelInvariant

LEMMA AskKeeps ==
  ASSUME PanelInvariant, NEW about \in {"clear", "uninstall", "java", "environment", "newCA"}, Ask(about)
  PROVE  PanelInvariant'
<1>1. PanelKinds /\ QuestionKinds /\ Lonely
  BY DEF PanelInvariant
<1>2. /\ clicks < MaxClicks /\ clicks' = clicks + 1
      /\ asked' = [n |-> clicks', about |-> about, from |-> status]
      /\ resolver' = asked'
      /\ UNCHANGED <<app, status, flows, badge, confirmed, performed, auto, pill, unsure>>
  BY DEF Ask
<1>3. clicks \in 0 .. MaxClicks /\ MaxClicks \in Nat /\ status \in Status
  BY <1>1, PanelAssumption DEF QuestionKinds, PanelKinds
<1>4. clicks' \in 1 .. MaxClicks /\ clicks' \in 0 .. MaxClicks
  BY <1>2, <1>3
<1>5. asked' \in Question
  BY <1>2, <1>3, <1>4 DEF Question
<1>6. QuestionKinds'
  BY <1>1, <1>2, <1>4, <1>5 DEF QuestionKinds
<1>7. PanelKinds' /\ Lonely'
  BY <1>1, <1>2 DEF PanelKinds, Lonely, PanelTellsRunning, Foretells, Silent
<1> QED
  BY <1>6, <1>7 DEF PanelInvariant

LEMMA AnswerKeeps ==
  ASSUME PanelInvariant, Confirm \/ Dismiss
  PROVE  PanelInvariant'
<1>1. PanelKinds /\ QuestionKinds /\ Lonely
  BY DEF PanelInvariant
<1>2. asked # NoQuestion /\ asked' = NoQuestion /\ resolver' = NoQuestion
      /\ UNCHANGED <<app, status, badge, clicks, auto, pill, unsure>>
  BY DEF Confirm, Dismiss
<1>3. asked \in Question /\ resolver = asked
  BY <1>1, <1>2 DEF QuestionKinds
<1>4. asked.n \in 1 .. MaxClicks /\ asked.n \in Nat /\ asked.from \in Status
  BY <1>3, PanelAssumption DEF Question
<1>5. CASE Dismiss
  <2>1. UNCHANGED <<flows, confirmed, performed>>
    BY <1>5 DEF Dismiss
  <2> QED
    BY <1>1, <1>2, <2>1
       DEF PanelInvariant, PanelKinds, QuestionKinds, Lonely, PanelTellsRunning, Foretells, Silent
<1>6. CASE Confirm
  <2>1. PICK u : u = [UninstallCa(resolver.from) EXCEPT !.n = resolver.n, !.alone = FALSE]
    OBVIOUS
  <2>2. /\ confirmed' = confirmed \cup {asked.n}
        /\ performed' = performed \cup {asked.n}
        /\ flows' = (IF resolver.about = "uninstall" THEN Company(flows) \cup {u} ELSE flows)
    BY <1>3, <1>6, <2>1 DEF Confirm
  <2>3. u \in FlowKind /\ u.alone = FALSE
    <3>1. <<"uninstall", "ca">> \in Seq(Verbs)
      BY DEF Verbs
    <3>2. {} \in SUBSET StatusFields /\ Nothing2Set \in [{} -> BOOLEAN]
      BY DEF Nothing2Set
    <3>3. Nothing2Set \in UNION {[S -> BOOLEAN] : S \in SUBSET StatusFields}
      BY <3>2
    <3>4. UninstallCa(resolver.from) \in FlowKind
      BY <1>3, <1>4, <3>1, <3>3 DEF UninstallCa, Flow, FlowKind
    <3> QED
      BY <1>3, <1>4, <2>1, <3>4 DEF FlowKind
  <2>4. QuestionKinds'
    BY <1>1, <1>2, <1>4, <2>2 DEF QuestionKinds
  <2>5. CASE resolver.about = "uninstall"
    <3>1. flows' \subseteq FlowKind /\ flows' # {} /\ \A f \in flows' : ~ f.alone
      BY <1>1, <2>2, <2>3, <2>5, CompanyIs DEF PanelKinds
    <3>2. PanelKinds'
      BY <1>1, <1>2, <3>1 DEF PanelKinds
    <3>3. Lonely'
      BY <3>1 DEF Lonely, PanelTellsRunning
    <3> QED
      BY <2>4, <3>2, <3>3 DEF PanelInvariant
  <2>6. CASE resolver.about # "uninstall"
    <3>1. flows' = flows
      BY <2>2, <2>6
    <3>2. PanelKinds' /\ Lonely'
      BY <1>1, <1>2, <3>1 DEF PanelKinds, Lonely, PanelTellsRunning, Foretells, Silent
    <3> QED
      BY <2>4, <3>2 DEF PanelInvariant
  <2> QED
    BY <2>5, <2>6
<1> QED
  BY <1>5, <1>6

LEMMA PanelStarts == PanelInit => PanelInvariant
<1> SUFFICES ASSUME PanelInit PROVE PanelInvariant
  OBVIOUS
<1>1. PICK i : i = [InitStatus(status) EXCEPT !.alone = FALSE]
  OBVIOUS
<1>2. PICK c : c = [RefreshCa(status) EXCEPT !.alone = FALSE]
  OBVIOUS
<1>3. /\ app \in [running : {FALSE}, ssl : {TRUE}, cfg : {FALSE}, os : {FALSE}, ca : BOOLEAN]
      /\ status = [running |-> FALSE, ssl |-> TRUE, sys |-> FALSE, ca |-> FALSE]
      /\ flows = {i, c} /\ badge = FALSE
      /\ asked = NoQuestion /\ resolver = NoQuestion
      /\ confirmed = {} /\ performed = {} /\ clicks = 0
      /\ auto \in AutoStartup /\ pill = FALSE /\ unsure = TRUE
  BY <1>1, <1>2 DEF PanelInit
<1>4. app \in Applications /\ status \in Status /\ auto \in BOOLEAN
  BY <1>3, PanelAssumption DEF Applications, Status
<1>5. i \in FlowKind /\ c \in FlowKind /\ ~ i.alone /\ ~ c.alone
  <2>1. <<"status", "ca">> \in Seq(Verbs) /\ <<"ca">> \in Seq(Verbs)
    BY DEF Verbs
  <2>2. {} \in SUBSET StatusFields /\ Nothing2Set \in [{} -> BOOLEAN]
    BY DEF Nothing2Set
  <2>3. Nothing2Set \in UNION {[S -> BOOLEAN] : S \in SUBSET StatusFields}
    BY <2>2
  <2>4. Flow(<<"status", "ca">>, status, Nothing2Set) \in FlowKind
        /\ Flow(<<"ca">>, status, Nothing2Set) \in FlowKind
    BY <1>4, <2>1, <2>3 DEF Flow, FlowKind
  <2>5. InitStatus(status) \in FlowKind /\ RefreshCa(status) \in FlowKind
    BY <2>4 DEF InitStatus, RefreshCa, FlowKind
  <2> QED
    BY <1>1, <1>2, <2>5 DEF FlowKind
<1>6. 0 \in 0 .. MaxClicks
  BY PanelAssumption
<1>7. PanelKinds /\ QuestionKinds
  BY <1>3, <1>4, <1>5, <1>6 DEF PanelKinds, QuestionKinds
<1>8. Lonely
  BY <1>3, <1>5 DEF Lonely, PanelTellsRunning
<1> QED
  BY <1>7, <1>8 DEF PanelInvariant

LEMMA PanelInvariance == PanelSpec => []PanelInvariant
<1>1. PanelInit => PanelInvariant
  BY PanelStarts
<1>2. PanelInvariant /\ [PanelNext]_panelVars => PanelInvariant'
  <2> SUFFICES ASSUME PanelInvariant, [PanelNext]_panelVars PROVE PanelInvariant'
    OBVIOUS
  <2>1. CASE UNCHANGED panelVars
    BY <2>1 DEF panelVars, PanelInvariant, PanelKinds, QuestionKinds, Lonely, PanelTellsRunning, Foretells, Silent
  <2>2. CASE \E f \in flows : CallAnswered(f) \/ FlowEnds(f)
    BY <2>2, CallKeeps, FlowEndKeeps
  <2>3. CASE \/ \E f \in Handlers(status) : ClickControl(f)
             \/ ClickControl(SystemBadge(status))
             \/ pill /\ ClickControl(StopPill(status))
    <3>1. Handlers(status) \cup {SystemBadge(status), StopPill(status)}
          \subseteq Telling(status) \cup {Quiet(v, status) : v \in {"launch", "java", "external", "stop"}}
      BY DEF Handlers, Telling, StopPill
    <3> QED
      BY <2>3, <3>1, ClickKeeps
  <2>4. CASE \E about \in {"clear", "uninstall", "java", "environment", "newCA"} : Ask(about)
    BY <2>4, AskKeeps
  <2>5. CASE Confirm \/ Dismiss
    BY <2>5, AnswerKeeps
  <2> QED
    BY <2>1, <2>2, <2>3, <2>4, <2>5, Zenon DEF PanelNext
<1> QED
  BY <1>1, <1>2, PTL DEF PanelSpec

\* The application, the status, the handlers and the question keep their types.
THEOREM PanelTypeCorrect == PanelSpec => []PanelTypeOK
BY PanelTypes, PanelInvariance, PTL

\* With no handler under way the panel tells that the server runs exactly when it does,
\* after a handler that nothing overlapped and that did not fail (the handlers of
\* Toolbar.tsx, MobileHome.tsx, SslWidget.tsx and PreferenceDialog.tsx), until a new port
\* or a handler that stores nothing (a launch, the pill of the toolbar, the external
\* proxy) starts or stops it.
THEOREM PanelTells == PanelSpec => []PanelTellsRunning
BY PanelTypes, PanelInvariance, PTL

\* What waits for a yes is done only after a yes to that very question, though a later
\* question takes the place of an earlier one (confirm of useConfirmDialog.tsx).
THEOREM OnlyWhenConfirmed == PanelSpec => []ConfirmedFirst
BY PanelTypes, PanelInvariance, PTL

-----------------------------------------------------------------------------
(* The scenes                                                              *)

\* A step of another scene leaves a part alone.
LEMMA ButLeaves ==
  ASSUME NEW s, But(s)
  PROVE  /\ s # "traffic" => UNCHANGED trafficVars
         /\ s # "composer" => UNCHANGED composerVars
         /\ s # "view" => UNCHANGED viewVars
         /\ s # "toolbox" => UNCHANGED toolboxVars
         /\ s # "form" => UNCHANGED ruleFormVars
         /\ s # "history" => UNCHANGED historyVars
         /\ s # "transfer" => UNCHANGED transferVars
         /\ s # "inspector" => UNCHANGED inspectorVars
         /\ s # "rules" => UNCHANGED ruleVars
         /\ s # "panel" => UNCHANGED panelVars
BY Zenon DEF But

\* Whatever the scene, each part behaves as it does alone.
LEMMA EachPageAsAlone ==
  PagesSpec =>
    /\ TrafficSpec /\ ComposerSpec /\ ViewSpec
    /\ ToolboxSpec /\ RuleFormSpec /\ HistorySpec
    /\ TransferSpec /\ InspectorSpec /\ RulesSpec
    /\ PanelSpec
<1>1. PagesInit =>
         /\ TrafficInit /\ ComposerInit /\ ViewInit
         /\ ToolboxInit /\ RuleFormInit /\ HistoryInit
         /\ TransferInit /\ InspectorInit /\ RulesInit
         /\ PanelInit
  BY Zenon DEF PagesInit
<1>2. ASSUME [PagesNext]_pagesVars
      PROVE
         /\ [TrafficNext]_trafficVars /\ [ComposerNext]_composerVars /\ [ViewNext]_viewVars
         /\ [ToolboxNext]_toolboxVars /\ [RuleFormNext]_ruleFormVars /\ [HistoryNext]_historyVars
         /\ [TransferNext]_transferVars /\ [InspectorNext]_inspectorVars /\ [RulesNext]_ruleVars
         /\ [PanelNext]_panelVars
  <2>1. \/ TrafficNext /\ But("traffic")
        \/ ComposerNext /\ But("composer")
        \/ ViewNext /\ But("view")
        \/ ToolboxNext /\ But("toolbox")
        \/ RuleFormNext /\ But("form")
        \/ HistoryNext /\ But("history")
        \/ TransferNext /\ But("transfer")
        \/ InspectorNext /\ But("inspector")
        \/ RulesNext /\ But("rules")
        \/ PanelNext /\ But("panel")
        \/ UNCHANGED pagesVars
    BY Zenon, <1>2 DEF PagesNext
  <2>2. CASE TrafficNext /\ But("traffic")
    BY <2>2, ButLeaves
  <2>3. CASE ComposerNext /\ But("composer")
    BY <2>3, ButLeaves
  <2>4. CASE ViewNext /\ But("view")
    BY <2>4, ButLeaves
  <2>5. CASE ToolboxNext /\ But("toolbox")
    BY <2>5, ButLeaves
  <2>6. CASE RuleFormNext /\ But("form")
    BY <2>6, ButLeaves
  <2>7. CASE HistoryNext /\ But("history")
    BY <2>7, ButLeaves
  <2>8. CASE TransferNext /\ But("transfer")
    BY <2>8, ButLeaves
  <2>9. CASE InspectorNext /\ But("inspector")
    BY <2>9, ButLeaves
  <2>10. CASE RulesNext /\ But("rules")
    BY <2>10, ButLeaves
  <2>11. CASE PanelNext /\ But("panel")
    BY <2>11, ButLeaves
  <2>12. CASE UNCHANGED pagesVars
    BY Zenon, <2>12 DEF pagesVars
  <2> QED
    BY <2>1, <2>2, <2>3, <2>4, <2>5, <2>6, <2>7, <2>8, <2>9, <2>10, <2>11, <2>12
<1> QED
  BY <1>1, <1>2, PTL DEF PagesSpec, TrafficSpec, ComposerSpec, ViewSpec, ToolboxSpec, RuleFormSpec,
     HistorySpec, TransferSpec, InspectorSpec, RulesSpec, PanelSpec

\* The pages of the window keep their types in every scene, for every value of the constants.
THEOREM PagesTypeCorrect == PagesSpec => []PagesTypeOK
<1>1. TrafficTypeOK /\ ComposerTypeOK /\ ViewTypeOK /\ ToolboxTypeOK /\ HistoryTypeOK
      /\ TransferTypeOK /\ InspectorTypeOK /\ RulesTypeOK /\ RuleFormTypeOK /\ PanelTypeOK => PagesTypeOK
  BY Zenon DEF PagesTypeOK
<1> QED
  BY <1>1, EachPageAsAlone, TrafficTypeCorrect, ComposerTypeCorrect, ListShowsWhatFiltersSay, ToolsShowWhatTheyDid,
     HistoryListsTheTable, ExportsComeBack, DecodedIsOfTheShown, RulesTypeCorrect, FormKeepsWhatWasTyped,
     PanelTypeCorrect, PTL

\* A captured exchange in the list shows what the proxy told of it, all of it unless a file
\* brought it back in an older copy, in every scene.
THEOREM ListShowsTheStore == PagesSpec => []ListIsUpToDate
BY EachPageAsAlone, ListShowsAll, PTL

\* The pages that keep a state of their own show what became of it: the tools, the rule
\* form, the session list, an exported file and a decoded body, in every scene.
THEOREM PagesShowTheTruth == PagesSpec => []PagesAreTrue
<1>1. ToolboxIsTrue /\ FormIsKept /\ HistoryIsTrue /\ TransferIsTrue /\ DecodedIsShown => PagesAreTrue
  BY Zenon DEF PagesAreTrue
<1> QED
  BY <1>1, EachPageAsAlone, ToolsShowWhatTheyDid, HistoryListsTheTable, ExportsComeBack,
     DecodedIsOfTheShown, FormKeepsWhatWasTyped, PTL

\* The composer sends what it shows and shows what it sent, in every scene.
THEOREM ComposerTellsTheTruth == PagesSpec => []ComposerIsTrue
<1>1. SendsWhatIsShown /\ ShowsOwnAnswers => ComposerIsTrue
  BY Zenon DEF ComposerIsTrue
<1> QED
  BY <1>1, EachPageAsAlone, ComposerSendsWhatIsShown, ComposerShowsOwnAnswers, PTL

\* The traffic list is covered by its map but for what a file brought, stored as shown and filtered as asked; a cut takes
\* its end and an arrival folds nothing the user opened, in every scene.
THEOREM ListsTellTheTruth == PagesSpec => ListsAreTrue
BY EachPageAsAlone, NoEventIsLost, FavoritesReachTable, ListShowsWhatFiltersSay, CutsDropOldest,
   OpenedStays, PTL DEF ListsAreTrue

\* The store's rules are those in force, the panel tells that the proxy runs, what needs a
\* yes had one, and Cancel changes no rule, in every scene.
THEOREM SettingsTellTheTruth == PagesSpec => SettingsAreTrue
BY EachPageAsAlone, StoreMatches, PanelTells, OnlyWhenConfirmed, CancelIsHarmless, PTL
   DEF SettingsAreTrue
=============================================================================
