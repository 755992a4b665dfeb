-------------------------- MODULE RulesFileProofs --------------------------
(***************************************************************************)
(* Theorems about RulesService, for any rules and hosts: its types for any *)
(* number of goroutines, and what Save promises when one goroutine at a    *)
(* time calls it.                                                          *)
(***************************************************************************)
EXTENDS RulesFile, TLAPS

\* One goroutine calls the setters.
Alone == \E w : Savers = {w}

\* What a goroutine that saves knows of the temporary file it has written.
SaveInv ==
    /\ TypeOK
    /\ NeverTruncated
    /\ \A s \in Savers :
          /\ pc[s] = "write" => fd[s] = Temp /\ files[Temp] = Torn
          /\ pc[s] \in {"stat", "backup", "replace"} => files[Temp] = snap[s]

\* The configurations the setters, Save and a start build.
LEMMA DefaultConfig == Default \in Configs /\ Blank \in Configs
BY DEF Default, Blank, Configs

LEMMA AppliedConfig ==
  ASSUME NEW c \in Configs
  PROVE  [block |-> Applied(c.block, Default.block), filter |-> c.filter] \in Configs
BY DEF Configs, Applied, Default

\* Every step of a setter, of Save, of a crash and of a start is well typed.
LEMMA TypeStep == TypeOK /\ [Next]_vars => TypeOK'
<1> SUFFICES ASSUME TypeOK, [Next]_vars PROVE TypeOK'
  OBVIOUS
<1> USE RulesAssumption DEF TypeOK, Labels, disk
<1> USE DEF Names, Final, Backup, Temp
<1>1. ASSUME NEW s \in Savers, Set(s) PROVE TypeOK'
  <2>1. mem' \in Configs
    BY <1>1 DEF Set, Configs
  <2> QED
    BY <1>1, <2>1 DEF Set, Calls, Goto
<1>1a. ASSUME NEW s \in Savers, SetByKind(s) PROVE TypeOK'
  <2>1. mem' \in Configs
    BY <1>1a DEF SetByKind, Configs
  <2> QED
    BY <1>1a, <2>1 DEF SetByKind, Calls, Goto
<1>2. ASSUME NEW s \in Savers, SetFilter(s) PROVE TypeOK'
  <2>1. mem' \in Configs
    BY <1>2 DEF SetFilter, Configs
  <2> QED
    BY <1>2, <2>1 DEF SetFilter, Calls
<1>3. ASSUME NEW s \in Savers, AddRead(s) PROVE TypeOK'
  BY <1>3 DEF Configs, AddRead, Calls, Goto
<1>4. ASSUME NEW s \in Savers, AddSet(s) PROVE TypeOK'
  BY <1>4 DEF Configs, AddSet, Goto
<1>5. ASSUME NEW s \in Savers, ImportBlock(s) PROVE TypeOK'
  BY <1>5 DEF Configs, ImportBlock, Calls, Goto, Applied
<1>6. ASSUME NEW s \in Savers, ImportFilter(s) PROVE TypeOK'
  BY <1>6 DEF Configs, ImportFilter, Goto
<1>7. ASSUME NEW s \in Savers, SnapshotBlock(s) PROVE TypeOK'
  BY <1>7 DEF Configs, SnapshotBlock, Goto
<1>8. ASSUME NEW s \in Savers, SnapshotFilter(s) PROVE TypeOK'
  BY <1>8 DEF Configs, SnapshotFilter, Goto
<1>9. ASSUME NEW s \in Savers, Open(s) PROVE TypeOK'
  BY <1>9, DefaultConfig DEF Open, Goto, Idle
<1>10. ASSUME NEW s \in Savers, Write(s) PROVE TypeOK'
  BY <1>10, DefaultConfig DEF Write, Goto, Idle
<1>11. ASSUME NEW s \in Savers, Stat(s) PROVE TypeOK'
  BY <1>11 DEF Stat, Goto
<1>12. ASSUME NEW s \in Savers, BackUp(s) PROVE TypeOK'
  BY <1>12 DEF BackUp, Goto, Rename
<1>13. ASSUME NEW s \in Savers, Replace(s) PROVE TypeOK'
  BY <1>13, DefaultConfig DEF Replace, Goto, Idle, Rename
<1>14. ASSUME NEW s \in Savers, Restore(s) PROVE TypeOK'
  BY <1>14, DefaultConfig DEF Restore, Goto, Idle, Rename
<1>15. CASE Crash
  <2>1. mem' \in Configs /\ up' \in BOOLEAN
    BY <1>15, DefaultConfig DEF Crash
  <2>3. crashes' \in 0..MaxCrashes
    BY <1>15 DEF Crash
  <2>2. /\ pc' \in [Savers -> Labels] /\ snap' \in [Savers -> Configs]
        /\ fd' \in [Savers -> Names \cup {"none"}]
        /\ \A s \in Savers : fd'[s] = "none"
    BY <1>15, DefaultConfig DEF Crash
  <2> QED
    BY <1>15, <2>1, <2>2, <2>3 DEF Crash
<1>16. CASE Startup
  BY <1>16, DefaultConfig, AppliedConfig DEF Startup, Loaded, Parses
<1>17. CASE UNCHANGED vars
  BY <1>17 DEF vars
<1> QED
  BY <1>1, <1>1a, <1>2, <1>3, <1>4, <1>5, <1>6, <1>7, <1>8, <1>9, <1>10, <1>11,
     <1>12, <1>13, <1>14, <1>15, <1>16, <1>17 DEF Next, Saver

\* Type correctness, with a file open only while it is written.
THEOREM TypeCorrect == Spec => []TypeOK
<1>1. Init => TypeOK
  BY RulesAssumption DEF Init, TypeOK, Default, Blank, Configs, Labels
<1> QED
  BY <1>1, TypeStep, PTL DEF Spec

-----------------------------------------------------------------------------
\* A lone goroutine's own bookkeeping survives every step, whatever fails and
\* wherever the process ends.
LEMMA SaveStep == Alone /\ SaveInv /\ [Next]_vars => SaveInv'
<1> SUFFICES ASSUME Alone, SaveInv, [Next]_vars PROVE SaveInv'
  OBVIOUS
<1>0. TypeOK'
  BY TypeStep DEF SaveInv
<1>a. PICK w : Savers = {w}
  BY DEF Alone
<1> USE RulesAssumption, <1>0, <1>a DEF SaveInv, TypeOK, NeverTruncated, disk
<1> USE DEF Names, Final, Backup, Temp
<1>1. ASSUME NEW s \in Savers,
             Set(s) \/ SetByKind(s) \/ SetFilter(s) \/ AddRead(s) \/ AddSet(s)
      PROVE SaveInv'
  BY <1>1 DEF Set, SetByKind, SetFilter, AddRead, AddSet, Calls, Goto
<1>2. ASSUME NEW s \in Savers, ImportBlock(s) \/ ImportFilter(s)
      PROVE SaveInv'
  BY <1>2 DEF ImportBlock, ImportFilter, Calls, Goto
<1>3. ASSUME NEW s \in Savers, SnapshotBlock(s) \/ SnapshotFilter(s) \/ Stat(s)
      PROVE SaveInv'
  BY <1>3 DEF SnapshotBlock, SnapshotFilter, Stat, Goto
<1>4. ASSUME NEW s \in Savers, Open(s) PROVE SaveInv'
  BY <1>4 DEF Open, Goto, Idle
<1>5. ASSUME NEW s \in Savers, Write(s) PROVE SaveInv'
  BY <1>5 DEF Write, Goto, Idle
<1>6. ASSUME NEW s \in Savers, BackUp(s) PROVE SaveInv'
  BY <1>6 DEF BackUp, Goto, Rename
<1>7. ASSUME NEW s \in Savers, Replace(s) PROVE SaveInv'
  BY <1>7 DEF Replace, Goto, Idle, Rename
<1>8. ASSUME NEW s \in Savers, Restore(s) PROVE SaveInv'
  BY <1>8 DEF Restore, Goto, Idle, Rename
<1>9. CASE Crash
  BY <1>9 DEF Crash
<1>10. CASE Startup
  BY <1>10 DEF Startup
<1>11. CASE UNCHANGED vars
  BY <1>11 DEF vars
<1> QED
  BY <1>1, <1>2, <1>3, <1>4, <1>5, <1>6, <1>7, <1>8, <1>9, <1>10, <1>11
  DEF Next, Saver

LEMMA SaveInit == Init => SaveInv
BY RulesAssumption DEF Init, SaveInv, TypeOK, NeverTruncated, Default, Blank,
   Configs, Labels, Names, Final, Backup, Temp

\* Save's promise: with one goroutine saving, a crash and any failure of the file
\* system leave neither rules.json nor its backup truncated.
THEOREM NoTornFile ==
  ASSUME Alone
  PROVE  Spec => []NeverTruncated
<1>1. SaveInv => NeverTruncated
  BY DEF SaveInv
<1>2. SaveInv /\ [Next]_vars => SaveInv'
  BY SaveStep
<1> QED
  BY <1>1, <1>2, SaveInit, PTL DEF Spec

-----------------------------------------------------------------------------
\* Whether the file system may refuse is a matter of the whole behaviour.
LEMMA FaultyStays == [Next]_vars => faulty' = faulty
BY DEF Next, Saver, Set, SetByKind, SetFilter, AddRead, AddSet, ImportBlock, ImportFilter,
   SnapshotBlock, SnapshotFilter, Open, Write, Stat, BackUp, Replace, Restore, Crash,
   Startup, vars

\* Between the two renames the backup holds the last save, and Load finds it.
LEMMA LoadStep ==
  ASSUME Alone, ~ faulty, SaveInv, LoadFindsLastSave,
         \A s \in Savers : pc[s] # "restore", [Next]_vars
  PROVE  LoadFindsLastSave' /\ \A s \in Savers : pc'[s] # "restore"
<1>0. TypeOK'
  BY TypeStep DEF SaveInv
<1>a. PICK w : Savers = {w}
  BY DEF Alone
<1> DEFINE Goal == LoadFindsLastSave' /\ \A s \in Savers : pc'[s] # "restore"
<1> USE RulesAssumption, <1>a DEF SaveInv, TypeOK, NeverTruncated, disk
<1> USE DEF Names, Final, Backup, Temp, LoadFindsLastSave, Loaded, Parses
<1>1. ASSUME NEW s \in Savers,
             Set(s) \/ SetByKind(s) \/ SetFilter(s) \/ AddRead(s) \/ AddSet(s)
      PROVE Goal
  BY <1>1 DEF Set, SetByKind, SetFilter, AddRead, AddSet, Calls, Goto
<1>2. ASSUME NEW s \in Savers, ImportBlock(s) \/ ImportFilter(s)
      PROVE Goal
  BY <1>2 DEF ImportBlock, ImportFilter, Calls, Goto
<1>3. ASSUME NEW s \in Savers, SnapshotBlock(s) \/ SnapshotFilter(s) \/ Stat(s)
      PROVE Goal
  BY <1>3 DEF SnapshotBlock, SnapshotFilter, Stat, Goto
<1>4. ASSUME NEW s \in Savers, Open(s) PROVE Goal
  BY <1>4 DEF Open, Goto, Idle
<1>5. ASSUME NEW s \in Savers, Write(s) PROVE Goal
  BY <1>5 DEF Write, Goto, Idle
<1>6. ASSUME NEW s \in Savers, BackUp(s) PROVE Goal
  BY <1>6 DEF BackUp, Goto, Rename
<1>7. ASSUME NEW s \in Savers, Replace(s) PROVE Goal
  BY <1>7 DEF Replace, Goto, Idle, Rename
<1>8. ASSUME NEW s \in Savers, Restore(s) PROVE Goal
  BY <1>8 DEF Restore
<1>9. CASE Crash
  BY <1>9 DEF Crash
<1>10. CASE Startup
  BY <1>10 DEF Startup
<1>11. CASE UNCHANGED vars
  BY <1>11 DEF vars
<1> QED
  BY <1>1, <1>2, <1>3, <1>4, <1>5, <1>6, <1>7, <1>8, <1>9, <1>10, <1>11
  DEF Next, Saver

\* What Load finds, step by step.
LoadInv ==
    /\ SaveInv /\ LoadFindsLastSave
    /\ ~ faulty => \A s \in Savers : pc[s] # "restore"

LEMMA LoadInvInit == Init => LoadInv
BY SaveInit DEF Init, LoadInv, LoadFindsLastSave, Loaded, Parses, Names, Final, Backup

LEMMA LoadInvStep == Alone /\ LoadInv /\ [Next]_vars => LoadInv'
<1> SUFFICES ASSUME Alone, LoadInv, [Next]_vars PROVE LoadInv'
  OBVIOUS
<1>1. SaveInv'
  BY SaveStep DEF LoadInv
<1>2. faulty' = faulty
  BY FaultyStays
<1>3. CASE faulty
  BY <1>1, <1>2, <1>3 DEF LoadInv, LoadFindsLastSave
<1>4. CASE ~ faulty
  BY <1>1, <1>2, <1>4, LoadStep DEF LoadInv
<1> QED
  BY <1>3, <1>4

\* With one goroutine saving and a file system that refuses nothing, a start of
\* the program would at any moment find exactly the last save to succeed.
THEOREM LoadIsCurrent ==
  ASSUME Alone
  PROVE  Spec => []LoadFindsLastSave
<1>1. LoadInv /\ [Next]_vars => LoadInv'
  BY LoadInvStep
<1>2. LoadInv => LoadFindsLastSave
  BY DEF LoadInv
<1> QED
  BY <1>1, <1>2, LoadInvInit, PTL DEF Spec

-----------------------------------------------------------------------------
\* The block rules of the last save, and of a program that has saved none.
SavedBlock == IF last = Missing THEN {} ELSE last.block

\* A goroutine that saves has read the block rules that are in force, and has set
\* none since; one that does nothing has left them as they were last saved.
RestInv ==
    ~ faulty =>
        /\ ~ up => \A s \in Savers : pc[s] = "idle"
        /\ up => \A s \in Savers :
              /\ pc[s] = "idle" => mem.block = SavedBlock
              /\ pc[s] \in {"filter", "open", "write", "stat", "backup", "replace"} =>
                     snap[s].block = mem.block

LEMMA RestStep == Alone /\ LoadInv /\ RestInv /\ [Next]_vars => RestInv'
<1> SUFFICES ASSUME Alone, LoadInv, RestInv, [Next]_vars, ~ faulty PROVE RestInv'
  BY FaultyStays DEF RestInv
<1>a. PICK w : Savers = {w}
  BY DEF Alone
<1>b. TypeOK /\ Loaded = last /\ faulty' = faulty /\ \A s \in Savers : pc[s] # "restore"
  BY FaultyStays DEF LoadInv, SaveInv, LoadFindsLastSave
<1> USE RulesAssumption, <1>a, <1>b DEF TypeOK, RestInv, SavedBlock, disk, Labels
<1>1. ASSUME NEW s \in Savers,
             Set(s) \/ SetByKind(s) \/ AddRead(s) \/ AddSet(s) \/ ImportBlock(s) \/ ImportFilter(s)
      PROVE  RestInv'
  BY <1>1 DEF Set, SetByKind, AddRead, AddSet, ImportBlock, ImportFilter, Calls, Goto
<1>2. ASSUME NEW s \in Savers, SetFilter(s) PROVE RestInv'
  <2>1. mem'.block = mem.block
    BY <1>2 DEF SetFilter, Configs
  <2> QED
    BY <1>2, <2>1 DEF SetFilter, Calls
<1>3. ASSUME NEW s \in Savers, SnapshotBlock(s) PROVE RestInv'
  <2>1. snap'[s].block = mem.block
    BY <1>3 DEF SnapshotBlock, Configs
  <2> QED
    BY <1>3, <2>1 DEF SnapshotBlock, Goto
<1>4. ASSUME NEW s \in Savers, SnapshotFilter(s) PROVE RestInv'
  <2>1. snap'[s].block = snap[s].block
    BY <1>4 DEF SnapshotFilter, Configs
  <2> QED
    BY <1>4, <2>1 DEF SnapshotFilter, Goto
<1>5. ASSUME NEW s \in Savers, Open(s) \/ Write(s) \/ Stat(s) \/ BackUp(s) PROVE RestInv'
  BY <1>5 DEF Open, Write, Stat, BackUp, Goto
<1>6. ASSUME NEW s \in Savers, Replace(s) PROVE RestInv'
  <2>1. CASE pc' = [pc EXCEPT ![s] = "restore"] /\ UNCHANGED <<snap, last>>
    BY <1>6, <2>1 DEF Replace
  <2>2. CASE last' = snap[s] /\ Idle(s)
    <3>1. /\ up' = up /\ mem' = mem /\ pc[s] = "replace" /\ pc'[s] = "idle"
          /\ last' = snap[s] /\ snap[s] \in Configs
      BY <1>6, <2>2 DEF Replace, Idle, Goto
    <3> QED
      BY <3>1
  <2> QED
    BY <1>6, <2>1, <2>2 DEF Replace, Goto
<1>7. CASE Crash
  BY <1>7 DEF Crash
<1>8. CASE Startup
  <2>1. mem'.block = IF Loaded = Missing THEN {} ELSE Loaded.block
    BY <1>8 DEF Startup, Default, Applied
  <2> QED
    BY <1>8, <2>1 DEF Startup
<1>9. CASE UNCHANGED vars
  BY <1>9 DEF vars
<1>10. \A s \in Savers : ~ Restore(s)
  BY DEF Restore
<1> QED
  BY <1>1, <1>2, <1>3, <1>4, <1>5, <1>6, <1>7, <1>8, <1>9, <1>10 DEF Next, Saver

\* When the one goroutine that calls the setters has returned, and nothing refuses,
\* the block rules in force are those a start would put in force: no setter's
\* change stays in memory only.
THEOREM RestIsSaved ==
  ASSUME Alone
  PROVE  Spec => []AtRestSaved
<1>1. Init => RestInv
  BY DEF Init, RestInv, SavedBlock, Default
<1>2. LoadInv /\ [Next]_vars => LoadInv'
  BY LoadInvStep
<1>3. LoadInv /\ RestInv /\ [Next]_vars => RestInv'
  BY RestStep
<1>4. LoadInv /\ RestInv => AtRestSaved
  BY DEF Alone, LoadInv, LoadFindsLastSave, RestInv, SavedBlock, AtRestSaved
<1> QED
  BY <1>1, <1>2, <1>3, <1>4, LoadInvInit, PTL DEF Spec
=============================================================================
