------------------------------ MODULE RulesFile ------------------------------
(***************************************************************************)
(* The rules of the interceptors, in memory and in rules.json: the setters *)
(* of app_rules.go and of the mobile API, and RulesService of              *)
(* internal/services/rules.go, whose Save writes a temporary file, rotates *)
(* rules.json to rules.json.bak and renames the temporary file into place, *)
(* and whose Load falls back to the backup.                                *)
(*                                                                         *)
(* Every setter runs in the goroutine of its caller, and Save takes no     *)
(* lock.  Two kinds of rules stand for the ten: the block rules, a list    *)
(* that Load and ImportRules apply when it is not empty, and the host      *)
(* filter, which they always apply.  A rule list is a set.  A configuration*)
(* is written whole or it does not parse ("torn").                         *)
(***************************************************************************)
EXTENDS Naturals

CONSTANTS
    Savers,    \* goroutines that call the setters
    Rules,     \* block rules
    Hosts,     \* hosts the filter may list
    Ops,       \* the operations they call
    MaxCrashes,\* crashes of one behaviour (bound)
    Missing,   \* what a name that names no file holds
    Torn       \* what a file that does not parse holds

Configs == [block : SUBSET Rules, filter : SUBSET Hosts]
AllOps == {"set", "filter", "add", "import"}

ASSUME RulesAssumption ==
    /\ Ops \subseteq AllOps /\ MaxCrashes \in Nat
    /\ Missing \notin Configs /\ Torn \notin Configs /\ Missing # Torn

VARIABLES
    up,      \* the program runs
    mem,     \* the rules the interceptors apply
    files,   \* what each name of the data directory holds
    pc,      \* per goroutine: where it is
    snap,    \* per goroutine: the rules it has read, or was given
    fd,      \* per goroutine: the name of the file it has open
    last,    \* what the last Save to succeed wrote
    crashes,
    faulty   \* in this behaviour the file system may refuse to open, write or
             \* rename a file

vars == <<up, mem, files, pc, snap, fd, last, crashes, faulty>>

Names  == {"rules.json", "rules.json.bak", ".rules.json.tmp"}
Final  == "rules.json"
Backup == "rules.json.bak"
Temp   == ".rules.json.tmp"

Labels == {"idle", "add", "apply", "block", "filter", "open", "write", "stat",
           "backup", "replace", "restore"}

\* NewHostFilter lists hosts of its own; no other kind starts with rules.
Default == [block |-> {}, filter |-> Hosts]
Blank == [block |-> {}, filter |-> {}]

Init ==
    /\ up = TRUE /\ mem = Default
    /\ files = [n \in Names |-> Missing]
    /\ pc = [s \in Savers |-> "idle"]
    /\ snap = [s \in Savers |-> Blank]
    /\ fd = [s \in Savers |-> "none"]
    /\ last = Missing /\ crashes = 0
    /\ faulty \in BOOLEAN

Goto(s, l) == pc' = [pc EXCEPT ![s] = l]
Idle(s) ==
    /\ Goto(s, "idle")
    /\ snap' = [snap EXCEPT ![s] = Blank]
Calls(s, o) == up /\ pc[s] = "idle" /\ o \in Ops
disk == <<files, fd, last>>

-----------------------------------------------------------------------------
(* The setters of app_rules.go: SetRules of an interceptor, and then Save. *)
Set(s) ==
    /\ Calls(s, "set")
    /\ \E l \in SUBSET Rules : mem' = [mem EXCEPT !.block = l]
    /\ Goto(s, "block")
    /\ UNCHANGED <<up, snap, disk, crashes, faulty>>

\* The mobile API's setter of every kind, the only one to save a new filter.
SetByKind(s) ==
    /\ Calls(s, "set")
    /\ \E h \in SUBSET Hosts : mem' = [mem EXCEPT !.filter = h]
    /\ Goto(s, "block")
    /\ UNCHANGED <<up, snap, disk, crashes, faulty>>

\* SetHostFilterConfig, AddHostToWhitelist and AddHostToBlacklist do not save.
SetFilter(s) ==
    /\ Calls(s, "filter")
    /\ \E h \in SUBSET Hosts : mem' = [mem EXCEPT !.filter = h]
    /\ UNCHANGED <<up, pc, snap, disk, crashes, faulty>>

\* AddBlockRule reads the list, and later sets it with the new rule appended.
AddRead(s) ==
    /\ Calls(s, "add")
    /\ Goto(s, "add")
    /\ snap' = [snap EXCEPT ![s].block = mem.block]
    /\ UNCHANGED <<up, mem, disk, crashes, faulty>>

AddSet(s) ==
    /\ pc[s] = "add"
    /\ \E r \in Rules : mem' = [mem EXCEPT !.block = snap[s].block \cup {r}]
    /\ Goto(s, "block")
    /\ UNCHANGED <<up, snap, disk, crashes, faulty>>

\* Apply: a list that is empty leaves the interceptor's rules as they are.
Applied(list, old) == IF list # {} THEN list ELSE old

ImportBlock(s) ==
    /\ Calls(s, "import")
    /\ \E c \in Configs :
          /\ snap' = [snap EXCEPT ![s] = c]
          /\ mem' = [mem EXCEPT !.block = Applied(c.block, @)]
    /\ Goto(s, "apply")
    /\ UNCHANGED <<up, disk, crashes, faulty>>

\* Mutant: the import is not saved.
ImportUnsaved(s) ==
    /\ pc[s] = "apply"
    /\ mem' = [mem EXCEPT !.filter = snap[s].filter]
    /\ Idle(s)
    /\ UNCHANGED <<up, disk, crashes, faulty>>

ImportFilter(s) ==
    /\ pc[s] = "apply"
    /\ mem' = [mem EXCEPT !.filter = snap[s].filter]
    /\ Goto(s, "block")
    /\ UNCHANGED <<up, snap, disk, crashes, faulty>>

-----------------------------------------------------------------------------
(* Save: the snapshot, one interceptor after another.                      *)
SnapshotBlock(s) ==
    /\ pc[s] = "block"
    /\ snap' = [snap EXCEPT ![s].block = mem.block]
    /\ Goto(s, "filter")
    /\ UNCHANGED <<up, mem, disk, crashes, faulty>>

SnapshotFilter(s) ==
    /\ pc[s] = "filter"
    /\ snap' = [snap EXCEPT ![s].filter = mem.filter]
    /\ Goto(s, "open")
    /\ UNCHANGED <<up, mem, disk, crashes, faulty>>

(* os.Rename: a file that was open stays open under its new name, and one  *)
(* that is replaced no longer has a name.                                  *)
Rename(from, to) ==
    /\ files' = [files EXCEPT ![from] = Missing, ![to] = files[from]]
    /\ fd' = [s \in Savers |-> IF fd[s] = from THEN to
                               ELSE IF fd[s] = to THEN "none" ELSE fd[s]]

\* Mutant: rules.json itself is truncated and written.
OpenInPlace(s) ==
    /\ pc[s] = "open"
    /\ files' = [files EXCEPT ![Final] = Torn]
    /\ fd' = [fd EXCEPT ![s] = Final]
    /\ Goto(s, "write")
    /\ UNCHANGED <<up, mem, snap, last, crashes, faulty>>

\* os.WriteFile creates or truncates the file...
Open(s) ==
    /\ pc[s] = "open"
    /\ \/ /\ files' = [files EXCEPT ![Temp] = Torn]
          /\ fd' = [fd EXCEPT ![s] = Temp]
          /\ Goto(s, "write")
          /\ UNCHANGED snap
       \/ faulty /\ Idle(s) /\ UNCHANGED <<files, fd>>
    /\ UNCHANGED <<up, mem, last, crashes, faulty>>

\* Mutant: the file is not closed.
WriteLeavesOpen(s) ==
    /\ pc[s] = "write"
    /\ files' = [files EXCEPT ![Temp] = snap[s]]
    /\ Goto(s, "stat")
    /\ UNCHANGED <<up, mem, snap, fd, last, crashes, faulty>>

\* ...and writes it.  Over what another goroutine has written in the meantime,
\* a shorter text leaves the end of the longer one.
Write(s) ==
    /\ pc[s] = "write"
    /\ \/ /\ \/ fd[s] = "none" /\ UNCHANGED files
             \/ fd[s] # "none" /\ files' = [files EXCEPT ![fd[s]] = snap[s]]
             \/ /\ fd[s] # "none" /\ files[fd[s]] # Torn
                /\ files' = [files EXCEPT ![fd[s]] = Torn]
          /\ Goto(s, "stat")
          /\ UNCHANGED snap
       \/ faulty /\ Idle(s) /\ UNCHANGED files
    /\ fd' = [fd EXCEPT ![s] = "none"]
    /\ UNCHANGED <<up, mem, last, crashes, faulty>>

Stat(s) ==
    /\ pc[s] = "stat"
    /\ Goto(s, IF files[Final] # Missing THEN "backup" ELSE "replace")
    /\ UNCHANGED <<up, mem, snap, disk, crashes, faulty>>

\* The result of this rename is ignored.
BackUp(s) ==
    /\ pc[s] = "backup"
    /\ \/ files[Final] # Missing /\ Rename(Final, Backup)
       \/ (files[Final] = Missing \/ faulty) /\ UNCHANGED <<files, fd>>
    /\ Goto(s, "replace")
    /\ UNCHANGED <<up, mem, snap, last, crashes, faulty>>

Replace(s) ==
    /\ pc[s] = "replace"
    /\ \/ /\ files[Temp] # Missing
          /\ Rename(Temp, Final)
          /\ last' = snap[s]
          /\ Idle(s)
       \/ /\ files[Temp] = Missing \/ faulty
          /\ Goto(s, "restore")
          /\ UNCHANGED <<snap, disk>>
    /\ UNCHANGED <<up, mem, crashes, faulty>>

Restore(s) ==
    /\ pc[s] = "restore"
    /\ \/ files[Backup] # Missing /\ Rename(Backup, Final)
       \/ (files[Backup] = Missing \/ faulty) /\ UNCHANGED <<files, fd>>
    /\ Idle(s)
    /\ UNCHANGED <<up, mem, last, crashes, faulty>>

-----------------------------------------------------------------------------
Parses(n) == files[n] \notin {Missing, Torn}

\* Mutant: no backup is read.
LoadedPrimaryOnly == IF Parses(Final) THEN files[Final] ELSE Missing

\* loadRulesFile: what a start of the program would find, Missing if nothing.
Loaded ==
    IF Parses(Final) THEN files[Final]
    ELSE IF Parses(Backup) THEN files[Backup]
    ELSE Missing

\* The process ends, between any two system calls of a save.
Crash ==
    /\ up /\ crashes < MaxCrashes
    /\ up' = FALSE /\ crashes' = crashes + 1
    /\ mem' = Default
    /\ pc' = [s \in Savers |-> "idle"]
    /\ snap' = [s \in Savers |-> Blank]
    /\ fd' = [s \in Savers |-> "none"]
    /\ UNCHANGED <<files, last, faulty>>

\* startup(): the interceptors are new, and Load applies what it finds.
Startup ==
    /\ ~up
    /\ up' = TRUE
    /\ IF Loaded = Missing THEN mem' = Default
       ELSE mem' = [block |-> Applied(Loaded.block, Default.block),
                    filter |-> Loaded.filter]
    /\ UNCHANGED <<pc, snap, disk, crashes, faulty>>

Saver(s) ==
    \/ Set(s) \/ SetByKind(s) \/ SetFilter(s) \/ AddRead(s) \/ AddSet(s)
    \/ ImportBlock(s) \/ ImportFilter(s)
    \/ SnapshotBlock(s) \/ SnapshotFilter(s) \/ Open(s) \/ Write(s) \/ Stat(s)
    \/ BackUp(s) \/ Replace(s) \/ Restore(s)

Next == (\E s \in Savers : Saver(s)) \/ Crash \/ Startup

Spec == Init /\ [][Next]_vars

-----------------------------------------------------------------------------
(* Types, and: a goroutine holds a file open only while it writes it.      *)
TypeOK ==
    /\ up \in BOOLEAN /\ mem \in Configs
    /\ files \in [Names -> Configs \cup {Missing, Torn}]
    /\ pc \in [Savers -> Labels]
    /\ snap \in [Savers -> Configs]
    /\ fd \in [Savers -> Names \cup {"none"}]
    /\ \A s \in Savers : fd[s] # "none" => pc[s] = "write"
    /\ last \in Configs \cup {Missing}
    /\ crashes \in 0..MaxCrashes /\ faulty \in BOOLEAN

(* Neither rules.json nor its backup is ever a file that does not parse:   *)
(* whenever the process ends, it has left whole files (Save's promise).    *)
NeverTruncated == Torn \notin {files[Final], files[Backup]}

(* While the file system refuses nothing, at every moment, in the middle of*)
(* a save too, a start of the program would find exactly what the last save*)
(* to succeed has written.                                                 *)
LoadFindsLastSave == ~ faulty => Loaded = last

(* And when every setter has returned, the block rules in force are those  *)
(* that a start of the program would put in force: no setter's change is   *)
(* only in memory, or only on disk.                                        *)
AtRestSaved ==
    ~ faulty /\ up /\ (\A s \in Savers : pc[s] = "idle") =>
        mem.block = (IF Loaded = Missing THEN {} ELSE Loaded.block)
=============================================================================
