------------------------------ MODULE Transfer ------------------------------
(***************************************************************************)
(* Traffic that leaves the window as a file and comes back as one:         *)
(* utils/exportHelper.ts and common/ExportModal.tsx.                       *)
(*                                                                         *)
(* A HAR file has no place for some of what the window knows of an         *)
(* exchange, the JSON file holds all of it but is read field by field, and *)
(* what is read is mended first, as a text: a comma before a closing       *)
(* bracket goes, inside of a body too.  Reading a file is awaited, and     *)
(* replaces whatever was captured meanwhile.                               *)
(*                                                                         *)
(* Files of other programs, CSV and shell scripts, which are written and   *)
(* never read, are left out but for their being written.                   *)
(***************************************************************************)
EXTENDS Naturals, Sequences, FiniteSets, Subsequences

CONSTANTS
    Shapes,      \* the exchanges that may be captured, by what a file tells apart
    MaxTraffic,  \* exchanges listed (bound)
    MaxFiles     \* files written (bound)

Formats == {"har", "json", "csv", "sh"}
Scopes  == {"all", "domains"}

\* `own` says that the port is not the scheme's, `many` that a header has several
\* values, `commas` how many commas the body has before a bracket, `known` that the
\* id, the heart and the frames are those of the window.
Shape == [host : STRING, own : BOOLEAN, many : BOOLEAN, commas : Nat,
          status : Nat, body : {"text", "binary", "mangled"}, known : BOOLEAN]

ASSUME TransferAssumption ==
    Shapes \subseteq Shape /\ {MaxTraffic, MaxFiles} \subseteq Nat

Hosts == {s.host : s \in Shapes}
Pending(r) == r.status = 0

VARIABLES
    traffic,  \* requests of the store
    files,    \* files written: format, content, and the exchanges they are of (history)
    reading,  \* files being read
    dialogOpen, scope, selectedDomains

dialogVars   == <<dialogOpen, scope, selectedDomains>>
transferVars == <<traffic, files, reading, dialogVars>>

-----------------------------------------------------------------------------
(* Writing and reading                                                     *)

\* generateHarJson: values of a header are joined, a binary body is base64, the
\* status of an exchange without response is 0; the port is in the URL only.
HarEntry(r) == [host |-> r.host, own |-> r.own, commas |-> r.commas, status |-> r.status,
                base64 |-> r.body = "binary", mangled |-> r.body = "mangled"]

\* JSON.stringify
JsonItem(r) == r

Written(format, S) == [i \in DOMAIN S |-> IF format = "har" THEN HarEntry(S[i]) ELSE JsonItem(S[i])]

\* One comma before a bracket is stripped; base64 has none.
Mended(n) == IF n = 0 THEN 0 ELSE n - 1

\* Mutant: the body is not decoded.
FromHarRaw(e) ==
    [host |-> e.host, own |-> FALSE, many |-> FALSE, known |-> FALSE,
     commas |-> IF e.base64 THEN e.commas ELSE Mended(e.commas),
     status |-> IF e.status = 0 THEN 200 ELSE e.status,
     body   |-> IF e.base64 \/ e.mangled THEN "mangled" ELSE "text"]

\* convertHarEntryToRequest: the decoded body is a text from then on, no status is
\* 200, and the port is the scheme's.
FromHar(e) ==
    [host |-> e.host, own |-> FALSE, many |-> FALSE, known |-> FALSE,
     commas |-> IF e.base64 THEN e.commas ELSE Mended(e.commas),
     status |-> IF e.status = 0 THEN 200 ELSE e.status,
     body   |-> IF e.mangled THEN "mangled" ELSE "text"]

\* normalizeRawRequest: everything but the heart, the frames and the bytes of a
\* binary body, of which the text that stood for them remains.
FromJson(r) ==
    [r EXCEPT !.known = FALSE, !.commas = Mended(@),
              !.body = IF @ = "binary" THEN "mangled" ELSE @]

\* parseHarOrJsonContent
Parse(format, content) ==
    [i \in DOMAIN content |-> IF format = "har" THEN FromHar(content[i]) ELSE FromJson(content[i])]

Readable(f) == f.format \in {"har", "json"}

-----------------------------------------------------------------------------
TransferTypeOK ==
    /\ traffic \in Seq(Shape) /\ Len(traffic) <= MaxTraffic
    /\ Len(files) <= MaxFiles
    /\ \A n \in DOMAIN files :
          /\ files[n].format \in Formats /\ files[n].of \in Seq(Shape)
          /\ DOMAIN files[n].content = DOMAIN files[n].of
    /\ reading \subseteq DOMAIN files
    /\ dialogOpen \in BOOLEAN /\ scope \in Scopes
    /\ selectedDomains \subseteq Hosts

TransferInit ==
    /\ traffic = <<>> /\ files = <<>> /\ reading = {}
    /\ dialogOpen = FALSE /\ scope = "all" /\ selectedDomains = {}

-----------------------------------------------------------------------------
(* Traffic                                                                 *)

\* addRequest, of an exchange as it is by the time a file is written.
CaptureOne(s) ==
    /\ s \in Shapes /\ Len(traffic) < MaxTraffic
    /\ traffic' = <<s>> \o traffic
    /\ UNCHANGED <<files, reading, dialogVars>>

ClearTraffic ==
    /\ traffic # <<>>
    /\ traffic' = <<>>
    /\ UNCHANGED <<files, reading, dialogVars>>

-----------------------------------------------------------------------------
(* Export                                                                  *)

\* exportRequests
WriteFile(format, S) ==
    /\ S # <<>> /\ Len(files) < MaxFiles
    /\ files' = Append(files, [format |-> format, content |-> Written(format, S), of |-> S])

\* The menu of the toolbar.
QuickExport(format) ==
    /\ ~ dialogOpen
    /\ WriteFile(format, traffic)
    /\ UNCHANGED <<traffic, reading, dialogVars>>

Available == {traffic[i].host : i \in DOMAIN traffic}

\* The dialog is mounted with all domains ticked.  One that comes later is not.
OpenExport ==
    /\ ~ dialogOpen
    /\ dialogOpen' = TRUE /\ scope' = "all"
    /\ selectedDomains' = Available
    /\ UNCHANGED <<traffic, files, reading>>

SetScope(sc) ==
    /\ dialogOpen /\ sc # scope
    /\ scope' = sc
    /\ UNCHANGED <<traffic, files, reading, dialogOpen, selectedDomains>>

\* toggleDomain; only a domain that has traffic has a box.
ToggleBox(d) ==
    /\ dialogOpen /\ scope = "domains" /\ d \in Available
    /\ selectedDomains' = IF d \in selectedDomains THEN selectedDomains \ {d}
                          ELSE selectedDomains \cup {d}
    /\ UNCHANGED <<traffic, files, reading, dialogOpen, scope>>

\* selectAllDomains, deselectAllDomains
SetAllBoxes(all) ==
    /\ dialogOpen /\ scope = "domains"
    /\ selectedDomains' = IF all THEN Available ELSE {}
    /\ UNCHANGED <<traffic, files, reading, dialogOpen, scope>>

\* filteredRequests, of the traffic there is at the click.
Chosen ==
    Subsequence(traffic, {i \in DOMAIN traffic : scope = "all" \/ traffic[i].host \in selectedDomains})

\* handleExport: a failure is caught one level below, so the dialog closes anyway.
ExportChosen(format) ==
    /\ dialogOpen /\ Chosen # <<>>
    /\ WriteFile(format, Chosen) \/ UNCHANGED files
    /\ dialogOpen' = FALSE
    /\ UNCHANGED <<traffic, reading, scope, selectedDomains>>

CloseExport ==
    /\ dialogOpen
    /\ dialogOpen' = FALSE
    /\ UNCHANGED <<traffic, files, reading, scope, selectedDomains>>

-----------------------------------------------------------------------------
(* Import                                                                  *)

\* importHarOrJsonFile: the file is chosen, and read.
PickFile(n) ==
    /\ n \in DOMAIN files /\ Readable(files[n])
    /\ reading' = reading \cup {n}
    /\ UNCHANGED <<traffic, files, dialogVars>>

\* What was captured since is gone, with all the rest.
FileRead(n) ==
    /\ n \in reading
    /\ reading' = reading \ {n}
    /\ traffic' = Parse(files[n].format, files[n].content)
    /\ UNCHANGED <<files, dialogVars>>

FileFails(n) ==
    /\ n \in reading
    /\ reading' = reading \ {n}
    /\ UNCHANGED <<traffic, files, dialogVars>>

TransferNext ==
    \/ \E s \in Shapes : CaptureOne(s)
    \/ ClearTraffic \/ OpenExport \/ CloseExport
    \/ \E f \in Formats : QuickExport(f) \/ ExportChosen(f)
    \/ \E sc \in Scopes : SetScope(sc)
    \/ \E d \in Hosts : ToggleBox(d)
    \/ \E all \in BOOLEAN : SetAllBoxes(all)
    \/ \E n \in DOMAIN files : PickFile(n) \/ FileRead(n) \/ FileFails(n)

TransferSpec == TransferInit /\ [][TransferNext]_transferVars

-----------------------------------------------------------------------------
(* What the user may rely on                                               *)

\* What is read back is every exchange, in its order, with its status and body; a
\* JSON file keeps ports, headers and what is still pending too.  Excepted are the
\* bodies with a comma before a bracket, and in JSON the binary ones.
ComesBack ==
    \A n \in DOMAIN files : Readable(files[n]) =>
        LET f == files[n]  back == Parse(f.format, f.content) IN
        /\ Len(back) = Len(f.of)
        /\ \A i \in DOMAIN back :
              LET was == f.of[i]  is == back[i] IN
              /\ is.host = was.host
              /\ ~ Pending(was) => is.status = was.status
              /\ was.commas = 0 => is.commas = 0
              /\ was.body = "text" => is.body = "text"
              /\ f.format = "har"  => (was.body = "binary" => is.body = "text")
              /\ f.format = "json" => is.own = was.own /\ is.many = was.many
                                      /\ is.status = was.status

\* A second round trip changes nothing more: what an import loses it loses once.
SettledByOneTrip ==
    \A n \in DOMAIN files : Readable(files[n]) =>
        LET once == Parse(files[n].format, files[n].content) IN
        (\A i \in DOMAIN once : once[i].commas = 0) =>
            Parse(files[n].format, Written(files[n].format, once)) = once

TransferIsTrue == ComesBack /\ SettledByOneTrip
=============================================================================
