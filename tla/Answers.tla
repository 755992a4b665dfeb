-------------------------------- MODULE Answers --------------------------------
(***************************************************************************)
(* What the window is not told of its calls.  The bindings of app_*.go give *)
(* a call no deadline, and neither do the commands of adb they run         *)
(* (android_adb.go, adb_interceptor.go), the locks they wait for            *)
(* (mobile_api.go holds one while it writes to a phone), or the proxy they *)
(* wait to be stopped: a call may be left without an answer for ever.       *)
(***************************************************************************)

\* In this behaviour every call of the window is answered in the end.  It never changes;
\* where it is false some calls are answered and others are not.
VARIABLE answered
=============================================================================
