---------------------------- MODULE MCCredentials ----------------------------
(* Small instances for Credentials.                                        *)
EXTENDS Credentials, TLC

CONSTANTS p1, p2, app1, app2, near, far

OneProc == {p1}
TwoProcs == {p1, p2}
OneApp == {app1}
TwoApps == {app1, app2}
OneHost == {near}
TwoHosts == {near, far}
ProcSymmetry == Permutations(Procs)

Empty == {EmptyFile}
Stocked == {[EmptyFile EXCEPT !.app = app1, !.sessions = {near}]}

AllCommands == {"init", "login", "logout", "call"}
CallsAndLogout == {"login", "call", "logout"}

AllOutcomes == {"ok", "failed", "lost"}
OkOrFailed == {"ok", "failed"}
AllFaults == {"killed", "disk"}
Always == {TRUE}
Sometimes == BOOLEAN
=============================================================================
