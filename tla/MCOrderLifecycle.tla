--------------------------- MODULE MCOrderLifecycle ---------------------------
(***************************************************************************)
(* Instances of OrderLifecycle for TLC: which endpoints each run exercises.*)
(***************************************************************************)
EXTENDS OrderLifecycle, TLC

\* One order at the counter: everybody who may close it, and its money.
DeskEndpoints == {"checkout", "pos", "accept", "status", "staffCancel", "external",
                  "assign", "selfCancel", "adminCancel", "request", "kdsApprove",
                  "adminApprove", "deny", "collect", "message", "crash"}

\* Two orders on the road: assignment, PIN and completion.
DispatchEndpoints == {"pos", "status", "assign", "start", "refreshPin", "bypass",
                      "verifyPin", "complete", "noPin"}

AnswerEndpoints == {"checkout", "accept", "status", "selfCancel", "adminCancel",
                    "request", "kdsApprove", "adminApprove", "collect",
                    "deny", "availability"}

\* The few endpoints that disagree with what the repository says.
RacingCompletions == {"pos", "status", "assign", "start", "bypass", "complete"}
DirectCancel == {"pos", "collect", "status", "staffCancel"}

WorkerSymmetry == Permutations(Workers)
RequestSymmetry == Permutations(Requests)
=============================================================================
