-------------------------- MODULE RevisionRegister --------------------------
(***************************************************************************)
(* What the workspace store promises: a register of a revision and a       *)
(* workspace, changed by one atomic compare-and-set at a time.  A request  *)
(* that is answered `saved` took effect once, at the revision it expected; *)
(* one answered otherwise took none.  WorkspaceStore implements this.      *)
(***************************************************************************)
EXTENDS Naturals

CONSTANTS
    Slots,       \* places for requests under way
    Workspaces,  \* workspaces a request can carry
    NoWorkspace  \* null

VARIABLES
    file,        \* the register: [revision, workspace]
    request      \* per slot [state, workspace, expected]

vars == <<file, request>>

Unused == [state |-> "none", workspace |-> NoWorkspace, expected |-> 0]

Init ==
    /\ file = [revision |-> 0, workspace |-> NoWorkspace]
    /\ request = [s \in Slots |-> Unused]

Answered(r, state) ==
    [state |-> state, workspace |-> r.workspace, expected |-> r.expected]

Answer(s, state) ==
    /\ request[s].state = "open"
    /\ request' = [request EXCEPT ![s] = Answered(request[s], state)]

\* A request may carry any workspace and expect any revision.
Open(s) ==
    /\ request[s].state = "none"
    /\ request'[s] \in [state : {"open"}, workspace : Workspaces, expected : Nat]
    /\ request' = [request EXCEPT ![s] = request'[s]]
    /\ UNCHANGED file

Save(s) ==
    /\ file.revision = request[s].expected
    /\ Answer(s, "saved")
    /\ file' = [revision |-> request[s].expected + 1,
                workspace |-> request[s].workspace]

Refuse(s) ==
    /\ file.revision # request[s].expected
    /\ Answer(s, "conflict")
    /\ UNCHANGED file

\* One failure, or a restart that fails many requests together.
Fail(S) ==
    /\ \A s \in S : request[s].state = "open"
    /\ request' = [s \in Slots |->
                      IF s \in S THEN Answered(request[s], "failed")
                      ELSE request[s]]
    /\ UNCHANGED file

Close(s) ==
    /\ request[s].state \notin {"none", "open"}
    /\ request' = [request EXCEPT ![s] = Unused]
    /\ UNCHANGED file

Next ==
    \/ \E s \in Slots : Open(s) \/ Save(s) \/ Refuse(s) \/ Close(s)
    \/ \E S \in SUBSET Slots : Fail(S)

Spec == Init /\ [][Next]_vars
=============================================================================
