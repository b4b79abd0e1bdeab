----------------------------- MODULE Supervisor -----------------------------
(***************************************************************************)
(* server/start-all.mjs: the bridge and the web host as one process group. *)
(* Each of the two shuts down on SIGTERM (bridge/server.mjs and            *)
(* server/host.mjs), cleanly or at its own deadline.                       *)
(***************************************************************************)
EXTENDS Integers, FiniteSets

Children == {"bridge", "web"}

VARIABLES
    child,     \* the state of each child process
    children,  \* the map of children not yet seen to exit
    stopping,  \* shuttingDown
    exitCode,  \* the code the supervisor will exit with
    killDue,   \* whether the timer of the escalation runs
    supervisor \* the supervisor itself: "running" or "exited"

supervisorVars == <<child, children, stopping, exitCode, killDue, supervisor>>

Codes == {0, 1}
Running == {"running", "terminating", "hung"}
Exits == {[state |-> "exited", code |-> x] : x \in Codes \cup {-1}}   \* -1: by a signal
ChildStates == {[state |-> s, code |-> 0] : s \in Running} \cup Exits
At(s) == [state |-> s, code |-> 0]

SupervisorTypeOK ==
    /\ child \in [Children -> ChildStates] /\ children \subseteq Children
    /\ stopping \in BOOLEAN /\ exitCode \in Codes /\ killDue \in BOOLEAN
    /\ supervisor \in {"running", "exited"}

SupervisorInit ==
    /\ child = [c \in Children |-> At("running")] /\ children = Children
    /\ stopping = FALSE /\ exitCode = 0 /\ killDue = FALSE
    /\ supervisor = "running"

-----------------------------------------------------------------------------
Signalled(c) == IF child[c].state = "running" THEN At("terminating") ELSE child[c]

\* shutdown: with no child left the supervisor exits, otherwise those there
\* are told to end.
Stop(left) ==
    /\ stopping' = TRUE
    /\ IF left = {} THEN supervisor' = "exited" /\ UNCHANGED <<child, killDue>>
       ELSE /\ child' = [c \in Children |-> IF c \in left THEN Signalled(c) ELSE child[c]]
            /\ killDue' = TRUE
            /\ UNCHANGED supervisor

Signal ==
    /\ supervisor = "running" /\ ~stopping
    /\ Stop(children)
    /\ UNCHANGED <<children, exitCode>>

\* The exit event of a child.
SeeExit(c) ==
    /\ supervisor = "running"
    /\ c \in children /\ child[c].state = "exited"
    /\ children' = children \ {c}
    /\ IF stopping
       THEN /\ supervisor' = IF children' = {} THEN "exited" ELSE "running"
            /\ UNCHANGED <<child, stopping, exitCode, killDue>>
       ELSE /\ exitCode' = IF child[c].code = -1 THEN 1 ELSE child[c].code
            /\ Stop(children')

\* Faulty variant: a child that ignored SIGTERM is asked once more.
EscalateGently ==
    /\ supervisor = "running" /\ killDue
    /\ killDue' = FALSE
    /\ child' = [c \in Children |-> IF c \in children THEN Signalled(c) ELSE child[c]]
    /\ UNCHANGED <<children, stopping, exitCode, supervisor>>

\* The escalation: SIGKILL for those still there.
Escalate ==
    /\ supervisor = "running" /\ killDue
    /\ killDue' = FALSE
    /\ child' = [c \in Children |-> IF c \in children /\ child[c].state # "exited"
                                    THEN [state |-> "exited", code |-> -1] ELSE child[c]]
    /\ UNCHANGED <<children, stopping, exitCode, supervisor>>

-----------------------------------------------------------------------------
(* The children *)

\* A child fails to start (a port in use), crashes or is killed, ...
Crash(c) ==
    /\ child[c].state \in Running
    /\ \E exit \in Exits : child' = [child EXCEPT ![c] = exit]
    /\ UNCHANGED <<children, stopping, exitCode, killDue, supervisor>>

\* ... hangs, so that no signal but SIGKILL ends it, ...
Hang(c) ==
    /\ child[c].state \in {"running", "terminating"}
    /\ child' = [child EXCEPT ![c] = At("hung")]
    /\ UNCHANGED <<children, stopping, exitCode, killDue, supervisor>>

\* ... or ends its shutdown: 0 when all connections closed, 1 at the deadline.
Terminate(c) ==
    /\ child[c].state = "terminating"
    /\ \E x \in Codes : child' = [child EXCEPT ![c] = [state |-> "exited", code |-> x]]
    /\ UNCHANGED <<children, stopping, exitCode, killDue, supervisor>>

SupervisorNext ==
    \/ Signal \/ Escalate
    \/ \E c \in Children : SeeExit(c) \/ Crash(c) \/ Hang(c) \/ Terminate(c)

SupervisorSpec == SupervisorInit /\ [][SupervisorNext]_supervisorVars
SupervisorFairness ==
    /\ WF_supervisorVars(Escalate)
    /\ \A c \in Children : WF_supervisorVars(SeeExit(c))

-----------------------------------------------------------------------------
(* Properties *)

\* One process dying takes the container down, with no process left behind:
\* never a half-working pair, even if the other one hangs.
NoneLeftBehind == supervisor = "exited" => \A c \in Children : child[c].state = "exited"
WholeOrNothing ==
    /\ (\E c \in Children : child[c].state = "exited") ~> supervisor = "exited"
    /\ []NoneLeftBehind
=============================================================================
