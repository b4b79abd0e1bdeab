------------------------- MODULE TransferLifecycle -------------------------
(***************************************************************************)
(* What a configuration transfer promises the rest of the bridge, whatever *)
(* frames it takes: it writes only over a link it has not lost, it waits   *)
(* for the controller's restart across lost links, it succeeds only from   *)
(* that wait and only after Enough normal status records heard in it, and  *)
(* it reports one result.  ConfigTransfer implements this.                 *)
(***************************************************************************)
EXTENDS Naturals

CONSTANT Enough  \* normal status records that mean the controller is back

VARIABLES
    stage,   \* ready, writing, resetWait or done
    linked,  \* the transfer has a link to the controller
    heard,   \* records heard in the reset wait, counted up to Enough
    result   \* none, success or failure

vars == <<stage, linked, heard, result>>

Init ==
    /\ stage = "ready"
    /\ linked = TRUE
    /\ heard = 0
    /\ result = "none"

End(how) ==
    /\ stage' = "done"
    /\ result' = how

Begin ==
    /\ stage = "ready"
    /\ stage' = "writing"
    /\ UNCHANGED <<linked, heard, result>>

\* Everything is written; only listening is left.
AwaitReset ==
    /\ stage = "writing"
    /\ stage' = "resetWait"
    /\ heard' = 0
    /\ UNCHANGED <<linked, result>>

Hear ==
    /\ stage = "resetWait" /\ linked
    /\ heard' \in heard + 1 .. Enough
    /\ UNCHANGED <<stage, linked, result>>

\* Losing the link ends a transfer that still had something to write.
Unlink ==
    /\ stage \in {"writing", "resetWait"} /\ linked
    /\ linked' = FALSE
    /\ IF stage = "writing" THEN End("failure") ELSE UNCHANGED <<stage, result>>
    /\ UNCHANGED heard

Relink ==
    /\ stage = "resetWait" /\ ~linked
    /\ linked' = TRUE
    /\ UNCHANGED <<stage, heard, result>>

Succeed ==
    /\ stage = "resetWait" /\ heard = Enough
    /\ End("success")
    /\ UNCHANGED <<linked, heard>>

GiveUp ==
    /\ stage \in {"ready", "writing", "resetWait"}
    /\ End("failure")
    /\ UNCHANGED <<linked, heard>>

Next ==
    \/ Begin \/ AwaitReset \/ Hear \/ Unlink \/ Relink \/ Succeed \/ GiveUp

Spec == Init /\ [][Next]_vars

\* A transfer without a link writes nothing more.
WritesAreLinked == stage = "writing" => linked

\* Success is only ever reported after enough records.
SuccessIsHeard == result = "success" => heard = Enough
=============================================================================
