------------------------- MODULE UserProfileRecovery -------------------------
(***************************************************************************)
(* What the send dialog does after the user profiles have been written     *)
(* (app/user-profile-recovery.ts): wait for the restart, offer "Reconnect  *)
(* & Sync", reconnect and Compare.  The class has no effect but its timers *)
(* and two callbacks, so each operation is a function from the recovery    *)
(* before it to the one after it; the callbacks are the caller's.          *)
(***************************************************************************)

Phases == {"none", "waiting", "ready", "syncing", "success", "failed"}
Timers == {"countdown", "connect", "result"}

\* home: the site settings its reconnect callback has captured.
Recoveries(Site) == [phase : Phases, timers : SUBSET Timers, home : Site]

\* Before the first start; stop clears the timers, and the page drops a
\* recovery that it stops.
NoRecovery(site) == [phase |-> "none", timers |-> {}, home |-> site]

Started(site) == [phase |-> "waiting", timers |-> {"countdown"}, home |-> site]

BecomesReady(r) == [r EXCEPT !.phase = "ready", !.timers = @ \ {"countdown"}]

CanSync(r) == r.phase \in {"ready", "failed"}

Syncs(r) == [r EXCEPT !.phase = "syncing", !.timers = {"connect"}]

\* Faulty variant: the result timer is not armed.
EstablishedUntimed(r) ==
    IF r.phase = "syncing" THEN [r EXCEPT !.timers = {}] ELSE r

\* connectionEstablished: the Compare has a time of its own.
Established(r) ==
    IF r.phase = "syncing" THEN [r EXCEPT !.timers = {"result"}] ELSE r

\* fail, which the timers and reconnectFailed lead to.
Fails(r) ==
    IF r.phase = "syncing" THEN [r EXCEPT !.phase = "failed", !.timers = {}] ELSE r

\* Faulty variant: an answer counts in every phase.
ComparedAnytime(r, state) ==
    IF state \in {"match", "different"}
    THEN [r EXCEPT !.phase = "success", !.timers = {}]
    ELSE Fails(r)

\* compareResult: match and different both show the read-back took place.
Compared(r, state) ==
    IF r.phase = "syncing" /\ state \in {"match", "different"}
    THEN [r EXCEPT !.phase = "success", !.timers = {}]
    ELSE Fails(r)

=============================================================================
