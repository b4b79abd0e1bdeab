----------------------------- MODULE MCAutosave -----------------------------
(* Autosave with a few workspaces; one of them is not storable, and the merge
   of a legacy copy changes what is stored. *)
EXTENDS Autosave

CONSTANTS a, b1, bad, p, q

MCLegacyNone == [x \in Browsers |-> NoWorkspace]
MCLegacyOne == [x \in Browsers |-> IF x = p THEN b1 ELSE NoWorkspace]

\* mergeLegacyBrowserConnectionState: the legacy copy's connection wins.
MCUpgraded(w, l) == IF l # NoWorkspace THEN l ELSE w
=============================================================================
