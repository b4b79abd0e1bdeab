--------------------------- MODULE OwnedWorkspace ---------------------------
(***************************************************************************)
(* The two forms of the workspace (app/fd4cfg.ts): the tree that is saved, *)
(* site by site with its configurations and their contents, and the view   *)
(* the editor works on, where the content of the active configuration is   *)
(* at the top level and the others keep theirs in a snapshot.              *)
(*                                                                         *)
(* A site is a record with an id, a configuration one with an id and a     *)
(* name; a content is a version number, 0 for an empty one.                *)
(***************************************************************************)
EXTENDS Naturals, Sequences, SequencesExt, Lists

CONSTANT EditsMax   \* bound of the model: contents ever made

Contents == 0..EditsMax
NoContent == EditsMax + 1   \* undefined
Unnamed == "Configuration"  \* the names that canonicalizeAppData makes up

Distinct(s) == \A m, n \in DOMAIN s : s[m] = s[n] => m = n

-----------------------------------------------------------------------------
\* canonicalizeAppData: a site without configurations is given one.
FilledUp(configs, sites) ==
    LET filled[n \in 0..Len(sites)] ==
            IF n = 0 THEN configs
            ELSE LET cs == filled[n - 1]
                     home == sites[n].id
                 IN  IF Has(cs, LAMBDA c : c.siteId = home) THEN cs
                     ELSE Append(cs, [id |-> Largest(cs) + 1, siteId |-> home,
                                      name |-> Unnamed, content |-> 0])
    IN  filled[Len(sites)]

\* canonicalizeAppData: the active configuration has to be one of the site.
ActiveOf(data, configs) ==
    LET mine(c) == c.siteId = data.site.id
        chosen(c) == mine(c) /\ c.id = data.active
    IN  IF Has(configs, chosen) THEN data.active ELSE FirstOf(configs, mine).id

\* canonicalizeAppData.  A configuration of no site is dropped, and one whose
\* ID two sites share goes to both.
Canonical(data) ==
    LET sites == IF Has(data.sites, LAMBDA s : s.id = data.site.id) THEN data.sites
                 ELSE Append(data.sites, data.site)
        configs == FilledUp(data.configs, sites)
        active == ActiveOf(data, configs)
        content(s, c) == IF s.id = data.site.id /\ c.id = active THEN data.live
                         ELSE IF c.content = NoContent THEN 0 ELSE c.content
        owned(s, c) == [id |-> c.id, name |-> c.name, content |-> content(s, c)]
        tree(s) == LET own == Where(configs, LAMBDA c : c.siteId = s.id)
                   IN  [site |-> s, configs |-> [n \in DOMAIN own |-> owned(s, own[n])]]
    IN  [site |-> data.site.id, config |-> active,
         sites |-> [n \in DOMAIN sites |-> tree(sites[n])]]

\* materializeAppData
Materialized(w) ==
    LET home == LET here(t) == t.site.id = w.site
                IN  IF Has(w.sites, here) THEN FirstOf(w.sites, here) ELSE Head(w.sites)
        config == LET here(c) == c.id = w.config
                  IN  IF Has(home.configs, here) THEN FirstOf(home.configs, here)
                      ELSE Head(home.configs)
        active(t, c) == t.site.id = home.site.id /\ c.id = config.id
        view(t, c) == [id |-> c.id, siteId |-> t.site.id, name |-> c.name,
                       content |-> IF active(t, c) THEN NoContent ELSE c.content]
        views(t) == [n \in DOMAIN t.configs |-> view(t, t.configs[n])]
    IN  [site |-> home.site, sites |-> [n \in DOMAIN w.sites |-> w.sites[n].site],
         configs |-> FlattenSeq([n \in DOMAIN w.sites |-> views(w.sites[n])]),
         active |-> config.id, live |-> config.content]

-----------------------------------------------------------------------------
SiteIdsOf(w) == [n \in DOMAIN w.sites |-> w.sites[n].site.id]
ConfigIdsOf(w) ==
    FlattenSeq([n \in DOMAIN w.sites |->
                  [m \in DOMAIN w.sites[n].configs |-> w.sites[n].configs[m].id]])

\* isFlexiDimWorkspace, which the server asks before it saves a workspace and
\* the editor before it restores one.
IsWorkspace(w) ==
    /\ w.sites # <<>> /\ \A n \in DOMAIN w.sites : w.sites[n].configs # <<>>
    /\ Distinct(SiteIdsOf(w)) /\ Distinct(ConfigIdsOf(w))
    /\ \E n \in DOMAIN w.sites :
          /\ w.sites[n].site.id = w.site
          /\ Has(w.sites[n].configs, LAMBDA c : c.id = w.config)
=============================================================================
