-------------------------------- MODULE Sites --------------------------------
(***************************************************************************)
(* The sites and configurations of the workspace and the import of an      *)
(* archive (app/page.tsx).  An operation works on the view of the tree     *)
(* workspace and returns another view, which setData turns back into the   *)
(* tree: whatever an operation forgets to put away is lost there.  The     *)
(* state is the view of that tree, as the editor has it.                   *)
(*                                                                         *)
(* Site IDs are numbers, n for FD4-000n and 0 for the empty one of a field *)
(* that was just cleared.  Of its details a site keeps whether they are    *)
(* those of the starter, typed, or of an archive; of its security code     *)
(* whether it is valid; of its address where it came from.  The tag tells  *)
(* a site from every other one ever made.                                  *)
(***************************************************************************)
EXTENDS OwnedWorkspace

CONSTANTS
    SiteIds,     \* site IDs an installer may type
    Archives,    \* files to import: site ID, whether its code is valid, name
    SitesMax,    \* bound of the model: sites ever made
    ConfigsMax,  \* bound of the model: IDs of configurations
    EntriesMax,  \* bound of the model: configurations in the view
    UpdatesMax,  \* bound of the model: changes of a site
    ImportsMax   \* bound of the model: archives that are read at a time

SitesAssumption ==
    /\ SiteIds \subseteq Nat
    /\ Archives \subseteq [id : Nat \ {0}, code : BOOLEAN, name : STRING]
    /\ SitesMax \in Nat \ {0}   \* there is the starter's
    /\ {ConfigsMax, EntriesMax, UpdatesMax, ImportsMax, EditsMax} \subseteq Nat

VARIABLES
    view,      \* materializeAppData(workspace)
    importing, \* importConfig: the archives that are read, each with the site of
               \* its ID as the page had it when the file was chosen
    made,      \* history: sites ever made
    updates,   \* history: changes of a site
    edits      \* history: contents ever made, the version of the latest

sitesVars == <<view, importing, made, updates, edits>>

SiteRecords == [id : Nat, tag : 1..SitesMax, details : {"starter", "typed", "archive"},
                code : BOOLEAN, address : {"none", "found", "archived"}]
Names == {"Home", "Copy", Unnamed} \cup {file.name : file \in Archives}
ConfigRecords == [id : Nat \ {0}, siteId : Nat, name : Names,
                  content : Contents \cup {NoContent}]

Imports == [file : Archives, found : {{}} \cup {{s} : s \in SiteRecords}]

workspace == Canonical(view)

SitesTypeOK ==
    /\ view.site \in SiteRecords
    /\ view.configs \in Seq(ConfigRecords)
    /\ importing \subseteq Imports
    /\ made \in 1..SitesMax /\ updates \in 0..UpdatesMax /\ edits \in Contents

StarterSite == [id |-> 1, tag |-> 1, details |-> "starter", code |-> FALSE, address |-> "none"]

\* The workspace of canonicalizeAppData(initialData).
SitesInit ==
    /\ view = Materialized(Canonical(
                  [site |-> StarterSite, sites |-> <<StarterSite>>,
                   configs |-> <<[id |-> 1, siteId |-> 1, name |-> "Home",
                                  content |-> NoContent]>>,
                   active |-> 1, live |-> 0]))
    /\ importing = {}
    /\ made = 1 /\ updates = 0 /\ edits = 0

\* setData
SetData(next) ==
    /\ Len(next.configs) <= EntriesMax
    /\ view' = Materialized(Canonical(next))

-----------------------------------------------------------------------------
Mapped(configs, f(_)) == [n \in DOMAIN configs |-> f(configs[n])]
WithContent(c, content) == [c EXCEPT !.content = content]
Fetched(c, otherwise) == IF c.content = NoContent THEN otherwise ELSE c.content
Free == Largest(view.configs) + 1

\* The active configuration put away with the live content.
PutAway == Mapped(view.configs,
                  LAMBDA c : IF c.id = view.active THEN WithContent(c, view.live) ELSE c)

-----------------------------------------------------------------------------
(* Operations *)

\* Any edit of rooms, channels, scenes, ... of the active configuration.
Edit ==
    /\ edits < EditsMax
    /\ edits' = edits + 1
    /\ SetData([view EXCEPT !.live = edits + 1])
    /\ UNCHANGED <<importing, made, updates>>

\* selectSite: to the first configuration of the other site.
SelectSite(s) ==
    LET mine(c) == c.siteId = s.id
        to(active, live) == [view EXCEPT !.site = s, !.configs = PutAway,
                                         !.active = active, !.live = live]
    IN  /\ s.id # view.site.id
        /\ IF Has(PutAway, mine)
           THEN LET target == FirstOf(PutAway, mine)
                IN  SetData(to(target.id, Fetched(target, 0)))
           ELSE SetData(to(0, 0))
        /\ UNCHANGED <<importing, made, updates, edits>>

\* createSite: numbered by how many sites there are.
CreateSite ==
    LET s == [id |-> Len(view.sites) + 1, tag |-> made + 1, details |-> "typed",
              code |-> FALSE, address |-> "none"]
    IN  /\ made < SitesMax /\ Free <= ConfigsMax
        /\ made' = made + 1
        /\ SetData([site |-> s, sites |-> Append(view.sites, s),
                    configs |-> Append(PutAway, [id |-> Free, siteId |-> s.id,
                                                 name |-> Unnamed, content |-> NoContent]),
                    active |-> Free, live |-> 0])
        /\ UNCHANGED <<importing, updates, edits>>

\* deleteSite, of the site that is shown: with its configurations, unless it
\* is the last one.  (With no site of another ID the code throws.)
DeleteSite ==
    LET rest == Where(view.sites, LAMBDA s : s.id # view.site.id)
        kept == Where(PutAway, LAMBDA c : c.siteId # view.site.id)
        mine(c) == c.siteId = Head(rest).id
        to(active, live, configs) == [site |-> Head(rest), sites |-> rest,
                                      configs |-> configs, active |-> active, live |-> live]
    IN  /\ Len(view.sites) > 1 /\ rest # <<>>
        /\ IF Has(kept, mine)
           THEN LET next == FirstOf(kept, mine)
                IN  SetData(to(next.id, Fetched(next, 0),
                               Mapped(kept, LAMBDA c : IF c.id = next.id
                                                       THEN WithContent(c, NoContent) ELSE c)))
           ELSE SetData(to(0, 0, kept))
        /\ UNCHANGED <<importing, made, updates, edits>>

\* Faulty variant: the configurations keep the old site ID.
UpdateSiteAlone(updated) ==
    /\ updates < UpdatesMax /\ updates' = updates + 1
    /\ SetData([view EXCEPT
                  !.site = updated,
                  !.sites = [n \in DOMAIN @ |-> IF @[n].id = view.site.id THEN updated
                                                ELSE @[n]]])
    /\ UNCHANGED <<importing, made, edits>>

\* updateSite: every site and configuration of the ID.  A cleared ID does not
\* reach the configurations, so setData gives the site a new one and drops them.
UpdateSite(updated) ==
    /\ updates < UpdatesMax /\ updates' = updates + 1
    /\ SetData([view EXCEPT
                  !.site = updated,
                  !.sites = [n \in DOMAIN @ |-> IF @[n].id = view.site.id THEN updated
                                                ELSE @[n]],
                  !.configs = Mapped(@, LAMBDA c :
                      IF updated.id \notin {0, view.site.id} /\ c.siteId = view.site.id
                      THEN [c EXCEPT !.siteId = updated.id] ELSE c)])
    /\ UNCHANGED <<importing, made, edits>>

\* What the installer types, or a discovery finds.
Updates == {[view.site EXCEPT !.id = id] : id \in SiteIds}
           \cup {[view.site EXCEPT !.details = "typed"], [view.site EXCEPT !.code = TRUE],
                 [view.site EXCEPT !.address = "found"]}

\* Faulty variant: the content of the one before stays in the editor.
SelectConfigurationStale(c) ==
    /\ c.siteId = view.site.id /\ c.id # view.active
    /\ SetData([view EXCEPT !.active = c.id,
                  !.configs = Mapped(PutAway, LAMBDA x : IF x.id = c.id
                                                         THEN WithContent(x, NoContent)
                                                         ELSE x)])
    /\ UNCHANGED <<importing, made, updates, edits>>

\* selectConfiguration, of a configuration of the site that is shown.
SelectConfiguration(c) ==
    /\ c.siteId = view.site.id /\ c.id # view.active
    /\ SetData([view EXCEPT !.active = c.id, !.live = Fetched(c, view.live),
                  !.configs = Mapped(PutAway, LAMBDA x : IF x.id = c.id
                                                         THEN WithContent(x, NoContent)
                                                         ELSE x)])
    /\ UNCHANGED <<importing, made, updates, edits>>

\* duplicateConfiguration
DuplicateConfiguration(c) ==
    /\ c.siteId = view.site.id /\ Free <= ConfigsMax
    /\ SetData([view EXCEPT !.configs =
                  Append(@, [c EXCEPT !.id = Free, !.name = "Copy",
                               !.content = IF c.id = view.active THEN view.live
                                           ELSE Fetched(c, view.live)])])
    /\ UNCHANGED <<importing, made, updates, edits>>

\* deleteConfiguration, but never the last one of a site.
DeleteConfiguration(c) ==
    LET rest == Where(view.configs, LAMBDA x : x.id # c.id)
        sibling(x) == x.siteId = c.siteId
        next == FirstOf(rest, sibling)
    IN  /\ c.siteId = view.site.id
        /\ Len(Where(view.configs, sibling)) > 1
        /\ Has(rest, sibling)
        /\ IF c.id # view.active THEN SetData([view EXCEPT !.configs = rest])
           ELSE SetData([view EXCEPT !.active = next.id, !.live = Fetched(next, view.live),
                           !.configs = Mapped(rest, LAMBDA x : IF x.id = next.id
                                                               THEN WithContent(x, NoContent)
                                                               ELSE x)])
        /\ UNCHANGED <<importing, made, updates, edits>>

-----------------------------------------------------------------------------
(* importConfig of an archive *)

\* isStarterSite.  It looks at the names, not at the content.
IsStarter(s) ==
    LET own == Where(view.configs, LAMBDA c : c.siteId = s.id)
    IN  /\ s.id = 1 /\ s.details = "starter" /\ ~s.code
        /\ Len(own) = 1 /\ own[1].name = "Home"

\* Faulty variant: the details are taken as they come.
MergedBlindly(current, imported, useImported) ==
    IF useImported THEN imported ELSE current

\* mergeImportedSite: the address in use and a valid code are kept either way.
Merged(current, imported, useImported) ==
    LET base == IF useImported THEN imported ELSE current
    IN  [base EXCEPT !.code = current.code \/ imported.code,
                     !.address = IF current.address # "none" THEN current.address ELSE @]

\* upsertImportedConfiguration: the ID the imported configuration gets.
UpsertedId(configs, matches(_)) ==
    LET matching == Where(configs, matches)
    IN  IF Has(matching, LAMBDA c : c.id = view.active) THEN view.active
        ELSE IF matching # <<>> THEN matching[1].id
        ELSE Largest(configs) + 1

\* A file is chosen.  The page that asks for the store and reads the file goes
\* on with the sites it shows now, whatever becomes of them until then.  (Only
\* while the bound on the contents still lets the import come to its end.)
ChooseFile(file) ==
    LET same(s) == s.id = file.id
    IN  /\ Cardinality(importing) < ImportsMax /\ edits < EditsMax
        /\ importing' = importing \cup
             {[file |-> file,
               found |-> IF Has(view.sites, same) THEN {FirstOf(view.sites, same)} ELSE {}]}
        /\ UNCHANGED <<view, made, updates, edits>>

\* No store, or no valid configuration in the file.
ImportFails(i) ==
    /\ importing' = importing \ {i}
    /\ UNCHANGED <<view, made, updates, edits>>

\* The site as it will be, from the sites of when the file was chosen.
Incoming(i, useImported) ==
    LET imported == [id |-> i.file.id, tag |-> 1, details |-> "archive",
                     code |-> i.file.code, address |-> "archived"]
    IN  IF i.found = {} THEN imported
        ELSE Merged(CHOOSE s \in i.found : TRUE, imported, useImported)

\* Without a site to merge with, or one that differs (siteImportDetailsEqual),
\* the installer is not asked.
Asked(i) == \E s \in i.found : ~(s.details = "archive" /\ s.code = i.file.code)

\* The file is read.  The site is put where one of its ID is now; the
\* configuration is put in the place of those of its name, and the starter
\* removed.  (The tag is that of the site in whose place it comes.)
Import(i, useImported) ==
    LET file == i.file
        same(s) == s.id = file.id
        there == Has(view.sites, same)
        target == [Incoming(i, useImported) EXCEPT
                     !.tag = IF there THEN FirstOf(view.sites, same).tag ELSE made + 1]
        starters == {s.id : s \in {x \in ToSet(view.sites) : ~same(x) /\ IsStarter(x)}}
        retained == Where(view.sites, LAMBDA s : s.id \notin starters)
        configs == Where(PutAway, LAMBDA c : c.siteId \notin starters)
        matches(c) == c.siteId = file.id /\ c.name = file.name
        id == UpsertedId(configs, matches)
    IN  /\ edits < EditsMax /\ edits' = edits + 1 /\ UNCHANGED updates
        /\ importing' = importing \ {i}
        /\ ~Asked(i) => useImported
        /\ IF there THEN UNCHANGED made ELSE made < SitesMax /\ made' = made + 1
        /\ id <= ConfigsMax
        /\ SetData([site |-> target,
                    sites |-> IF there THEN [n \in DOMAIN retained |->
                                               IF same(retained[n]) THEN target
                                               ELSE retained[n]]
                              ELSE Append(retained, target),
                    configs |-> Append(Where(configs, LAMBDA c : ~matches(c)),
                                       [id |-> id, siteId |-> file.id, name |-> file.name,
                                        content |-> NoContent]),
                    active |-> id, live |-> edits + 1])

\* importConfig of a JSON backup of the whole workspace, which is what
\* exportConfig writes: what the editor shows then, or goes on showing.
Restored(backup) ==
    IF IsWorkspace(backup) THEN Materialized(backup) ELSE view

-----------------------------------------------------------------------------
SitesNext ==
    \/ Edit \/ CreateSite \/ DeleteSite
    \/ \E n \in DOMAIN view.sites : SelectSite(view.sites[n])
    \/ \E updated \in Updates : UpdateSite(updated)
    \/ \E n \in DOMAIN view.configs :
          \/ SelectConfiguration(view.configs[n])
          \/ DuplicateConfiguration(view.configs[n])
          \/ DeleteConfiguration(view.configs[n])
    \/ \E file \in Archives : ChooseFile(file)
    \/ \E i \in importing : ImportFails(i) \/ \E useImported \in BOOLEAN : Import(i, useImported)

SitesSpec == SitesInit /\ [][SitesNext]_sitesVars

-----------------------------------------------------------------------------
(* Properties *)

Held(id) == {IF c.content = NoContent THEN view.live ELSE c.content :
               c \in {x \in ToSet(view.configs) : x.id = id}}
ConfigIds == {view.configs[n].id : n \in DOMAIN view.configs}
SiteTags == {view.sites[n].tag : n \in DOMAIN view.sites}
DistinctSites == \A m, n \in DOMAIN view.sites : view.sites[m].id = view.sites[n].id => m = n

\* Whatever is selected, created, deleted, renamed or imported, a
\* configuration that is still there holds what it held: only an edit or an
\* import changes it, and only the one that is active then.  (As long as the
\* site IDs are distinct: configurations of two sites of one ID are mixed up.)
KeepsContents ==
    DistinctSites /\ DistinctSites' => \A id \in ConfigIds \cap ConfigIds' :
          \/ Held(id)' = Held(id)
          \/ edits' # edits /\ id = view'.active /\ Held(id)' = {edits'}

\* "A site can hold several configurations; the active one's content lives at
\* the top level of AppData, and the others are snapshotted": a configuration
\* goes only when it is deleted, with its site, or when an import takes its
\* place or that of the starter.  (The active one, whose content is on top,
\* may get another ID.)
Lost == ConfigIds \ (ConfigIds' \cup {view.active})
Starters == {s.id : s \in {x \in ToSet(view.sites) : IsStarter(x)}}
Replaced == {c.id : c \in {x \in ToSet(view.configs) : x.siteId \in {view'.site.id} \cup Starters}}
KeepsConfigurations ==
    \/ Lost = {}
    \/ DeleteSite
    \/ \E n \in DOMAIN view.configs : DeleteConfiguration(view.configs[n])
    \/ edits' # edits /\ Lost \subseteq Replaced

\* The same, as long as no site ID is cleared.
NamedKeepConfigurations ==
    (\A n \in DOMAIN view'.sites : view'.sites[n].id # 0) => KeepsConfigurations

\* "True only for the untouched demo site": the site that an import removes
\* for the starter has no content.  (It does not hold: IsStarter looks at the
\* names only.)
OnlyUntouchedGoes ==
    edits' # edits =>
    \A c \in ToSet(view.configs) :
        c.id \in ConfigIds' \/ c.siteId = view'.site.id \/ Held(c.id) = {0}
UntouchedGoes == [][OnlyUntouchedGoes]_sitesVars

\* As long as the site IDs are distinct, only deleteSite removes a site, and
\* an import only the starter; no import takes away the address in use or a
\* valid code of a site that is as it was when the file was chosen.
\* (createSite may give out the ID of a site that is there, after a deletion;
\* the two are then overwritten and deleted together.)
SeenBy(s) == \A i \in importing \ importing' : s.id = i.file.id => s \in i.found
Kept(s, t) == (s.code => t.code) /\ (s.address = "found" => t.address = "found")
KeepsSites ==
    DistinctSites =>
    /\ SiteTags \subseteq SiteTags' \/ DeleteSite
       \/ /\ edits' # edits
          /\ \A s \in ToSet(view.sites) : s.tag \in SiteTags' \/ IsStarter(s)
    /\ \A s \in ToSet(view.sites), t \in ToSet(view'.sites) :
          s.tag = t.tag /\ SeenBy(s) => Kept(s, t)

\* "The controller address in use is kept either way": also one that was found
\* while the file was read.  (It does not hold: the site is merged with what
\* the page showed before.)
KeepsAddress ==
    DistinctSites =>
    \A s \in ToSet(view.sites), t \in ToSet(view'.sites) :
        s.tag = t.tag /\ s.address = "found" => t.address = "found"

\* A workspace with distinct site IDs can be saved, and its backup restores it.
\* (With two sites of one ID the server refuses every save of it.)
SavesAndRestores ==
    DistinctSites => IsWorkspace(workspace) /\ Restored(workspace) = view
=============================================================================
