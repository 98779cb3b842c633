----------------------------- MODULE CustomObjects -----------------------------
(***************************************************************************)
(* The custom service: entity definitions, their records, scripts, views   *)
(* and layouts, packages and industry packs.  Definitions are written      *)
(* under a row lock; a record handler reads the definition without one.    *)
(***************************************************************************)
EXTENDS Naturals

CONSTANTS
    Slugs, FieldNames, Records, CustomTxns,
    PackSlug,      \* the entity the industry pack brings
    PackFields,    \* and its fields
    Packages,      \* the packages that are posted for import
    MaxRecordVersion   \* bound on a record's version

ASSUME CustomObjectsAssumption ==
    /\ PackSlug \in Slugs
    /\ PackFields \subseteq FieldNames
    /\ \A p \in Packages : /\ DOMAIN p.entities \subseteq Slugs
                           /\ \A s \in DOMAIN p.entities : p.entities[s] \subseteq FieldNames
    /\ MaxRecordVersion \in Nat \ {0}

VARIABLES
    definition,   \* custom_entity_definition: state and fields
    entityPerms,  \* slugs whose permissions are registered
    decor,        \* whose view, layout and script each slug has: none, own or a package's
    custom,       \* custom_record: state, slug, keys of its values, version
    pack,         \* custom_industry_pack_install and the marketplace_install it made
    customTxn,    \* what each request has read
    overwrote,    \* history: an update was applied over values its author had not seen
    outdated,     \* history: records of a definition edited since they were validated
    scripted      \* history: the keys that a script set at each record's last save

customObjectsVars == <<definition, entityPerms, decor, custom, pack, customTxn, overwrote, outdated, scripted>>
definitionVars == <<definition, entityPerms>>
recordVars == <<custom, customTxn, overwrote, outdated, scripted>>

DecorKinds == {"view", "layout", "script"}
NoCustomTxn == [op |-> "idle"]

CustomObjectsTypeOK ==
    /\ definition \in [Slugs -> [state : {"none", "draft", "published", "deleted"}, fields : SUBSET FieldNames]]
    /\ entityPerms \subseteq Slugs
    /\ decor \in [Slugs -> [DecorKinds -> {"none", "own", "pack"}]]
    /\ custom \in [Records -> [state : {"none", "live", "deleted"}, slug : Slugs, keys : SUBSET FieldNames,
                               version : 0 .. MaxRecordVersion]]
    /\ pack \in [installed : BOOLEAN, listing : {"none", "active", "revoked"}]
    /\ DOMAIN customTxn = CustomTxns /\ overwrote \in BOOLEAN /\ outdated \subseteq Records
    /\ scripted \in [Records -> SUBSET FieldNames]

Defined(s) == definition[s].state \in {"draft", "published"}
IsPublished(s) == definition[s].state = "published"
LiveRecords(s) == {r \in Records : custom[r].state = "live" /\ custom[r].slug = s}

-----------------------------------------------------------------------------
(* Definitions *)

\* The slug is unique among deleted definitions too: it is never free again.
CreateEntity(s, fields) ==
    /\ definition[s].state = "none"
    /\ definition' = [definition EXCEPT ![s] = [state |-> "draft", fields |-> fields]]
    /\ UNCHANGED <<entityPerms, decor, recordVars, pack>>

\* An edit of a published definition applies to its records at once.
UpdateEntity(s, fields) ==
    /\ Defined(s)
    /\ definition' = [definition EXCEPT ![s].fields = fields]
    /\ outdated' = IF fields # definition[s].fields THEN outdated \cup LiveRecords(s) ELSE outdated
    /\ UNCHANGED <<entityPerms, decor, custom, customTxn, overwrote, scripted, pack>>

\* Its records, views, scripts and permissions stay.
DeleteEntity(s) ==
    /\ Defined(s)
    /\ definition' = [definition EXCEPT ![s].state = "deleted"]
    /\ UNCHANGED <<entityPerms, decor, recordVars, pack>>

RegisterCustomPermissions(slugs) == entityPerms' = entityPerms \cup slugs

PublishEntity(s) ==
    /\ Defined(s)
    /\ definition' = [definition EXCEPT ![s].state = "published"]
    /\ RegisterCustomPermissions({s})
    /\ UNCHANGED <<decor, recordVars, pack>>

\* upsert_layout, upsert_script and create_view do not ask for the definition;
\* upsert_script parses the source, and its row may be disabled.
Decorate(s, kind) ==
    /\ decor' = [decor EXCEPT ![s][kind] = "own"]
    /\ UNCHANGED <<definitionVars, recordVars, pack>>

CreateView(s) == Decorate(s, "view")
UpsertLayout(s) == Decorate(s, "layout")
UpsertScript(s) == Decorate(s, "script")

-----------------------------------------------------------------------------
(* Records *)

CustomReads(x, what) ==
    /\ customTxn[x].op = what.from
    /\ customTxn' = [customTxn EXCEPT ![x] = what.to]
    /\ UNCHANGED <<definitionVars, decor, custom, overwrote, outdated, scripted, pack>>

EndCustomTxn(x) == customTxn' = [customTxn EXCEPT ![x] = NoCustomTxn]

\* validate_values: no key but the fields'.
ValidateValues(fields, keys) == keys \subseteq fields

HasScript(s) == decor[s]["script"] # "none"

\* run_script after the validation: a script, the organization's or an imported
\* one, may set any field, and nothing validates the values again.  What it sets
\* depends on the values, and a disabled one sets nothing.
RunScript(s, added) == HasScript(s) \/ added = {}

\* A record as it is stored; history: what the script set, and whether the
\* definition it was validated against is still the current one.
SaveRecord(r, s, seen, keys, added, version) ==
    /\ RunScript(s, added)
    /\ custom' = [custom EXCEPT ![r] = [state |-> "live", slug |-> s, keys |-> keys \cup added, version |-> version]]
    /\ scripted' = [scripted EXCEPT ![r] = added]
    /\ outdated' = IF seen = definition[s].fields THEN outdated \ {r} ELSE outdated \cup {r}

\* load_published_entity, before the row is written or locked.
CreateRecordRead(x, s) ==
    /\ IsPublished(s)
    /\ CustomReads(x, [from |-> "idle", to |-> [op |-> "create", slug |-> s, fields |-> definition[s].fields]])

CreateRecordWrite(x, r, keys, added) ==
    LET s == customTxn[x].slug
    IN  /\ customTxn[x].op = "create"
        /\ custom[r].state = "none"
        /\ ValidateValues(customTxn[x].fields, keys)
        /\ EndCustomTxn(x)
        /\ SaveRecord(r, s, customTxn[x].fields, keys, added, 1)
        /\ UNCHANGED <<definitionVars, decor, overwrote, pack>>

\* get_record: what the author of an update has seen.
GetRecord(x, r) ==
    /\ custom[r].state = "live" /\ IsPublished(custom[r].slug)
    /\ CustomReads(x, [from |-> "idle", to |-> [op |-> "seen", record |-> r, keys |-> custom[r].keys,
                                                version |-> custom[r].version]])

UpdateRecordRead(x) ==
    LET s == custom[customTxn[x].record].slug
    IN  /\ customTxn[x].op = "seen"
        /\ IsPublished(s)
        /\ CustomReads(x, [from |-> "seen", to |-> [op |-> "update", record |-> customTxn[x].record,
                                                    keys |-> customTxn[x].keys, version |-> customTxn[x].version,
                                                    fields |-> definition[s].fields]])

\* Mutant: the version is not compared under the lock.
IfMatchAny(x) == TRUE

\* The row is locked and has the version of If-Match; the values given are
\* merged into the stored ones, and all of them validated.
IfMatch(x) == custom[customTxn[x].record].version = customTxn[x].version

UpdateRecordWrite(x, keys, added) ==
    LET r == customTxn[x].record
        s == custom[r].slug
    IN  /\ customTxn[x].op = "update"
        /\ custom[r].state = "live" /\ IfMatch(x)
        /\ custom[r].version < MaxRecordVersion
        /\ ValidateValues(customTxn[x].fields, custom[r].keys \cup keys)
        /\ EndCustomTxn(x)
        /\ SaveRecord(r, s, customTxn[x].fields, custom[r].keys \cup keys, added, custom[r].version + 1)
        /\ overwrote' = (overwrote \/ custom[r].keys # customTxn[x].keys \/ custom[r].version # customTxn[x].version)
        /\ UNCHANGED <<definitionVars, decor, pack>>

\* A save that is refused: the version moved on, the values do not fit, or the
\* script fails, which an imported one that does not even parse always does.
CreateRecordRefused(x) ==
    /\ customTxn[x].op = "create"
    /\ HasScript(customTxn[x].slug)
    /\ EndCustomTxn(x)
    /\ UNCHANGED <<definitionVars, decor, custom, overwrote, outdated, scripted, pack>>

UpdateRecordRefused(x) ==
    LET r == customTxn[x].record
    IN  /\ customTxn[x].op = "update"
        /\ \/ custom[r].state # "live" \/ ~ IfMatch(x)
           \/ ~ ValidateValues(customTxn[x].fields, custom[r].keys)
           \/ HasScript(custom[r].slug)
        /\ EndCustomTxn(x)
        /\ UNCHANGED <<definitionVars, decor, custom, overwrote, outdated, scripted, pack>>

DeleteRecord(r) ==
    /\ custom[r].state = "live" /\ IsPublished(custom[r].slug)
    /\ custom' = [custom EXCEPT ![r].state = "deleted"]
    /\ UNCHANGED <<definitionVars, decor, customTxn, overwrote, outdated, scripted, pack>>

-----------------------------------------------------------------------------
(* Packages *)

\* A definition that exists is published as it stands, a slug in use by a
\* deleted one makes the whole import fail.
ImportEntities(p) ==
    LET slugs == DOMAIN p.entities
    IN  /\ \A s \in slugs : definition[s].state # "deleted"
        /\ definition' = [s \in Slugs |->
               IF s \in slugs
               THEN [state |-> "published", fields |-> IF Defined(s) THEN definition[s].fields ELSE p.entities[s]]
               ELSE definition[s]]
        /\ RegisterCustomPermissions(slugs)

\* Mutant: ON CONFLICT DO UPDATE.
ImportDecorOverwrites(p) ==
    decor' = [s \in Slugs |-> [k \in DecorKinds |-> IF <<s, k>> \in p.decor THEN "pack" ELSE decor[s][k]]]

\* Views, layouts and scripts are inserted where there is none: for any slug,
\* the scripts enabled and unparsed.
ImportDecor(p) ==
    decor' = [s \in Slugs |-> [k \in DecorKinds |->
                 IF <<s, k>> \in p.decor /\ decor[s][k] = "none" THEN "pack" ELSE decor[s][k]]]

ApplyPackageImport(p) == ImportEntities(p) /\ ImportDecor(p)

\* Any package that is posted; export_package only reads.
ImportPackage(p) ==
    /\ ApplyPackageImport(p)
    /\ UNCHANGED <<recordVars, pack>>

\* No industry pack brings a script.
IndustryPack == [entities |-> [s \in {PackSlug} |-> PackFields], decor |-> {PackSlug} \X {"view", "layout"}]

\* try_install_marketplace_listing: an active install is left as it is.
TryInstallMarketplaceListing(listed) == IF listed THEN "active" ELSE pack.listing

\* Everything in one transaction; a second install meets the unique index.
InstallPack(listed) ==
    /\ ~ pack.installed
    /\ ApplyPackageImport(IndustryPack)
    /\ pack' = [installed |-> TRUE, listing |-> TryInstallMarketplaceListing(listed)]
    /\ UNCHANGED recordVars

\* The marketplace install is revoked; definitions and records are retained.
UninstallPack ==
    /\ pack.installed
    /\ pack' = [installed |-> FALSE, listing |-> IF pack.listing = "active" THEN "revoked" ELSE pack.listing]
    /\ UNCHANGED <<definitionVars, decor, recordVars>>

-----------------------------------------------------------------------------

CustomObjectsInit ==
    /\ definition = [s \in Slugs |-> [state |-> "none", fields |-> {}]]
    /\ entityPerms = {} /\ decor = [s \in Slugs |-> [k \in DecorKinds |-> "none"]]
    /\ custom \in [Records -> [state : {"none"}, slug : Slugs, keys : {{}}, version : {0}]]
    /\ pack = [installed |-> FALSE, listing |-> "none"]
    /\ customTxn = [x \in CustomTxns |-> NoCustomTxn] /\ overwrote = FALSE /\ outdated = {}
    /\ scripted = [r \in Records |-> {}]

DefinitionNext ==
    \/ \E s \in Slugs, fields \in SUBSET FieldNames : CreateEntity(s, fields) \/ UpdateEntity(s, fields)
    \/ \E s \in Slugs : DeleteEntity(s) \/ PublishEntity(s) \/ UpsertScript(s)
    \/ \E p \in Packages : ImportPackage(p)

RecordNext ==
    \/ \E x \in CustomTxns, s \in Slugs : CreateRecordRead(x, s)
    \/ \E x \in CustomTxns, r \in Records, keys, added \in SUBSET FieldNames : CreateRecordWrite(x, r, keys, added)
    \/ \E x \in CustomTxns, r \in Records : GetRecord(x, r)
    \/ \E x \in CustomTxns, keys, added \in SUBSET FieldNames : UpdateRecordWrite(x, keys, added)
    \/ \E x \in CustomTxns : UpdateRecordRead(x) \/ CreateRecordRefused(x) \/ UpdateRecordRefused(x)
    \/ \E r \in Records : DeleteRecord(r)

PackageNext ==
    \/ \E s \in Slugs : CreateView(s) \/ UpsertLayout(s)
    \/ UninstallPack
    \/ \E listed \in BOOLEAN : InstallPack(listed)

CustomObjectsNext == DefinitionNext \/ RecordNext \/ PackageNext

-----------------------------------------------------------------------------

\* A record's If-Match: no update is applied over values that its author had
\* not seen.
NoLostRecordUpdate == ~ overwrote

\* A record holds only fields of its definition and what a script set after the
\* validation at the record's last save, unless the definition was edited since;
\* and only a record of a slug with a script holds anything a script set.
RecordsFitDefinition ==
    \A s \in Slugs : \A r \in LiveRecords(s) :
        /\ r \notin outdated => custom[r].keys \subseteq definition[s].fields \cup scripted[r]
        /\ scripted[r] # {} => HasScript(s)

\* "Additive package import": an import, and the installation or removal of a
\* pack, never replaces what the organization made or unpublishes an entity.
OwnWorkIsKept ==
    [][\A s \in Slugs :
         /\ \A k \in DecorKinds : decor[s][k] = "own" => decor'[s][k] = "own"
         /\ IsPublished(s) => definition'[s].state \in {"published", "deleted"}
         /\ pack' # pack /\ Defined(s) => definition'[s].fields = definition[s].fields]_customObjectsVars
=============================================================================
