----------------------------- MODULE AppBundle -----------------------------
(***************************************************************************)
(* The bundle of app data that is pushed to S3, pulled from it, exported    *)
(* to a file and imported from it: how one is made, opened, compared with   *)
(* the lists of a device and merged into them.                              *)
(*                                                                          *)
(* A host has an id and a name; templates are compared and merged by the    *)
(* same code.  Of history and logs only the ids matter.  A bundle is closed *)
(* with a key: the master key of a vault or the password of an export.      *)
(***************************************************************************)
EXTENDS SequencesExt

(* Plain bundles have no key. *)
Plain == "plain"

(* MarshalAppDataBundle, before it encrypts: copies of the lists. *)
AppPayload(hosts, records) ==
    [format |-> "app", key |-> Plain, hosts |-> hosts, records |-> records]

(* EncryptAppBundle: hosts, records and secrets in one sealed text. *)
Bundle(key, hosts, records) == [AppPayload(hosts, records) EXCEPT !.key = key]

(* ExportProfiles: the format of earlier versions. *)
ProfilePayload(hosts) ==
    [format |-> "profiles", key |-> Plain, hosts |-> hosts, records |-> {}]

(* EncryptBundle. *)
ProfileBundle(key, hosts) == [ProfilePayload(hosts) EXCEPT !.key = key]

(* DecryptAppBundle: the seal opens with the key it was closed with, and what
   is inside is read as the payload of an app bundle. *)
Decrypts(bundle, key) == bundle.format = "app" /\ bundle.key = key

(* A plausible mistake: the key is only checked where one is given. *)
OpensAnyway(bundle, key) == bundle.key = Plain \/ bundle.format = "app"

(* ImportAppDataBytes: everything encrypted is taken for an AppBundle, so an
   encrypted ProfileBundle does not open even with its key. *)
Opens(bundle, key) == bundle.key = Plain \/ Decrypts(bundle, key)

----------------------------------------------------------------------------
(* Where a list has an id or a name; the maps built over it give the last. *)
Positions(hosts, key, value) == {i \in DOMAIN hosts : hosts[i][key] = value}

Entry(hosts, p) ==
    LET byID   == Positions(hosts, "id", p.id)
        byName == Positions(hosts, "name", p.name)
    IN IF byID # {} THEN byID ELSE byName

(* A plausible mistake: only the ids are compared. *)
ConflictsByID(hosts, imported) ==
    {h \in ToSet(hosts) : \E p \in ToSet(imported) : p.id = h.id}

(* DetectProfileConflicts and DetectTemplateConflicts: the entries the user is
   told will be replaced. *)
Conflicts(hosts, imported) ==
    {hosts[Max(Entry(hosts, p))] :
        p \in {q \in ToSet(imported) : Entry(hosts, q) # {}}}

(* The maps of MergeProfiles: filled from the list, extended by what is
   appended, never changed when an entry is replaced. *)
Indexed(hosts) ==
    [out    |-> hosts,
     byID   |-> [k \in {h.id : h \in ToSet(hosts)} |->
                    Max(Positions(hosts, "id", k))],
     byName |-> [k \in {h.name : h \in ToSet(hosts)} |->
                    Max(Positions(hosts, "name", k))]]

(* f[k] = v, of a Go map. *)
Assigned(f, k, v) == [x \in DOMAIN f \cup {k} |-> IF x = k THEN v ELSE f[x]]

Appended(m, p) ==
    LET n == Len(m.out) + 1
    IN [out    |-> Append(m.out, p),
        byID   |-> Assigned(m.byID, p.id, n),
        byName |-> Assigned(m.byName, p.name, n)]

MergeOne(m, p) ==
    CASE p.id \in DOMAIN m.byID     -> [m EXCEPT !.out[m.byID[p.id]] = p]
      [] p.id \notin DOMAIN m.byID /\ p.name \in DOMAIN m.byName
                                    -> [m EXCEPT !.out[m.byName[p.name]] = p]
      [] OTHER                      -> Appended(m, p)

(* MergeProfiles and MergeTemplates. *)
MergeProfiles(hosts, imported) ==
    FoldLeft(MergeOne, Indexed(hosts), imported).out

(* A plausible mistake: records of other devices are left out, as their files
   are. *)
MergeOwnHistory(records, imported) == records

(* MergeHistory and MergeLogs: an id the device has is kept as it is. *)
MergeHistory(records, imported) == records \cup imported
============================================================================
