----------------------------- MODULE SyncScreen -----------------------------
(***************************************************************************)
(* Remote sync of a device through an S3 object it shares with others,      *)
(* import of a file, and the screen all of it goes through.  The window has *)
(* one dialog; every goroutine that has something to say assigns it,        *)
(* whatever it shows.  The click handler of a dialog's OK button runs OnOK, *)
(* which may show the next dialog, and closes the dialog after that.        *)
(*                                                                          *)
(* While a dialog is shown the user cannot reach the screen behind it.  A   *)
(* handler on the UI goroutine is one step up to the closing of the dialog; *)
(* goroutines run between the two.  The saves of an import are one step:    *)
(* AppStore takes them apart.                                               *)
(***************************************************************************)
EXTENDS Integers, AppBundle

CONSTANTS
    Flows,      \* goroutines that may run at a time
    Key,        \* the device's master key
    Others,     \* bundles that other devices may push
    Exports,    \* bundles that were exported to a file
    Ids, Names, \* of hosts
    Start,      \* the hosts the device may have at first
    MaxAsides   \* bound on edits of hosts and dialogs of other goroutines

ASSUME StartAssumption == Start \subseteq Seq([id : Ids, name : Names])
ASSUME BundlesAssumption ==
    \A b \in Others \cup Exports : b.hosts \in Seq([id : Ids, name : Names])
ASSUME BoundsAssumption == MaxAsides \in Nat

(* SyncPush closes what it uploads with the master key of the vault. *)
ASSUME OthersAssumption ==
    \A b \in Others : b.format = "app" /\ b.key # Plain

VARIABLES
    hosts,      \* the hosts of the device
    records,    \* the ids of its backup records
    dialog,     \* UI.dialog
    closing,    \* a click handler has yet to close the dialog
    pending,    \* UI.syncPushPending
    remote,     \* the S3 object, if any
    flow,       \* goroutines
    asides      \* edits and dialogs so far

screenVars == <<hosts, records, dialog, closing, pending, remote, flow, asides>>
lists == <<hosts, records>>

Nothing  == [format |-> "nothing"]
Idle     == [at |-> "idle"]
NoDialog == [kind |-> "none"]
Loading  == [kind |-> "loading"]
Notice   == [kind |-> "notice"]   \* showError, showInfo
Warning  == [kind |-> "warning"]
(* For a file the user chose, with what is typed into it. *)
Password(bundle, typed) ==
    [kind |-> "password", bundle |-> bundle, typed |-> typed]
Confirm(bundle)         == [kind |-> "confirm", bundle |-> bundle]
SyncConflicts(bundle, seen) ==
    [kind |-> "conflicts", bundle |-> bundle, seen |-> seen]
FileConflicts(bundle)   == [kind |-> "fileConflicts", bundle |-> bundle]
Cancelable(f)           == [kind |-> "cancelable", flow |-> f]

ScreenInit == /\ hosts \in Start
              /\ records = {}
              /\ dialog = NoDialog
              /\ closing = FALSE
              /\ pending = FALSE
              /\ remote = Nothing
              /\ flow = [f \in Flows |-> Idle]
              /\ asides = 0

Free     == ~closing /\ dialog = NoDialog
Shown(k) == ~closing /\ dialog.kind = k
Show(x)  == dialog' = x
Ask(b)   == pending' = b
At(f, l) == flow[f].at = l
Goes(f)  == At(f, "idle") /\ f = CHOOSE g \in Flows : At(g, "idle")
Run(f, x) == flow' = [flow EXCEPT ![f] = x]
End(f)   == Run(f, Idle)

Download            == [at |-> "download"]
Preview(bundle)     == [at |-> "preview", bundle |-> bundle]
Apply(bundle, seen) == [at |-> "apply", bundle |-> bundle, seen |-> seen]
Snapshot(base)      == [at |-> "snapshot", base |-> base]
Put(base, bundle)   == [at |-> "put", base |-> base, bundle |-> bundle]

(* A test of the sync settings writes and removes an object of its own, never
   the one that is shared; an update and a query do not touch S3. *)
Work == [at |-> "work", canceled |-> FALSE]

(* The object as a client gets it, or an error. *)
Pull == {remote, Nothing}

(* An error does not tell whether the object was replaced. *)
Push(bundle) == remote' \in {remote, bundle}

----------------------------------------------------------------------------
(* The buttons of the settings screen. *)

(* syncPush: save the settings, then warn. *)
PressPush ==
    /\ Free
    /\ Show(Warning) \/ Show(Notice)
    /\ UNCHANGED <<lists, closing, pending, remote, flow, asides>>

(* syncPull: save the settings, then download. *)
SyncPull(asked) ==
    \/ Show(Notice) /\ Ask(FALSE) /\ UNCHANGED flow
    \/ \E f \in Flows : /\ Goes(f)
                        /\ Run(f, Download)
                        /\ Show(Loading)
                        /\ Ask(asked)

PressPull ==
    /\ Free
    /\ SyncPull(pending)
    /\ UNCHANGED <<lists, closing, remote, asides>>

(* The warning: "Pull first, then Push", "Force Push", "Cancel". *)
PullFirst ==
    /\ Shown("warning")
    /\ SyncPull(TRUE)
    /\ UNCHANGED <<lists, closing, remote, asides>>

RunSyncPush(f, base) ==
    Goes(f) /\ Run(f, Snapshot(base)) /\ Show(Loading)

ForcePush ==
    /\ Shown("warning")
    /\ Ask(FALSE)
    /\ \E f \in Flows : RunSyncPush(f, Nothing)
    /\ UNCHANGED <<lists, closing, remote, asides>>

CancelWarning ==
    /\ Shown("warning")
    /\ Ask(FALSE)
    /\ Show(NoDialog)
    /\ UNCHANGED <<lists, closing, remote, flow, asides>>

----------------------------------------------------------------------------
(* The goroutines of a pull. *)

(* SyncDownload; the flow's loading dialog is closed and the next one shown. *)
Downloaded(f) ==
    /\ At(f, "download")
    /\ \E got \in Pull :
          IF got = Nothing THEN Show(Notice) /\ Ask(FALSE)
          ELSE Show(Confirm(got)) /\ UNCHANGED pending
    /\ End(f)
    /\ UNCHANGED <<lists, closing, remote, asides>>

(* PreviewSyncImport: open the bundle, find the conflicts. *)
Previewed(f) ==
    /\ At(f, "preview")
    /\ LET b == flow[f].bundle IN
       IF ~Opens(b, Key)
       THEN Show(Notice) /\ Ask(FALSE) /\ End(f)
       ELSE /\ IF Conflicts(hosts, b.hosts) = {}
               THEN Show(NoDialog) /\ Run(f, Apply(b, hosts))
               ELSE Show(SyncConflicts(b, hosts)) /\ End(f)
            /\ UNCHANGED pending
    /\ UNCHANGED <<lists, closing, remote, asides>>

(* applyImportedAppData.  The lists are merged first; a save that fails leaves
   them so. *)
Merge(bundle) ==
    /\ hosts' = MergeProfiles(hosts, bundle.hosts)
    /\ records' = MergeHistory(records, bundle.records)

(* apply of applySyncImport, by the goroutine f or for the start of f. *)
ApplySyncImport(bundle, f) ==
    /\ Merge(bundle)
    /\ Ask(FALSE)
    /\ \/ Show(Notice) /\ End(f)
       \/ pending /\ Show(Loading) /\ Run(f, Snapshot(bundle))

(* After a preview without conflicts the goroutine goes on. *)
Applied(f) ==
    /\ At(f, "apply")
    /\ ApplySyncImport(flow[f].bundle, f)
    /\ UNCHANGED <<closing, remote, asides>>

(* A plausible mistake: a push writes the format of earlier versions. *)
SnapshottedProfiles(f) ==
    /\ At(f, "snapshot")
    /\ Run(f, Put(flow[f].base, ProfileBundle(Key, hosts)))
    /\ UNCHANGED <<lists, dialog, closing, pending, remote, asides>>

(* The goroutine of a push: SyncPush takes its copy of the lists ... *)
Snapshotted(f) ==
    /\ At(f, "snapshot")
    /\ Run(f, Put(flow[f].base, Bundle(Key, hosts, records)))
    /\ UNCHANGED <<lists, dialog, closing, pending, remote, asides>>

(* A plausible mistake: a push that fails leaves its loading dialog. *)
PutDoneInSilence(f) ==
    /\ At(f, "put")
    /\ \/ remote' = flow[f].bundle /\ Show(Notice)
       \/ UNCHANGED <<remote, dialog>>
    /\ End(f)
    /\ UNCHANGED <<lists, closing, pending, asides>>

(* ... and replaces the object; then RecordSyncPush, which may fail. *)
PutDone(f) ==
    /\ At(f, "put")
    /\ Push(flow[f].bundle)
    /\ Show(Notice)
    /\ End(f)
    /\ UNCHANGED <<lists, closing, pending, asides>>

----------------------------------------------------------------------------
(* The OK and Cancel buttons of a dialog. *)

OKConfirm ==
    /\ Shown("confirm")
    /\ \E f \in Flows : Goes(f) /\ Run(f, Preview(dialog.bundle))
    /\ Show(Loading)
    /\ closing' = TRUE
    /\ UNCHANGED <<lists, pending, remote, asides>>

OKConflicts ==
    /\ Shown("conflicts")
    /\ \E f \in Flows :
          Goes(f) /\ ApplySyncImport(dialog.bundle, f)
    /\ closing' = TRUE
    /\ UNCHANGED <<remote, asides>>

(* importAppDataFromPath.  The OK button of the conflicts it shows would merge the
   file. *)
OKPassword(bundle, password) ==
    /\ ~closing /\ dialog = Password(bundle, password)
    /\ IF Opens(bundle, password) /\ Conflicts(hosts, bundle.hosts) = {}
       THEN Merge(bundle) ELSE UNCHANGED lists
    /\ IF Opens(bundle, password) /\ Conflicts(hosts, bundle.hosts) # {}
       THEN Show(FileConflicts(bundle)) ELSE Show(Notice)
    /\ closing' = TRUE
    /\ UNCHANGED <<pending, remote, flow, asides>>

(* The end of a click handler. *)
Close ==
    /\ closing
    /\ closing' = FALSE
    /\ Show(NoDialog)
    /\ UNCHANGED <<lists, pending, remote, flow, asides>>

CancelDialog ==
    /\ \E k \in {"confirm", "conflicts"} : Shown(k)
    /\ Ask(FALSE)
    /\ Show(NoDialog)
    /\ UNCHANGED <<lists, closing, remote, flow, asides>>

Dismiss ==
    /\ \E k \in {"notice", "password"} : Shown(k)
    /\ Show(NoDialog)
    /\ UNCHANGED <<lists, closing, pending, remote, flow, asides>>

----------------------------------------------------------------------------
(* The other work behind a loading dialog: a test of the sync settings or an
   update, which have a Cancel button, and a query, which has none. *)
StartWork ==
    /\ Free
    /\ \E f \in Flows : /\ Goes(f)
                        /\ Run(f, Work)
                        /\ Show(Cancelable(f)) \/ Show(Loading)
    /\ UNCHANGED <<lists, closing, pending, remote, asides>>

CancelWork ==
    /\ Shown("cancelable")
    /\ LET f == dialog.flow IN
       flow' = IF At(f, "work") THEN [flow EXCEPT ![f].canceled = TRUE] ELSE flow
    /\ Show(NoDialog)
    /\ UNCHANGED <<lists, closing, pending, remote, asides>>

(* The end of it is told in a notice; a query has its result on the screen
   below, and an update that was canceled closes the dialog there is; a test
   that was canceled says nothing. *)
Worked(f) ==
    /\ At(f, "work")
    /\ \/ Show(Notice)
       \/ Show(NoDialog)
       \/ flow[f].canceled /\ UNCHANGED dialog
    /\ End(f)
    /\ UNCHANGED <<lists, closing, pending, remote, asides>>

Aside == asides < MaxAsides /\ asides' = asides + 1

Passwords == {b.key : b \in Exports} \cup {"wrong"}

(* A dialog of some other goroutine: a job ends, a file chooser returns. *)
OtherDialog ==
    /\ Aside
    /\ \/ Show(Notice)
       \/ \E b \in Exports, k \in Passwords : Show(Password(b, k))
    /\ UNCHANGED <<lists, closing, pending, remote, flow>>

----------------------------------------------------------------------------
(* Hosts are edited one at a time, on the screen; ids are new. *)
NewHost(h) ==
    \A list \in {b.hosts : b \in Exports \cup Others} \cup {hosts} :
        \A g \in ToSet(list) : g.id # h.id

EditHosts ==
    /\ Free
    /\ Aside
    /\ \/ \E h \in [id : Ids, name : Names] :
             NewHost(h) /\ hosts' = Append(hosts, h)
       \/ \E i \in DOMAIN hosts :
             \/ hosts' = RemoveAt(hosts, i)
             \/ \E n \in Names : hosts' = [hosts EXCEPT ![i].name = n]
    /\ UNCHANGED <<records, dialog, closing, pending, remote, flow>>

(* Another device pushes. *)
PushElsewhere ==
    /\ remote' \in Others
    /\ UNCHANGED <<lists, dialog, closing, pending, flow, asides>>

----------------------------------------------------------------------------
Goroutine(f) == \/ Downloaded(f) \/ Previewed(f) \/ Applied(f)
                \/ Snapshotted(f) \/ PutDone(f) \/ Worked(f)

Click == \/ PressPush \/ PressPull
         \/ PullFirst \/ ForcePush \/ CancelWarning
         \/ OKConfirm \/ OKConflicts
         \/ \E b \in Exports, k \in Passwords : OKPassword(b, k)
         \/ CancelDialog \/ Dismiss
         \/ StartWork
         \/ CancelWork

ScreenNext == \/ \E f \in Flows : Goroutine(f)
              \/ Click \/ Close \/ EditHosts
              \/ OtherDialog
              \/ PushElsewhere

ScreenSpec == ScreenInit /\ [][ScreenNext]_screenVars

(* Goroutines run and handlers return.  Nothing bounds the time of an answer from
   the network: sync has no read timeout, the dial of a query none at all.  The
   user may do nothing. *)
FairScreenSpec ==
    /\ ScreenSpec
    /\ \A f \in Flows : WF_screenVars(Previewed(f) \/ Applied(f) \/ Snapshotted(f))
    /\ WF_screenVars(Close)

----------------------------------------------------------------------------
Dialogs == {"none", "loading", "notice", "warning", "password", "confirm",
            "conflicts", "fileConflicts", "cancelable"}

ScreenTypeOK ==
    /\ hosts \in Seq([id : Ids, name : Names])
    /\ records \subseteq UNION {b.records : b \in Others \cup Exports}
    /\ dialog.kind \in Dialogs
    /\ closing \in BOOLEAN
    /\ pending \in BOOLEAN
    /\ remote.format \in {"nothing", "app"}
    /\ \A f \in Flows : flow[f].at \in {"idle", "download", "preview", "apply",
                                        "snapshot", "put", "work"}
    /\ asides \in 0..MaxAsides

(* The conflicts the user was told of when the bundle that is merged was asked
   about; and whether the hosts have changed since. *)
ListedConflicts ==
    IF dialog.kind = "conflicts"
    THEN Conflicts(dialog.seen, dialog.bundle.hosts) ELSE {}
ListIsOld ==
    \/ dialog.kind = "conflicts" /\ dialog.seen # hosts
    \/ \E f \in Flows : At(f, "apply") /\ flow[f].seen # hosts

(* A pull or an import replaces only hosts the user was told about, unless the
   hosts changed after the list was made (store.go:573-633;
   settings_sync.go:376-384; import_profiles.go:18-33). *)
ReplacedWasListed ==
    [][asides' = asides =>
         \/ ToSet(hosts) \ ToSet(hosts') \subseteq ListedConflicts
         \/ ListIsOld]_screenVars

(* "Pull first, then Push" loses nothing: a push that follows a pull keeps
   every record of the object it pulled; what it replaces unseen is what
   another device pushed in between (sync.go:37-54, settings_sync.go:388-407). *)
PushKeepsWhatWasPulled ==
    [][\A f \in Flows :
          At(f, "put") /\ flow'[f] # flow[f] /\ flow[f].base = remote
          /\ remote # Nothing
          => remote.records \subseteq remote'.records]_screenVars

(* What comes to the hosts and the records of the device, other than by an edit,
   is the content of one bundle that was read with its own key: from the bucket
   with the master key, from a file with the password typed for it, unless the
   file has none (store.go:333-402, crypto.go:231-289). *)
OnlyOwnKey ==
    [][asides' = asides =>
         \/ UNCHANGED lists
         \/ \E f \in Flows : /\ At(f, "apply")
                              /\ flow[f].bundle.key = Key
                              /\ Merge(flow[f].bundle)
         \/ /\ dialog.kind = "conflicts"
            /\ dialog.bundle.key = Key
            /\ Merge(dialog.bundle)
         \/ /\ dialog.kind = "password"
            /\ dialog.bundle.key \in {Plain, dialog.typed}
            /\ Merge(dialog.bundle)]_screenVars

(* A loading dialog stays only as long as a goroutine waits for the network: every
   way one can end assigns the dialog, and nothing can leave the last one behind
   (settings_sync.go:310-384). *)
LoadingEnds ==
    dialog.kind \in {"loading", "cancelable"}
    ~> \/ dialog.kind \notin {"loading", "cancelable"}
       \/ \E f \in Flows : flow[f].at \in {"download", "put", "work"}
============================================================================
