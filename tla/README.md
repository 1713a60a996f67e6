# A formal model of DBack

DBack (Go, Gio) is a desktop program that backs up and restores MySQL and
MariaDB databases of remote hosts over SSH or through a WordPress plugin. This
directory holds TLA+ modules that model its parts, TLC configurations that check
them on small instances, and proofs, checked by TLAPS, that hold for every
instance. Line references are to the repository's sources.

- [The system](#the-system)
- [The modules](#the-modules)
- [What is checked](#what-is-checked)
- [What is proved](#what-is-proved)
- [Where the code departs from its documentation](#where-the-code-departs-from-its-documentation)
- [What is not modelled](#what-is-not-modelled)
- [Plan](#plan)
- [Running it](#running-it)

## The system

### Parts, their state and their operations

| Part | Code | State | Operations |
|---|---|---|---|
| Application core | `internal/app` | `App.profiles, templates, history, logs` under `App.mu` | save and delete of hosts and templates, backup, restore, quick and deep verification, import of a bundle, reload, connection tests, sync push and pull |
| Store | `internal/store/store.go` | the same lists again, sync settings, revision, under `Store.mu` | one `Save…` per list, each of which replaces the whole list and rewrites the whole vault file |
| Vault file | `internal/store/vault.go`, `internal/secrets` | `app_data.vault.json` (salt, encrypted payload), older builds' plaintext files, the session's key | create, unlock, migrate, persist, lock, export bundle |
| Login screen | `ui/login.go`, `ui/cache.go` | the text of the key editors | silent unlock on every edit, submit |
| SSH backup | `backend/transfer/transfer.go` 46-310, `metadata.go`, `validate.go`, `copy.go` | the local file, its `.dback-meta.json`, the SSH client, two strategies | stream, or dump to a remote file and download; retry; integrity checks |
| SSH restore | `backend/transfer/transfer.go` 312-564, `app/restore_queries.go` | the destination database, the SSH client, processes on the server | pre-import query, DROP and CREATE, stream or upload and import, retry, post-import query |
| Job center | `ui/jobs.go`, `ui/backups.go`, `ui/cache.go` | `u.jobs`, the ticker, throttling of refreshes, the cache of the Files tab | add, progress, finish, cancel, redraw |
| Verification | `backend/verify`, `app/verify.go`, `ui/verify.go` | the temporary database `dback_verify_*`, the facts of a record | capture of a fingerprint; deep check by a restore into a temporary database |
| SSH client | `backend/ssh`, `app/connectiontest.go`, `ui/host_connection.go` | a connection, possibly through a jump host or proxy; the known-hosts file; the report of a test | dial with retries, host key check, run, stream, close, test |
| Remote sync and bundles | `internal/sync/s3.go`, `ui/settings_sync.go`, `app/sync.go`, `internal/secrets` | one object in an S3 bucket, export files | push, pull, preview of conflicts, merge, import |
| Dialog | `ui/dialog.go`, `ui/app.go` | `UI.dialog`, `UI.syncPushPending` | show, OK, Cancel, close |
| WordPress | `backend/wordpress`, `transfer_wordpress.go`, the PHP plugin | one HTTP request per call; on the server the session of the database | export, import, query |
| Preflight | `backend/preflight`, `BuildPreflightScript` | directories on the server, the file that tries them | checks of programs, room and directories, choice of one |
| Updater | `internal/update`, `app/update.go`, `ui/about_update.go` | the downloaded package | check, download, install |
| Command builders | `backend/db` | none | shell commands and their output |

### How they interact

The window (one thread) starts a goroutine per backup, restore, verification,
import or sync; nothing counts these goroutines or excludes one while another
runs. Each calls `App`, which takes `App.mu` to change its own lists and to copy
them, releases it, and only then calls `Store`, which takes `Store.mu` to replace
its list by the copy and to rewrite the vault file. Transfers call back with
progress messages, which go to the job center under its own lock, and with log
entries, each of which is one more save of the vault. A cancel is a
`context.Context`; a transfer notices it where it looks, and a watcher goroutine
closes the SSH client when it ends. Commands already started on the server are
processes of the server and outlive the client.

### What is hard

- *Interleaving.* Snapshots are taken under one lock and saved under another;
  `Reload` copies four lists in four critical sections; the ticker and the
  window read and write the same flags in two steps each.
- *Failure and retry.* Every write may fail after memory has changed; every
  remote command may fail, hang or outlive its connection; each transfer has two
  strategies, and the second must not build on what the first left.
- *Crash.* The migration of plaintext files, and the several saves of one
  backup, are sequences of writes that a crash may cut anywhere.
- *Cancel and liveness.* A cancel must end a transfer whatever it waits for.
- *Staleness.* Copies of records held for minutes, caches valid for one
  revision, a local file taken for the beginning of a download, conflicts found
  before the user has decided, a test that reports into a newer test's record.
- *Sharing by name.* Temporary databases named by the second, one file name that
  tries directories for every user, one dialog for every goroutine.

`PROJECT.json` lists the single hazards, each at its line, with the properties
that cover it.

### What makes each part correct

| Part | Correct when |
|---|---|
| Core and Store | memory and vault file agree when nothing is in flight; nothing recorded disappears; what the log calls complete is recorded |
| Vault | no step loses what a vault has held or is to take over; the session's passphrase opens the file; plaintext beside an open vault only where the code lets it stay |
| Backup | success means the whole dump and nothing else; a retry starts clean if the file could be removed; a cancel ends it |
| Restore | success means the database holds exactly the file; imports do not overlap; a cancel ends it, except in a dial |
| Job center | the cache is current; a finished job is drawn as finished; one ticker |
| Verification | production changes only through a dump whose statements the importer lets through; a verdict is about one import of the file; a database left behind has a reason |
| Connection | each way out of a dial closes what the dial has opened; a report never stays at "running" |
| Sync | nothing under another key or password comes in; nothing is replaced unannounced; what was pulled is not lost by the push after it |
| WordPress | success means the whole dump, or every table row for row as the file has it, with its values if its settings were kept; the site's own database is left alone by a verification |
| Preflight | what it reports is true; a directory that passed can be made |

## The modules

Each module models one part. A proof module `X_proofs` extends `X`; `MCX` and the
`MCX_*.cfg` files instantiate it for TLC. No module has a `RECURSIVE` operator.
Two proof modules extend a second module and hold its proofs too: `Connect_proofs` those of
Preflight, the two being the way to a server, and `Vault_proofs` those of SyncScreen and
AppBundle, the two being what a key opens. Preflight and SyncScreen name their behaviours
`PreflightSpec` and `ScreenSpec` for that reason.
Definitions called *A plausible mistake* stand beside the definition
they distort and are used by no specification: replacing the definition by them
must break a property (see [Running it](#running-it)).

### AppStore

The three copies of the application data: `app` (App's lists), `mem` (Store's)
and `disk` (the payload of the vault file). A list maps entry ids to the facts
recorded of the entry: a host that was edited, a record that has its quick verdict and,
if the capture could read it, its checksum (`BackupCapture`: the errors of a capture are
dropped), a log with its start entry. An operation `o` runs through `pc[o]`; `snap[o]` is its
local copy of lists and `todo[o]` the lists it still has to save.

`Commit` is one section under `App.mu` (change, copy), `Save` one call of
`Store.SaveX` (replace the list, persist, perhaps fail); between the two other
operations run. `StartTransfer` to `RestoreNoPostQuery` are the parts of
`App.Backup` and `App.Restore` between two saves, `VerifyRead` and `VerifyWrite`
those of the verifications, `ImportMerge`, `Load` and `Assign` those of an import
and its `Reload`. `Unlock` and `Crash` begin and end a session. The transfers
themselves are one step here; they have modules of their own.

`latest` and `behind` are history variables: who holds the newest unsaved copy of
a list, and whether the store was left behind App's list by one of the three ways
in which the code allows that (a newer snapshot overtaken by an older one, an
import given up between two lists, a reload that picked up something older).

`AppInTurn` adds a monitor, `alone`: no two operations have overlapped so far. What is promised
of the history and the log in the vault file is promised under it.

### Vault

The vault file, the plaintext files of an older build, the session of `Store` and
the editor of the login screen. A passphrase is a prefix, of some length, of one of
a few words, so that silent unlocking with a half-typed key is a behaviour. The key
is the pair of passphrase and salt, and opens a file only if both are those it was
written with. One action per step of `Store.Unlock` that touches the disk, so that
a crash may fall between any two; removal goes path by path, each file before its
`.legacy` copy, and may fail at any of them. The program starts in a directory that may hold
a vault of an earlier session (`Earlier`), plaintext files and copies (`LeftCopies`) in any
combination; plaintext beside a vault need not be what was migrated into it.

`owned` is a history variable: what a vault has held, and the plaintext found where there was
no vault. That is what `NothingLost` is about. Plaintext that lies beside a vault without ever
having been migrated, and every `.legacy` copy, is removed unread (`vault.go:121-128`,
`:383-386`, and so `vault_security_test.go:33-52` wants it): whatever such a file holds is gone,
and no property says otherwise. `spared` says that this session was opened without removing the
copies: by `CreateVault`, which removes nothing, or by an `Unlock` whose last sweep (`vault.go:139`,
after the session is open, its error dropped) failed. `NoPlaintextWhileOpen` excepts it.

### BackupSSH

One call of `transfer.BackupSSH`. `pc` names the remote command or check the call
is at; `order` is the order of strategies `backupStrategies` chose. The dump is a
sequence of chunks, and every chunk in the local file carries the attempt that
wrote it, so that a file stitched together from two attempts, or from an older
file under the same name, is visible as such. `ValidGzip` is `gzip -t`: one
stream, complete up to its trailer. The download resumes by whole blocks of `dd`
(`MiB` chunks) as `BuildDownloadChunkCommand` does.

The code drops the error of every `os.Remove`. `Removed` is therefore nothing, or the file as it
was, and the metadata may stay as well; `stuck` is a history variable that says that a retry began with the
first attempt's file still there. A download then resumes from it: `RetryStartsClean` excepts that case,
`BackupIsWhole` does not.

The environment is the cancel button, the loss of the connection, and commands
that fail or hang at every step; `PossibleDumps` lets a dump be cut short anywhere, and
`Pipefail` says whether the remote shell can report that. With `Localhost` the
client is `LocalClient`, whose `Close` does nothing.

### RestoreSSH

A sequence of calls of `App.Restore` into one database. `db` is the sequence of chunks imported
since the database was last dropped, each with its call and attempt. `live` holds the import
processes on the server: each applies the input it has received (`Apply`) and ends (`Ends`),
whether or not anybody waits for it; `drops` holds DROP and CREATE commands whose client is gone
and which the server may still execute (`LateDrop`). The queries before and after are
`App.RunImportQuery`: a look at the context, a dial that knows none (`query` is `"dial"`), and a
command that a cancel ends (`"run"`). `alone` is a history variable: at the time the database was
created nothing of an earlier call was at work.

`RestoreCall` is the abstract specification of these calls, one after the other: while a call
works the database may be anything; complete is reported only when the database is the file
(`whole`), and from then on nothing touches it until the next call begins; of a call that
failed, or was not `alone`, nothing is promised. `RestoreSSH!Promise` instantiates it with
`state` read off the call (`Reported`: what the log says) and `whole` off the database
(`Restored`); `KeepsPromise` is the refinement.

### JobCenter

The window's thread, one worker goroutine per job, and the ticker. A frame is drawn
when `redraw` was set by `invalidate`. The Files tab reads the revision, rebuilds
its cache and draws in three steps; workers run between them. `RequestRefresh` is
`requestBackupsRefresh` with its 300 ms throttle (`recent`, `Pause`); the ticker's
look at the jobs and its reset of `jobTickerRunning` are two steps, as are `addJob`'s
append and its look at the flag.

### BackupCall, and how the transfers implement it

The abstract specification of a backup as `App.Backup` relies on it: a call has a
path of its own, may write anything there while it runs, reports success only
when the whole dump lies there, and never touches the path after it has returned.
`Leaves` is what a failed call may leave behind.

`BackupSSH!Promise` instantiates it with `outcome` read off `result` and `copy` off the local file
(`CopyState`: whole when it is the whole stream of one complete dump), and `WordPress!Promise`
with the calls of the plugin, `Leaves` being `{"none", "stuck"}`: every failure there asks for the
removal of the file, and one the system would not remove is `"stuck"`. `BackupSSH!KeepsPromise`
and `BackupKeepsPromise` are the two refinements, checked by TLC and proved.

### DeepVerify

One action per step of `App.DeepVerify`: the name of the temporary database (a second
of the clock), connecting, preparing, importing table by table, counting, verdict,
record, drop, and the deferred drop on every other way out. A row of a database names
the verification and the attempt that wrote it. `late` holds commands whose client is
gone and which the server may still execute (`Late`).

A dump may itself name a database, in one of the `Spellings`: USE with a name in backquotes, USE
with a plain name, or a form that begins otherwise (a qualified name, a statement inside a comment
the server executes). `Caught` is what the importer takes out: over SSH the sed of
`commands.go:266-272`, which knows backquotes only, through the plugin every statement that begins
with USE. An import of a dump that `Escapes` writes into production (`Target`), so the model can
violate what the screen promises, and `ProductionUntouched` says exactly when: never for the dumps
both filters catch, nor for those of DBack itself, which name no database. Each query over SSH has
a client of its own, dialled first (`QueryDialed`).

### Connect

A dial layer by layer (TCP, tunnel, handshake, host key, authentication), its retries, the
known-hosts file with its check and its creation as two steps, and the test of a connection that
uses it: the goroutine, the watcher that closes the client when the context ends, and the one
report all tests of the window share. `open` is the set of connections that are open; each close
of the code takes one connection out of it (`Closed`): the TCP connection of a failed handshake,
the jump host when there is no tunnel (`NoTunnel`), both when there is no handshake with the
target (`NoTarget`), and `ClientClosed`, the close of a finished client. What a way out forgets
stays open through the end of the test.

### AppBundle and SyncScreen

`AppBundle` is the pure part: what a bundle holds, which key opens it, which hosts conflict, and
the merge by id and then by name, with the maps `MergeProfiles` builds, extends and does not
change when it replaces an entry. `SyncScreen` composes it with the goroutines of push, pull and
import and with the window's one dialog. A handler of a dialog's OK button is two steps, the
callback and the `closeDialog` after it, since goroutines run between them. The password dialog
carries the file and what is typed for it, and `OnlyOwnKey` looks at the step in which hosts and
records come in: it is the merge of one bundle, opened with its own key.

### WordPress

Both sides of a call: the program's (`call`, `file`) and the plugin's (`work`, `db`).
A request whose client has gone is served to its end. The database is reached through
PDO, one connection per statement, or through the one connection of wpdb, which
reconnects. The export reads table by table, PDO in the snapshot its transaction began
with (`Connect`), mysqli each table as it is when its turn comes; the rows of a table come
in any order, for the `SELECT` names none. The import executes statement by statement.

A dump begins with its `Settings` (character set, foreign key checks, `SQL_MODE`, time zone). They
hold in the session that executed them: `lost` says that an import did not keep one session to its
end, because wpdb reconnected or because PDO connects anew for every statement. A statement that
runs without them (`Unsettled`) may be refused, or may write another row than the file's
(`Becomes`: an id of 0, a time, a letter), with success reported. `RestoredIsWhole` therefore has
two parts: every table has the rows of the file and no others (`ImportedRows`, by their `Place`),
and they have the file's values where `OneSession` holds.

A failed download is removed while it is still open, and the error of the removal is dropped;
`Removed` lets the file stay (`stuck`).

A *foreign dump* is any sequence of statements with two properties (`DumpAssumption`): it
defines a table at most once and before its rows, and it does not leave the database it is
restored to, that is, it neither drops the database of the site nor switches to
that of a verification. `mysqldump` writes tables that way, and neither the program nor the plugin asks it
for `--add-drop-database`. The files of the model's own exports get no assumption: that they
define tables first is part of the invariant.

### Preflight

`BuildPreflightScript` as the commands it consists of, for several SSH users at once: `df`, then
per candidate `mkdir -p`, `touch` and `rm -f` of one file name; then `validateParsedOutput`,
`selectTmpDir`, and what the strategies do with the directory. `MakeDir` fails where the user may
not write; a disk that others fill between the check and `mkdir` is not in it.

## What is checked

| Run | Instance | Properties | What it shows |
|---|---|---|---|
| `overlap` | AppStore, 2 operations of every kind in every interleaving, failed persists, 1 restart | `DiskMirrorsStore`, `Agreement`, `AloneCompleteIsRecorded`, `AloneVaultOnlyGrows` | the vault file is what Store holds after every successful persist; App and Store drift apart only in the three named ways; as long as no two operations have overlapped (the monitor of `AppInTurn`), nothing recorded disappears and a backup the log calls complete has its finished record |
| `vault` | Vault, 2 words of 3 characters, 2 restarts, with or without an earlier vault, any plaintext files, two possible copies | `NothingLost`, `KeyOpensVault`, `NoPlaintextWhileOpen`, `VaultKeepsPassphrase` | creation, migration and unlocking lose neither what a vault has held or is to take over nor the passphrase, wherever they are cut; no plaintext stays beside an open vault but where a creation or a failed last removal leaves it |
| `transfer` | BackupSSH, dumps up to 4 chunks, blocks of 2 | `BackupIsWhole`, `RetryStartsClean`, `CallEnds`, `KeepsPromise` | a backup reported as successful is the whole dump; a cancelled or disconnected transfer ends; the call implements `BackupCall`; all this with removals that fail |
| `restore` | RestoreSSH, 2 calls, files of 2 chunks | `ImportIsWhole`, `OneImport`, `CallEnds`, `KeepsPromise` | a complete restore imported its file exactly once; imports of a call do not overlap; a canceled call ends unless its post-import query is dialling; restores implement `RestoreCall` |
| `verify` | DeepVerify, 2 verifications of one backup, one over SSH and one through the plugin, dumps with USE in either spelling, 2 seconds | `VerdictIsOfTheFile`, `LeftoverIsExplained`, `ProductionUntouched`, `CancelEnds` | the verdict is about one complete import of the file unless the database was shared; a database left behind was left by an unanswered command; production changes only through a dump its importer lets through; a canceled verification is kept by nothing but a dial |
| `connect` | Connect, 2 tests; direct, jump host, plugin; 2 attempts per layer | `TypeOK`, `NothingLeftOpen`, `RetriedHandshakeFails`, `RunningIsAlive`, `CancelEndsCommand` | every way out closes what was opened; a report at "running" has a goroutine; the retries of the handshake behind a jump host never help |
| `sync` | SyncScreen, 2 goroutines, 3 ids, 2 names, one foreign key, three files | `ScreenTypeOK`, `OnlyOwnKey`, `ReplacedWasListed`, `PushKeepsWhatWasPulled`, `LoadingEnds` | what comes in, what is replaced and what is pushed; loading dialogs stay only while something waits for the network |
| `site` | WordPress, 2 calls, 2 tables, PDO and wpdb, 1 change of the site, 1 fault | `RestoredIsWhole`, `BackupKeepsPromise`, `VerifyLeavesSiteAlone`, `CancelEndsCall` | success through the plugin means the whole dump, or every table row for row, and value for value where the settings of the file were kept |
| `tmpdir` | Preflight, 2 calls, 2 users, 4 servers, room 0 to 2 | `ProbeIsTrue`, `DeniedByAnotherUser` | the shared test file does no harm among calls of one user; a directory that passed is denied only by another user |
| `screen` | JobCenter, 2 jobs | `OneTicker`, `CacheIsCurrent`, `FinishedIsDrawn`, `ProgressAppears` | the flags and caches the goroutines share stay consistent; what happened is drawn |

The runs `silent` and `again` check statements of the documentation that the code does
not keep; see [below](#where-the-code-departs-from-its-documentation).

`CHECK_DEADLOCK FALSE` is set everywhere: operations, calls and jobs end, restarts
and keystrokes are bounded, and the system may then rest.

### The bounds and why they are enough

- *AppStore.* Two operations: every property is about one operation and one it
  overlaps with, and every race (overtaking, reload between commit and save, import
  given up) needs two. A third entry id (`old`) is the record of an earlier session
  that both may touch. One restart suffices for what a crash leaves; a second starts
  from a vault of the same kind.
- *Vault.* Two words tell a right passphrase from a wrong one. `MinKeyLen` is 2 of at most 3
  characters, so a key may be empty, too short, minimal or longer. Two restarts cut a migration
  and the repair of the cut migration. Salts are bounded by `MaxSalt` = 2: a vault is written anew
  only when there is none. One earlier vault, under one of the words, makes the typed key right or
  wrong for it; the first and the last file of the removal may have copies.
- *BackupSSH.* Four chunks with blocks of two: a resume in the middle of a block and
  on its border, a leftover shorter than a block and longer than one, a dump cut
  before and after them.
- *RestoreSSH.* Two calls make an import meet a later call; files of two chunks let an
  import be cut, and let the second call begin, halfway.
- *DeepVerify.* Two seconds let two verifications share a name or not; one table lets an import be
  missing, present once, or present of another attempt; a damaged file has none. A dump with USE
  in backquotes is caught by both filters, one with a plain name by the plugin's only.
- *Connect.* Two tests are what a stale goroutine and a newer report take. The code
  makes three attempts per layer, the instance two: one that is retried and one that
  is the last. The first known-hosts file is missing, right, or has an old key.
- *SyncScreen.* Two goroutines and one `asides` step (an edit, or another goroutine's
  dialog) come between any two steps of a pull. Three ids and two names make the cases of
  the merge: same id, same name under another id, both of two different hosts, neither.
- *WordPress.* Two calls: the second meets what a canceled first left running. Two
  tables let the site change one between the reads of both. The foreign dump, that of all databases of a
  server, begins with settings, creates a database and switches to it; one fault is one reconnect.
- *Preflight.* Two calls meet at one test file; two users tell an own directory
  from a foreign one; room 0 to 2 is none, enough for a small and for a large need. Users are
  unprivileged.
- *JobCenter.* Two jobs make one that ends meet one that starts; one change of the records and
  one message per job are what a stale cache or a dropped message takes (the messages of
  two jobs throttle each other). The two theorems hold for any numbers.

### Fairness

- `BackupSSH!FairSpec`, `RestoreSSH!FairSpec`: weak fairness of the steps that wait for nothing
  (`Local`), of the watcher goroutine, and of steps that wait for the remote machine *only once
  the client is closed* (`WF_vars(~up /\ Remote)`): a remote command may hang for ever, and the
  SSH library returns an error from every pending call when its connection is closed. A query that
  runs closes its own client on a cancel (`app.go:449-457`), whence `WF_vars(canceled /\
  RunQuery)`. Dialling gets none, neither that of the transfer nor that of a query (`app.go:443`):
  it knows no context, and its handshake has no deadline (`client.go:164`, `:257`).
- `JobCenter!Spec`: the window draws, the ticker ticks and a worker that has begun to
  finish goes on; these are goroutines the Go scheduler runs and that wait for locks
  only. The operation itself (`Progress`, `Change`, `Return`) gets none: it may
  take for ever.
- `DeepVerify!FairSpec`: the steps on the local machine and the watcher; steps that wait
  for the server only once the client is closed or, where a query has its client (`Asks`) and closes it on
  a cancel, once the call is canceled; the deferred drop once it has its client, for its context runs out.
  Nothing while the server may simply not answer, and nothing for a dial.
- `Connect!FairSpec`: the watcher, and the return of a command whose client is closed. A dial
  gets none: no cancel reaches it.
- `SyncScreen!FairScreenSpec`: the steps of goroutines that wait for nothing (`Previewed`,
  `Applied`, `Snapshotted`), and the end of a click handler. What waits for the network gets none:
  sync runs without a read timeout, and the dialog of a query waits for a dial. The user may do
  nothing.
- `WordPress!FairSpec`: only steps of the program that follow a cancel or an end of the data;
  nothing of the site.
- AppStore, Vault and Preflight state no liveness.

### What every property is worth

Each property of each passing run is broken by a change of one definition that
resembles a bug: a snapshot taken before the change, a retry that keeps the partial
file, a watcher that ends with its first session, a reset that forgets the
revision, and so on (`mutants` in `PROJECT.json`).

## What is proved

TLAPS checks these for every value of the constants that satisfies the named assumptions
(`OpsAssumption`, `DataAssumption` and `JobsAssumption` of AppStore; `KeyAssumption`,
`EditsAssumption`, `NoneAssumption`, `EarlierAssumption` (an earlier vault is encrypted with its
own salt) of Vault; `LenAssumption`, `MiBAssumption`, … of BackupSSH; `CallsAssumption`,
`SizeAssumption`, … of RestoreSSH; `JobsAssumption`, `BoundsAssumption` of JobCenter;
`PathsAssumption`, `AttemptsAssumption`, `KnownAssumption` of Connect; `TablesAssumption`,
`VerifyAssumption` of DeepVerify; `KindAssumption`, `SizeAssumption`, `DumpAssumption`,
`QueryAssumption` of WordPress; `UsersAssumption` (users have names) and `RoomAssumption` of
Preflight; `StartAssumption`, `BoundsAssumption`, `BundlesAssumption` (a bundle holds a list of
hosts) and `OthersAssumption` of SyncScreen: what other devices push is an app bundle under some
key, for `store.go:459-467` encrypts always). TLC evaluates all of them on every run.

| Module | Theorem | Statement |
|---|---|---|
| AppStore_proofs | `TypeCorrect` | `Spec => []TypeOK` |
| | `DiskMirrors` | `Spec => []DiskMirrorsStore` |
| | `AgreementHolds` | `Spec => []Agreement` |
| | `AloneCompleteHolds` | `InTurnSpec => []AloneCompleteIsRecorded` |
| | `AloneVaultGrows` | `InTurnSpec => AloneVaultOnlyGrows` |
| Vault_proofs | `NothingIsLost` | `Spec => []NothingLost` |
| | `SessionKeyOpensVault` | `Spec => []KeyOpensVault` |
| | `OpenMeansEncrypted` | `Spec => []NoPlaintextWhileOpen` |
| | `PassphraseIsKept` | `Spec => VaultKeepsPassphrase` |
| | `TypeCorrect` | `Spec => []TypeOK` |
| | `OnlyOwnKeyIsRead` | `ScreenSpec => OnlyOwnKey` |
| | `PulledRecordsAreKept` | `ScreenSpec => PushKeepsWhatWasPulled` |
| | `MergeReplacesWhatIsListed` | for host lists of any length, what `MergeProfiles` replaces is among `Conflicts` |
| | `OnlyListedAreReplaced` | `ScreenSpec => ReplacedWasListed` |
| | `ScreenTypes` | `ScreenSpec => []ScreenTypeOK` |
| BackupSSH_proofs | `ReportedIsWhole` | `Spec => []BackupIsWhole` |
| | `RetryIsClean` | `Spec => []RetryStartsClean` |
| | `ImplementsBackupCall` | `Spec => KeepsPromise`, the refinement of `BackupCall` |
| | `TypeCorrect` | `Spec => []TypeOK` |
| RestoreSSH_proofs | `CompleteIsWhole` | `Spec => []ImportIsWhole` |
| | `ImportsDoNotOverlap` | `Spec => []OneImport` |
| | `ImplementsRestoreCall` | `Spec => KeepsPromise`, the refinement of `RestoreCall` |
| | `TypeCorrect` | `Spec => []TypeOK` |
| JobCenter_proofs | `NeverTwoTickers` | `Spec => []OneTicker` |
| | `CacheNeverStale` | `Spec => []CacheIsCurrent` |
| | `TypeCorrect` | `Spec => []TypeOK` |
| Connect_proofs | `EverythingIsClosed` | `Spec => []NothingLeftOpen` |
| | `RetriesAreVain` | `Spec => []RetriedHandshakeFails` |
| | `ReportsEnd` | `Spec => []RunningIsAlive` |
| | `TypeCorrect` | `Spec => []TypeOK` |
| | `ProbesAreTrue` | `PreflightSpec => []ProbeIsTrue` |
| | `DenialsAreExplained` | `PreflightSpec => []DeniedByAnotherUser` |
| DeepVerify_proofs | `VerdictsAreOfTheFile` | `Spec => []VerdictIsOfTheFile` |
| | `LeftoversAreExplained` | `Spec => []LeftoverIsExplained` |
| | `ProductionIsSafe` | `Spec => ProductionUntouched` |
| | `TypeCorrect` | `Spec => []TypeOK` |
| WordPress_proofs | `RestoresAreWhole` | `Spec => []RestoredIsWhole` |
| | `VerifyIsolated` | `Spec => VerifyLeavesSiteAlone` |
| | `ImplementsBackupCall` | `Spec => BackupKeepsPromise`, the refinement of `BackupCall` |
| | `Invariance` | `Spec => []Inv`, types included |

### The arguments

- *AppStore.* `Agreement` is not inductive: it says nothing while saves are
  outstanding. `LatestOK` does: the operation that committed a list last holds a
  snapshot equal to App's list and has it among its pending saves, and a list nobody
  holds was saved or is marked `behind`. Only `Commit`, `Save`, `ImportMerge` and
  `Assign` touch it. `TodoOK` (who saves has something to save) is needed for types.
  For operations one at a time `Turn` holds: the vault file holds no more of history and log than
  Store, and Store no more than App (`Kept`), because what the one operation under way holds of
  App's lists, as a snapshot or as a copy of a record, is still what App has (`Working`). A save
  that fails or a crash only leaves a later copy ahead of an earlier one.
- *Vault.* The invariant says at each stage of a call what the stages before established
  (`CallOK`: removals run only where a vault exists, reading only where no plaintext is left),
  that the file is encrypted with a key of its own salt, and that Store's lists hold what the
  vault holds (`FileOK`). With that `NothingLost` is inductive: a plaintext file is removed only
  beside a vault, the vault is written over what was migrated or by a save of lists that hold all
  of it. Once reading has begun no plaintext file is left; the copies go before the call is over,
  or `spared` says why not.
- *BackupSSH.* `Shown` accumulates what the checks passed so far have shown of the dump.
  `NoOwnMeta` says that the metadata of this call exists only from its download on, or where it
  could not be removed before a second attempt that streams: a call never skips the dump of its
  second attempt. With the lengths and the `gzip` check, which a mixture of two streams does not
  pass, the last check makes the file the dump of one attempt. The refinement of `BackupCall`
  rests on the same invariant: the step that returns success maps to `Succeed` because the last
  checks have shown the file whole (`OkIsWhole`), one that returns an error to `Fail`, any other
  that writes to `Write`; and after the return (`Returned`) no step is taken.
- *RestoreSSH.* While an import of the call is running the database is the prefix
  it has applied (`Underway`), provided nothing else has been at work since the
  database was created (`Alone`). `QuietServer` says where no import of the call can be
  running: before the first, and between two attempts over a client that still works,
  because such an attempt ended only after its import had. `OneImport` rests on it.
  The refinement of `RestoreCall` needs one invariant more (`Rested`): after a complete restore
  that was alone nothing is left on the server. Then every step of the server that is not of a
  running call maps to `Late`, and `Late` is possible only after a call that failed or was not alone.
- *JobCenter.* Every change of the records is counted by the revision or about to be
  (`Counted`, a count over the workers that have changed and not saved), so that a
  revision never runs ahead of the records; rebuild reads the revision first
  (`SeenOK`), so a cache is never older than its revision claims.
- *Connect.* Most of the invariant (`Good`) is about the record of one goroutine, so a step needs
  to show it of one new record only (`GoesOn`). `Unclosed` says what may be open at each place, so
  that the closes of each way out, one by one, can be seen to be all that are needed. `FirstShake`
  is what makes the retries vain: behind a jump host a handshake is either the first or over a
  connection known to be broken. `Owned` says that the context of a running report's owner was not
  ended by the Cancel button; only such an end is not written.
- *Preflight.* A directory that is there keeps its owner (`OwnerStays`), so what a call has found
  stays so; a test file belongs to the user of some call (`ProbeOwned`), so among the calls of one user
  nobody's `touch` or `rm` can be refused because of it. `Searched` says what a call knows of the candidates
  it has tried, `Chosen` that the base it selected was writable or is `/tmp/dback`.
- *SyncScreen.* `ScreenInv` follows a bundle on its way: until the key is looked at it is one that
  opens only if it is ours (`ForUs`), then it is under our key (`Ours`), so that a merge is of
  such a bundle or of a file whose password dialog is up (`OnlyOwnKey`), and the base a push was
  read from is within what is pushed (`Within`). For the hosts, `TypeInv` adds that a bundle which
  is merged without a question has no conflicts with the list it was compared with. What the merge
  does is an induction over the hosts of the bundle. The library's induction rules take an
  operator as a parameter, which the provers cannot instantiate; the proofs use a set of numbers
  instead: the order of the naturals is well-founded (`LeastNumber`), so a set that holds 0 and
  with every number the next is all of them (`AllNumbers`). That gives the function a fold is
  defined by (`FoldExists`), its value at one more element, and the invariant of the merge
  (`Merging`): every entry of the old list is where it was or among the conflicts, and each index
  leads from an id or a name of the old list to its last position there (`Leads`).
- *DeepVerify.* `VerdictIsOfTheFile` is about the end of a count. The invariant says what leads
  there: while an undisturbed verification imports, its database holds exactly the rows of this
  attempt for the tables that are done (`ImportOK`); while it counts, the rows of one attempt
  (`CountOK`), and the counts are those of the tables counted (`CountedOK`). All three are about a
  verification that is `Alone` with an undamaged file; a step of another then writes to a database
  of another name (`Elsewhere`), so one lemma carries them over (`SameLocal`). A command that
  comes late could break them if its verification were still at work. It is not: `LateOK` says
  that it has failed and is on its way out. `DbsNamed` (a database nobody is named after is not
  there) makes a new name start clean. For `ProductionUntouched` every step is looked at: what a
  verification prepares and drops has the name of a second, and only an import of a dump that
  escapes has another target.
- *WordPress.* The invariant is local: it is about the call, the request, the file and the target
  of one `i`, and a step of another call changes of these at most that the request was `alone`
  (`Spared`). For a restore, what is left to execute is the end of the file or was cut off with
  the upload (`Rest`, `CutOff`), and the target holds, for every table defined so far, what the
  statements before have put there (`Loaded`), not as the file has them but as some reading of the
  file that keeps every row in its place (`Reads`); while the session was never lost (`Steady`),
  and so has its settings, that reading is the file itself (`Arrived`). `DefinesFirst` carries
  that over a statement: a definition empties a table of which nothing of the file is there yet,
  and a row adds to a table the file has defined. A cut upload ends in a statement that is
  refused, so success means the end of the file was reached. For a backup, what was read of the
  tables and not lost with a connection is in the file or in the queue (`Kept`), and the queue is
  in order (`Ordered`): behind a row only rows of the same table wait, so that a read that ends
  early loses rows of that table only. `VerifyLeavesSiteAlone` needs that a step writes to one
  database (`OneDatabase`), and that the session of an import into the temporary database is in
  that database (`RestoreOK`); that holds because `should_skip_verify_statement` skips what would
  switch it, and a reconnected session is a fresh one. In the refinement a call's success is the
  step `Check` of a whole file, and after its return neither side changes what the refinement
  reads of it.

### Only model-checked

Liveness (`CallEnds` of `transfer` and of `restore`, `FinishedIsDrawn`, `ProgressAppears`, `CancelEnds`,
`CancelEndsCommand`, `LoadingEnds`, `CancelEndsCall`) is outside the prover's reach, as is
fairness. Every safety invariant and every action property of the passing runs is proved.
Type correctness is proved of every component, of Preflight and WordPress as part of the invariant;
only `connect` and `sync` also check it.

## Where the code departs from its documentation

| Run | Where | What |
|---|---|---|
| `silent` | `store/vault.go:144` | "Vault creation always requires an explicit button press"; with plaintext files the first keystroke creates the vault, under a key of one character |
| `again` | `transfer.go:401` | an import left on the server by a lost connection writes into the database a later restore has recreated and reports as complete |

Departures the models show, and which no run states on its own:

*Core and transfers*

- `UpdateHistoryRecord` "persists a single updated backup history entry" (`verify.go:34`);
  it saves a snapshot of all records (`verify.go:51`) and can undo another's update.
- "download with resume (`.meta` metadata)" (`agent.md:205`): the offset is the length of
  whatever shorter file lies there (`metadata.go:89`), and metadata of an earlier call never match.
- Cancel controls for jobs (`README.md:92`): on localhost nothing is closed
  (`ssh/local.go:23`), and the transfer goes on.
- "close SSH on cancel" (`agent.md:809`): the second attempt of a restore looks at no context
  (`transfer.go:558`), and nothing watches if the first failed in its preparation.
- A backup through a jump host starts with the tmp-file strategy, which looks at its
  context only at the download (`transfer.go:266`). This is why `CallEnds` speaks of calls
  that a watcher watches.
- The README asks for a master key of at least 8 characters (`README.md:281`);
  `minMasterKeyLen` is 4.
- A job added between the ticker's look at the jobs and `jobTickerRunning = false`
  (`jobs.go:127-129`) gets no ticker. This is why `ProgressAppears` asks for one that waits.
- Cancel of a query or of a restore's queries: `RunImportQuery` dials without its context
  (`app.go:443`), and a handshake has no deadline, so a canceled call may wait there for ever.
  This is why `CallEnds`, `CancelEnds` and `LoadingEnds` except a dial.
- "SHA256 checksum + table fingerprint at backup time" (`README.md:53`): the capture drops its
  errors (`verify.go:54-65`), and the log calls the backup complete without them; `README.md:131`
  grants that a capture can fail.
- Every `os.Remove` of a partial file drops its error (`transfer.go:117`, `:171-195`,
  `transfer_wordpress.go:80-92`), and most come while the file is still open, which some systems
  refuse.
- Plaintext beside a vault, and `.legacy` copies, are removed unread when a passphrase is tried,
  right or wrong (`vault.go:123-128`).
- `finishJob` resets the cache after it has asked for the last redraw
  (`jobs.go:99-100`): a frame between the two may draw an empty Files tab.

*Verification*

- A "unique temporary database name" (`fingerprint.go:24`) has the resolution of a second.
- "The temp database is deleted when verify finishes." (`ui/verify.go:190`): the error of the
  deferred drop is ignored.
- A restore of a verification "without allowing USE/CREATE/DROP statements in the SQL to touch
  other databases" (`commands.go:260-261`): the filter knows these statements at the beginning of
  a line, and USE with backquotes only. A dump that names its database otherwise goes there, and
  the screen's "Your production database is not modified" (`ui/verify.go:190`) would not hold for
  it. The dumps DBack makes (`commands.go:95-120`) name none.
- A fingerprint without tables passes whatever the file holds (`fingerprint.go:77-88`).
- On a site without PDO a deep verification always fails: `prepareVerifyDatabase`
  (`verify.go:261`) sends two statements in one line, and the plugin splits at line ends only.
  `QuickVerify` is called by no screen.

*Sync and dialogs*

- "conflicts prompt before overwrite" (`README.md:159`): the handler of OK closes the dialog its
  callback has just shown (`ui/dialog.go:207-216`), so the conflicts of an imported file are
  never seen and the file is not imported. Errors and infos shown in a callback go the same way.
- A dialog that is replaced by another goroutine's leaves `syncPushPending` set, and a later
  plain pull ends with a push.
- `MergeProfiles` leaves its index by name alone when it replaces a host (`store.go:611-633`): a
  later host of the bundle can replace one under its old name.
- An encrypted bundle in the format of earlier versions cannot be imported (`store.go:333-350`).
- A canceled update closes whichever dialog is up (`about_update.go:87-90`).

*Connections*

- The retries of the handshake behind a jump host (`client.go:250-271`) use the connection on
  which it failed; `RetriedHandshakeFails` says they never help. A handshake has no timeout.
- A test that fails in its dial after its cancel reports as failed, not as canceled
  (`host_connection.go:69-74`), into the record of the test started since.
- The known-hosts file is looked for and created in two steps (`knownhosts.go:38-42`): two
  first connections at once can drop the key one of them has saved.

*WordPress*

- The plugin's import opens a new PDO connection per statement (`class-dback-database.php:348`):
  the session variables that the dumps of its own PDO export save and restore are gone,
  and such a dump does not re-import (`wordpress_agent.md:499`, `:693`).
- The settings at the head of a dump (`class-dback-exporter-mysqli.php:30-33`) are lost in the
  same way, and when wpdb reconnects: rows with an id of 0, times and letters may be restored
  changed, and success is reported.
- The export through wpdb writes `SET time_zone = "+00:00"` but reads the rows in the time zone of
  its own session.
- A connection lost while rows are read ends the table like its last row does
  (`class-dback-exporter-mysqli.php:152`), although an export is meant to fail then
  (`wordpress_agent.md:267`). It is the exception in `BackupKeepsPromise`.
- A canceled import goes on in the plugin, and an upload that breaks is imported as far as it got.

*Preflight*

- "Allow fallback when another candidate path is writable" (`validate.go:222`): `Run` uses the
  selected directory all the same (`preflight.go:60-72`), so a `/tmp/dback` of another user lets the
  preflight pass and every tmp-file strategy fail.
- A server that has `zstd` only passes, and its dumps are compressed with it
  (`commands.go:142`); the check of the finished file knows `gzip` only, and every backup fails.
- In Docker the dump is compressed in the container, which the check does not look into.

## What is not modelled

- *Formatting*: log texts, layout, forms, progress percentages, SQL templates.
- *Cryptography*: a key opens what was encrypted under it and nothing else.
- *Quoting and parsing* (`backend/db`): what a command does is modelled where it is
  run; that it is quoted correctly is not.
- *Races on single words* the window reads without a lock (a job's status text): the
  model draws a job in one step; the next frame repairs it.
- *In BackupSSH* two calls that write the same file at the same time (the name has a
  resolution of a second); a leftover under the name is modelled.
- *In RestoreSSH* what the user's SQL does to the database, and localhost.
- *In AppStore* the merge is by whole entries, as in the code; which entries meet is in AppBundle.
- *In Vault* what plaintext beside a vault, or a `.legacy` copy, holds: nobody reads it.
- *In DeepVerify* what else than its database a statement of a foreign dump may do.
- *In Connect* the proxy, and commands on localhost.
- *In WordPress* authentication, the lookup of REST routes, and time limits of PHP other than as
  a killed process; which values a session without the settings changes, and what a time means in a zone.
- *In Preflight* a disk that fills between the check and the use of a directory, root, and
  directories on a third file system.
- *The updater*: it is one goroutine that downloads, compares a checksum and installs, and its
  interesting part, replacing a running program, is done by the operating system. Two hazards
  seen while reading it: the goroutine of a canceled download removes the `.part` file that a
  second download has begun, and an installation ends the process while transfers run.
- Window placement, packaging, build scripts, the vendored PHP library.

## Plan

Done, in this order: AppStore, Vault, BackupSSH, JobCenter, RestoreSSH; then BackupCall,
DeepVerify, AppBundle, SyncScreen, Connect, WordPress, Preflight; then AppInTurn and
RestoreCall, and the proofs of every safety property.

Next, in this order:

| Next | What | Why |
|---|---|---|
| 1 | `RestoreCall` per call, which restores through the plugin implement too | there several calls meet in one database, and what one leaves running writes beside the next |
| 2 | a *catalog* with atomic durable operations, which AppStore implements while no two operations overlap | the monitor of `AppInTurn` as a refinement |
| 3 | the updater | a canceled download beside a second one |

## Running it

```
tlc -config MCRestoreSSH_restore.cfg MCRestoreSSH
tlapm RestoreSSH_proofs.tla
```

With two workers `overlap`, `site` and `verify` take about three minutes, `screen`, `sync`,
`connect` and `tmpdir` about one, every other run less. From nothing `WordPress_proofs` takes ten
minutes or so, every other proof module a few. `PROJECT.json` lists the components, the runs with
the outcome expected of each, the mutants, the lines of code each definition models, the findings,
the hazards and the theorems.
