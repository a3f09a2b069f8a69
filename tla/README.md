# A verification development of Brave Vault

Brave Vault is a password manager on top of Brave Sync: a Tauri desktop app
(`crates/app`) that holds the unlocked sync session, a broker inside it that
lets agents use credentials they never see, a native messaging host that fills
them in the browser, and a core library (`crates/core`) with the sync client,
the agents' data model and the cryptography.  This directory models the parts
of it where order, failure and concurrency decide, checks them with TLC and
proves the central invariants with TLAPS.

Paths below are relative to the repository; `lib.rs` and `broker.rs` are those
of `crates/app/src-tauri/src/`, `core/` is `crates/core/src/`.

## 1. Inventory

| Part | Code | State | Operations | Hard | What makes it correct |
|---|---|---|---|---|---|
| Injector rendezvous | `broker.rs` 92-202, 249-284, 783-1156; `crates/injector-host/src/main.rs` | job queue under a mutex and condition variable, map from job id to result channel, count of connected injectors | dispatch, poll, take, report, time out, cancel, connect, disconnect | wake-ups against timeouts, hosts dying at any point, an outcome racing the caller's timeout | at most one execution per job, `ok` only after it, every call answered, no job forgotten while somebody polls, no leaked channel, the count right |
| Extension bridge | `src/extension/`, `crates/injector-host/src/` | the extension's one port, host processes, tabs, permissions | connect, pass a job on, find or open a tab, fill, read cookies, answer | the worker is torn down, tabs move, ports close and open between any two steps | a fill only on the item's origin; `ok` only for what was done; a host never waits for ever |
| Vault file | `lib.rs` `load_vault`, `write_vault`; `core/vault/mod.rs` | one sealed file with every section of `VaultData` | load whole, change a section, write whole | no lock between load and write; `fs::write` truncates first; an unreadable file loads as an empty one | a section changes only by what its owner did |
| Durable outbox | `lib.rs` 193-308, 1190-1220; `core/session.rs` commits | the `outbox` list in the vault file; the chain at the server | queue, commit, clear; replay at start | crash between any two, lost answers, a replay beside new commands, a command failing for good | nothing queued is lost; nothing done stays queued; order; it drains |
| Overlay and list | `lib.rs` 63-147, 322-393, 917-972; `App.jsx` 236-330 | rows shown; the number of the last request | rebuild the rows, patch them with the outbox; list a view | must agree with what the commits will do; answers out of order, handlers of an older render | rows = what the chain will be once the outbox is empty; rows of the view that was chosen |
| Grants and handles | `core/agent/model.rs`, `broker.rs` 398-874, 1024-1249, `lib.rs` 1367-1529 | handles, grants, audit in the vault file | enrol, request, consume, perform, grab a session, revoke, pre-create, expire | a decision taken before a prompt of 120 s or an injection of 30 s is written back after it | a single-use grant is used once; a revoked handle gets nothing; scope of a grant is never exceeded |
| Approval prompts | `broker.rs` 105-121, 1308-1339; `lib.rs` 1320 | map from request id to channel | register, resolve, time out, unregister | an answer racing the timeout | an approval counts for the one request it was given to |
| App session | `lib.rs` 724-839, 1048-1062, 1304-1311 | `AppState` (vault key, session, items) | unlock, join or generate a chain, sync, lock | long calls with no lock held across them | nothing unlocked comes back after `lock` |
| Stale-device purge | `lib.rs` 1130-1177, `core/session.rs` 356-457 | cancel flag, list of devices | purge, cancel, remove one | cancel against a second purge; failure half-way; devices that sync meanwhile | only stale devices removed; a cancellation is kept; the list is told |
| Sync client | `core/sync/client.rs`, `core/sync/commit.rs`, `core/session.rs` | progress token, entities received | fetch all pages of a type, commit | paging bound, changes between pages, undecoded answers, types that fail quietly | what stayed on the chain is read once; a commit overwrites only what it has seen |
| Key bag, crypto | `core/crypto/` | keys of the chain | open with any, seal with the same | a new key between two fetches | an entity keeps its key |
| Time words | `core/crypto/time_words.rs` | none | make, parse a code | rounding; an index that wraps | a fresh code is accepted, a stale one refused |
| Item resolution, origins | `core/agent/resolve.rs` | none | match a query, compare origins | look-alike hosts | never a credential of another origin |
| Identities | `crates/app/src-tauri/src/injector.rs`, `crates/injector-host/src/store.rs`, `crates/agent-cli/src/` | a handle in the vault, its secret in a keychain, its id in a file | provision at every start; enrol, forget, revoke | three places written in turn by two programs, any step failing or the last | whoever is named can prove it |
| Favicon cache | `core/favicon.rs`, `lib.rs` 1225-1301 | files per host, version of the rules | fetch, mark current | overlapping fetches, closing, new rules | nothing older rules had found hides an icon for ever |
| Transport, password generator, rest of the UI and tools | the rest | sockets, text | I/O | none of their own | - |

How they interact:

* An agent's call arrives on a thread of its own (`handle_conn`).  It loads the
  vault file, decides, may prompt the user and block on a channel
  (`prompt_user`), may queue a job for the injector and block on another
  (`perform_inject`), and writes the vault file back.
* An injector host is one more client of the same socket: its thread blocks on
  the condition variable in `take_next_job` and resolves the caller's channel.
* The user's mutations run on threads of their own (`commit_durable`): queue in
  the vault file, build a `Session`, commit to the sync server, clear.  The main
  window starts `replay_outbox` when it opens (`App.jsx` 304-316), beside them.
* Sync, favourites, agents, provisioning and outbox share the vault file, each
  reading and writing all of it.
* A sync, and the favicon fetch behind it, run on threads of their own and fill
  `AppState` when they are done; lock, unlock, join and toggle run one after the
  other on the main thread in the meantime.
* The browser starts a host for each port the extension connects.  The host
  polls the broker, passes a job on over the port and reads until the answer to
  it; the extension's handlers run interleaved in one service worker and answer
  on the port there is by then.

`PROJECT.json` lists the hazards of this code at the line where each bites, and
the properties that cover them.

## 2. Plan

| # | Module | Models | Abstract specification, properties | Proof |
|---|---|---|---|---|
| 1 | `InjectBroker` | rendezvous | implements `InjectPromise` | done |
| 2 | `VaultFile` | load and write of the file, its content a parameter | used through EXTENDS by 3, 4, 5 and 11 | done: lemmas cited by 3, 4, 5 and 11 |
| 3 | `Outbox` (+ `VaultFile`) | queue, commit, clear, replay | queued until answered, done is cleared, order, drains | done but for draining (liveness) |
| 4 | `Access` (+ `VaultFile`, `InjectPromise`) | grants and handles with the prompts and injections they wait for | uses accounted for, revocation sticks, logged, sanctioned | done |
| 5 | `AppSession` (+ `VaultFile`) | unlock, lock, join, sync, favorites | empty when locked, one chain, in step, shown is cached | done |
| 6 | `Purge` | purge and cancel | only stale devices, cancel kept, list told | done |
| 7 | `ListView` | requests of the list and the handlers that make them | rows are of the view | done |
| 8 | `SyncPull` | paging over a chain that changes, key bag, commit | exact, keys kept, dropped only if changed | done |
| 9 | `Overlay` | overlay and flags against the commits | foreseen is drained, nothing hidden | done |
| 10 | `TimeWords` | the day word | fresh accepted, stale refused | done |
| 11 | `Identities` (+ `VaultFile`) | provisioning, enrolment, forgetting | holder can prove | done |
| 12 | `ExtensionBridge` | from the broker to the page and back | fill is true, host comes back | fill is true done; coming back is liveness |
| 13 | `Favicons` | the icon cache | marked is re-evaluated | done |

`InjectBroker` implements `InjectPromise` (`Promise`, an INSTANCE with what the
caller was told for `answer`), and `Access` takes the injector for that promise.
`ExtensionBridge` is what lies beyond a host: what `InjectBroker` leaves to the
host's free choice (carry a job out or not, answer, fail or die) is every
outcome `ExtensionBridge` has, and `HostComesBack` says when a host that took a
job is heard of again.  `Access`, `Outbox`, `AppSession` and `Identities` share
nothing but the vault file; each treats the others as what they are to it,
writers of another section (`LoadOther`), or leaves them out where it has
enough writers of its own.

Every safety property that a passing run checks, invariants and action properties
alike, is a theorem of the specification it belongs to; the composite
specifications imply those of their parts.  What is left to TLC is liveness, and
the violations (section 5).

## 3. Modules

### InjectBroker

One job is one PERFORM or GRAB_SESSION call; ids are random and fresh, so job
and call share a name.  One connection is one run of `handle_conn` with the
native host at its other end.

| Model | Code |
|---|---|
| `inject_queue`, `inject_results`, `injectors_present` | fields of `BrokerHandle` |
| `channel` | the `mpsc` channel between `resolve_inject` and `recv_timeout` |
| `call`, `Refuse`, `Register`, `Enqueue`, `Notify` ... `Cancel` | `perform_inject` (and the same steps of `handle_grab_session`) with `dispatch_inject`, `cancel_inject` |
| `pc`, `Take`, `Sleep`, `SpuriousWake`, `Keepalive`, `GiveUp` | `take_next_job`, the queue lock being the atomicity |
| `Poll`, `Reply`, `ReplyFails`, `Resolve`, `Ack`, `Hangup` | `handle_conn` with `handle_await_job`, `handle_job_result`, `handle_session_result` |
| `Run`, `HostDies` | the host's loop and the extension's answer |
| `acted` | history: how often the browser carried a job out |

Registering the channel, pushing the job and notifying are three actions: the first two
take a lock each, and the guard of the queue's is dropped at the end of the statement
that pushes (`broker.rs` 157), so `notify_one` comes after it and others may run in
between.  There a job is queued and every poller may sleep; `NoLostWakeup` says that its
caller is then about to notify.  A job taken for a dead host is lost to others, as in
the code.  The time is abstracted: a timeout may fire at any moment it is armed.  The
audit entries and the grant a PERFORM belongs to are in `Access`. `InjectPromise` is the
abstract specification: a job is carried out at most once, and success is told only
after it; an error promises nothing.  The refinement mapping (`toldCaller`, `Promise`)
reads it off `call` and `acted`.

### VaultFile

`file` is the content of one section, or `Unreadable` between the truncation
and the write of `fs::write` (a reader then gets `None`, and
`unwrap_or_default()` an empty vault).  `copy` is each thread's loaded and
changed copy; `writing` holds the threads between truncation and write.  Two
writers at once may leave a file that does not open (`Fill`).  `fresh`,
`overlapped` and `interrupted` are history: whose copy is of the file's last
version; that a thread wrote back a copy that was not fresh, or loaded the file
while another was writing it; that the app was closed in the middle of a write.
Sealing is not modelled: a complete file opens with the key the app holds.

### Outbox

| Model | Code |
|---|---|
| `file` (sequence of commands) | `VaultData.outbox`, an entry id being its command |
| `Submit`, `BeginWrite`, `EndPush` | `outbox_push` |
| `Fetch`, `NotApplicable`, `NetworkFails`, `ServerAccepts`, `ServerConflict` | `apply_outbox_op` with `Session::new`, `commit_*`, `SyncClient::commit_entity` |
| `Remove`, `BeginWrite`, `EndClear` | `outbox_remove` |
| `StartReplay`, `NextEntry`, `GiveUp` | `replay_outbox` |
| `LoadOther`, `BeginWrite`, `EndSave` | every other load-change-write of the vault |
| `server`, `created` | external: entities with versions, as the client uses them |
| `queued`, `applied`, `conflicted` | history |
| `Restart` | the app is closed at any step |

A mutation is reduced to what the commits distinguish: a new item, an edit
from a key to a key, a deletion, and a new item that can never be sent (no
website).  A key stands for the pair of realm and user name, or the guid of a
note: what an entity is found by.

### Access

| Model | Code |
|---|---|
| `file` (`present`, `revoked`, `grants`, `log`) | `agent_handles`, `agent_grants`, `agent_audit` of `VaultData` |
| a call, `ask`, `pc`, `reply` | one request on a connection, or one command of the Agents panel |
| `pending`, `response`, `Respond`, `Unregister` | `BrokerHandle::pending` and the `mpsc` channel of `prompt_user`; `agent_respond` |
| `RefuseRequest`, `Request`, `Touch`, `MatchGrant`, `AutoApprove`, `Prompt`, `Approved`, `Denied`, `PromptTimesOut` | `handle_request`, `handle_session_request`, `decide`, `touch_handle_last_used` |
| `Enroll`, then as above | `handle_enroll` |
| `LoadAndMint`, `Mint` | `mint_grant_scoped`, and the push of the new handle |
| `OpenGrant`, `RefuseRedeem`, `Authenticate`, `FailToAuthenticate`, `Consume` | `handle_consume`, `handle_perform`, `handle_grab_session` with `authed_handle` |
| `Dispatch`, `BrowserActs`, `Performed`, `PerformFails`, `PerformTimesOut` | `perform_inject`, `perform_clipboard` and the same steps of `handle_grab_session` |
| `Precreate`, `RevokeGrant`, `RevokeHandle` | `agent_precreate_grant`, `agent_revoke_grant`, `agent_revoke_handle` |
| `LoadOther` | every writer of another section of the vault |
| `Audit`, `BeginWrite`, `EndWrite` | `audit`, `write_vault` |
| `issued` | history: each grant as it was first written |

The injector is taken for what it promises: `answer` and `acted` are
`InjectPromise`'s, whose steps `Act`, `Succeed` and `Fail` are parts of
`BrowserActs`, `Performed`, `PerformFails` and `PerformTimesOut`.
`InjectBroker` implements that promise (`PromiseKept`, proved), so what holds here
holds with the queue, the hosts and their deaths in place.  The clipboard is a
browser that does the job at once.

A call loads the vault two to four times, and every load and write is an action of
its own: that is where this code can go wrong.  A grant is named after the call
it is issued to (ids are random); expiry is an event that may come at any time
after issue; a request that resolves to no item, to several, or meets a locked
vault is refused, at any time.  Grants are a set, so `decide`'s `find` may pick
any that match; they all give the same outcome.  The panel revokes a handle it
was shown (`Listed`).  Which item a query names and which
URL a fill may go to is a refusal at any time here; the latter is in
`ExtensionBridge`.  The app persists policies and obeys
them but offers no command to set one; they are a constant.

### AppSession

| Model | Code |
|---|---|
| `st` | `AppState`: credentials, favorites, records and rows |
| `screen`, `pc[main]` | the screens of `App.jsx`, and the command on the main thread |
| `file` (`mnemonic`, `cached`, `favorites`) | the sections of `VaultData` a session uses |
| `Unlock`, `ChooseScreen`, `Lock` | `unlock`, `has_chain`, `lock` |
| `BeginGenerate`, `BeginJoin`, `BeginToggle`, `BeginWrite`, `EndCommand` | `generate_chain`, `join_chain`, `toggle_favorite` |
| `StartSync` ... `Refill` | `sync`, which takes its credentials along and the lock on the state only at both ends |
| `StartFavicons`, `EndFavicons` | `fetch_favicons` behind it, which ends with `rebuild_dtos` |
| `Change`, `Restart` | other devices; closing the app |

A content is a chain and how often it was changed: one stands for the whole
list a fetch returned.  `pw_dtos` is apart from `passwords` because `unlock`
fills the first from the cache and leaves the second alone; the bookmarks'
rows always follow their records.  `generate_chain` and `toggle_favorite` hold
the state's lock while they write, so no sync starts or ends in them
(`StateLocked`); `join_chain` does not.

### Purge, ListView

`Purge` follows a list of records through `commit_delete_stale_devices`: the
flag is polled between two devices, each tombstone names the version it was
made of, and the server replaces just that (`ServerTakes`).  `busy` is the
screen's `purging`, which a new screen does not know (`Remount`), so a second
purge can start beside the first.  `untold` are devices whose removal the list
could not be told, by the code's own ways: an error half-way, or a sync that
had fetched before.  `restarted` are the purges another one's start has taken
the cancellation from.

`ListView` has the number of the latest `list_items` and the calls that have
not answered; a handler keeps the `view` of the render it was made in
(`captured`), as JavaScript closures do.  `outdated` marks what follows: a
handler that outlives a change of the view lists the old one, and an answer
that comes after the agents view was chosen still counts as the latest.

### SyncPull

| Model | Code |
|---|---|
| `store`, `clock`, `Pages` | external: the server's versions, and its answer to a token |
| `BeginPull`, `Poll`, `Take`, `EndType`, `CaughtUp` | `build_keybag`, `SyncClient::fetch_all`, `get_updates` |
| `PullFails`, `TypeFails` | an error in the passwords ends a pull, in another type gives an empty list |
| `Decrypts`, `Items`, `Read`, `Shown`, `TabRows`, `DeviceRows` | `KeyBag::decrypt`, `decode_specifics`, `decrypt_tab_groups`, `decrypt_sessions` |
| `Found`, `Rekey`, `CommitFound`, `IsCurrent` | `commit_edit_by_key`, the deletes, `reencrypt_matching`, and the server's check of the version |
| `Rotate`, `OtherWrites` | other devices |

`short` are the types that were cut off, by the cap or an error, which callers
cannot tell from complete ones; `PullIsExact` is about the others.  An entity that
changes between two pages comes twice, and the client keeps both: the property says
that this is the only way to get something that is not on the chain.  For the same
reason `Found` is any version received of an entity: the logins are sorted by title
before one is looked up.

### Overlay

| Model | Code |
|---|---|
| `logins`, `marks` | external: the chain, each login with its version |
| `outbox`, `commits` | `VaultData.outbox`, and how far `commit_durable`'s thread, or the replay, is with each entry |
| `rows`, `Rebuilt`, `Overlaid`, `Flagged`, `Duplicates` | `pw_dtos`, `bm_dtos`; `rebuild_dtos`, `apply_outbox_overlay`, `compute_*_flags` |
| `Queue` | `save_item`, `delete_item` up to `outbox_push` |
| `Fetch` | the fetch of `commit_edit_by_key` and the deletes, or "item not found" (no step) |
| `Post`, `Accepted`, `Conflict`, `Fails` | `commit_entity`: taken by the server, with or without an answer; refused for its version, which looks the same; not sent, or cut off by the end of the app |
| `Clear` | `outbox_remove` |
| `SyncRows`, `Foreign` | a sync or an unlock; other devices |

`logins` is a sequence as nothing keeps two logins from sharing a site and user.
Each change waits with a commit of its own: `queued` until it has fetched its login (a
new one needs none), `fetched` until it is answered, `answered` until it is
cleared.  Nothing orders the commits of different changes: each runs on its own
thread (`commit_durable`), or in turn with others (`replay_outbox`), which is one of
the orders.  A commit whose answer is lost, that fails, or that the end of the app cuts
off goes back to `queued`.

`forecast` remembers what the rows of the last sync showed as long as nothing but
commits happens.  `ForeseenIsDrained` says that it is what the chain shows when all
are cleared.  It is forgotten where the two are known to part (`Plain`, `DistinctKeys`):

1. two logins have one key: the overlay patches every row of it, a commit the first
   entity;
2. an edit takes the title away: the row keeps the old one, the chain does not;
3. two of the changes are about one login, by the key they find it under or the one
   they leave it under: their commits may come in reverse, the second may be refused for
   its version, or a row or login is looked for under the other key;
4. a web site that is typed is itself the realm of another kind of login (of an HTTP
   authentication, say): the row shows it as typed, and `normalize_realm` makes
   another realm of it;
5. at the sync the login of a change is not on the chain, or is another than its
   commit has fetched: the row shows a change that cannot be made, or will be refused;
6. at the sync a change is committed and not yet cleared: the overlay is laid over the
   chain that has it already.

A change that is queued after the sync, another device's write, and a replay that commits
an entry its own command is committing too (`Foreign`: its effect is a write beside the
commits) end the forecast as well; it begins anew at the next sync.  A sync's
fetch and the rows made of it are one step here: a change that ends in between is shown
from what was fetched, until the next sync.

`Retain` is the `retain` of the rows, written as a fold, as the overlay is. What one
gets to see by opening folders is what is in every set that has the rows at the top and,
with a folder, what is in it (`OpenedSet`).  `FoldersAssumption` says that no folder is
within itself, which the server's bookmarks keep.

### TimeWords

Seconds, days and indices as they are computed, with the rounding half away from
zero and the wrap at 2048; `Verdict` is the match of `parse`.  The two properties
are stated against the times themselves.  `SameCycle` is their proviso: `parse`
compares indices, so a code made on the last day of a cycle (day 2047, 18
December 2027) is refused on the next as made too far in the future or past, though it is
fresh, and one of exactly a cycle ago is accepted.  (The test
`expired_code_rejected` subtracts days before the modulo and stops passing on
the first days of a cycle for the same reason.)

### Identities

| Model | Code |
|---|---|
| `file.handles` | `VaultData::agent_handles`: id, kind, revoked |
| `hostKeys`, `agentKeys` | the OS keychain under the two service names |
| `sidecar`, `config` | `injector.json`, `agent.json` |
| `AppStarts`, `EnsureHandle`, `StoreSecret`, `PersistHandle`, `WriteSidecar`, `GiveUp` | `injector::provision`, step by step |
| `Enroll`, `HandleEnroll`, `SaveHandle`, `Forget` | `cmd_enroll`, `handle_enroll`, `store::save_handle`, `store::forget` |
| `Revoke` | `agent_revoke_handle` |
| `HostStarts`, `HostPolls` | the host's start and `handle_await_job` |
| `AppEnds` | the app is closed at any step; connections break |

The file is at first an empty vault, which is also what a vault that is not there yet is
read as.  Ids are random and never repeat (`FreshId`).  `failed` is a step of the present
start that failed, `cut` a tool killed between forgetting a secret and its config
file: the property says what holds without them, and that every later start
without a failure makes good what earlier ones left.

### ExtensionBridge

| Model | Code |
|---|---|
| `Perform`, `Bound`, `GrabSession` | `perform_inject` with `resolve_target`, `handle_grab_session` |
| `Connect`, `Disconnected`, `MayConnect` | `connect` and its listeners in `background.js` |
| `TakeJob`, `HostReads`, `Mine`, `Report`, `HostDies` | the host's `run`, `run_job`, `run_grab` |
| `Receive`, `FindTab`, `Listen`, `SendFill`, `Answer` | `onHostMessage`, `onFill` with `findOrOpenTab`, `waitForComplete`, `sendFill`, `reply` |
| `Permit`, `ReadCookies`, `GrantAccess` | `onGrabSession`, `popup.js` |
| `Guarded` | the content script's comparison with `location.origin` |
| `WorkerStops`, `Complete`, `Navigate`, `Close` | external: the browser and its user |

The two notions of an origin are both there: `origin_of` keeps a port as it is
written, the browser leaves the scheme's own out (`BrowserOrigin`).  An item
whose URL has an explicit `:443` is therefore never filled; the run's URLs have no
ports, and that consequence is noted among the hazards.  `missed` marks a tab that
was complete before `waitForComplete` listened, or closed before it was
complete: the handler then never answers.

### Favicons

The `.png`, `.title` and `.miss` files of a host and `.rules_version`, the calls
of `fetch_favicons` with what they decided at their start (`saw`), and each host's way through
`fetch_and_cache`.  `miss[h] = "old"` is a marker written by older rules, which `Upgrade`
makes of all.  `looked` are the hosts of the fetches that found the cache out of
date and marked it current.  A run that has no items (the vault is locked, or
empty) marks it current as well, and old markers are trusted from then on: the
property is about the hosts a fetch did have.

## 4. Runs

| Run | Question | Instance |
|---|---|---|
| `inject` | does the rendezvous keep its promise and its bookkeeping, is every call answered, and the head of the queue taken? | 2 jobs, 2 connections, fair |
| `inject_presence` | does the presence count mean what its comment says? (violated) | 2 jobs, 2 connections |
| `outbox_safety` | is a queued mutation kept until answered, a done one cleared, the order kept? | 3 commands of different kinds, 1 replay, 1 fault, 1 restart |
| `outbox_drain` | does the outbox drain? | 1 edit in place, 1 replay, 1 other writer, 1 fault, 1 restart, fair |
| `outbox_stuck` | ... also with edits of the user name and deletions? (violated) | 2 commands, 1 replay, 1 restart, fair |
| `outbox_race` | is an edit never lost? (violated) | 1 command, 1 replay, 1 other writer, 1 fault |
| `access` | are uses accounted for, do revocations stick, is everything logged, and every grant sanctioned? | 3 calls of any kind, 1 handle and 1 to enrol, 1 thing, answers "no" and "twice", symmetric; 1 restart |
| `access_twice` | is a single-use grant used once? (violated) | 3 calls: pre-create, two redemptions |
| `access_revoked` | does a revocation stop what is under way? (violated) | 3 calls: pre-create, redeem, revoke |
| `desktop` | are a session, a purge and a list right under late syncs, other devices and answers out of order? | 2 chains with 1 change each, 2 overlapping syncs, 1 lock or restart; 4 devices (2 of a name, 1 undated), 2 purges, 1 device that syncs or is removed, 1 new screen; 2 views and the agents', 2 handlers, 4 requests |
| `chain` | is the chain read exactly, foreseen rightly while changes wait for it, and joined by fresh codes only? | 2 logins, 1 group with 1 tab, pages of 1, a cap of 4 polls, 2 writes, 2 keys; 2 changes queued, at most 2 logins of 2 realms (one of them typed as a web site too) and 2 users, 3 bookmarks, 1 foreign change, symmetric; times around each boundary of 11 days |
| `browser` | do fills land where they should, do hosts come back, are identities whole, icons not given up? | 2 jobs, 2 tabs, 2 ports, 1 move of the user, fair; 2 ids, 3 starts; 2 hosts, 2 fetches |

Bounds.  Two connections are enough for every race on the condition variable:
a sleeper, and one that is awake for the wrong reason; two jobs let the queue be
longer than its awake pollers are many.  In the outbox three commands give a
head, a middle and an end of the queue; one of them can never be sent, so a
replay has something to stop at; a single fault and a single restart occur at every point
(`MaxFaults`, `MaxRestarts` are the only counters with a bound).

`outbox_safety` states its properties under `Serial` (no overlapping spans, no
cut write) and does not explore past a state where `Serial` is false
(CONSTRAINT): `overlapped` and `interrupted` never become false again, so all
that is left out satisfies the properties trivially.  What happens beyond is
the subject of `outbox_race` and, for liveness, of `outbox_drain`.

`access` has three calls because its questions take that many: one that issues
a grant and two that use, revoke or renew it, or a third that writes
something else.  A grant for two uses shows a use that leaves one.
Calls are interchangeable (each may ask anything, and no property names one),
so symmetry is sound.  `Explored` stops at the first overlap, as in
`outbox_safety`; `OnlySanctioned`, the one property stated without `Serial`,
is checked that far by the run and proved beyond.  After a restart, which may come at
any point of two calls, it begins no third one.

`desktop`, `chain` and `browser` each hold parts that share no state: a run chooses
one at its start and explores that, so their states add up and do not multiply.
In `desktop` the two syncs are one that is late and one that is not, over two
chains that may be mixed up; `Serial` bounds the search at the first overlap, as
above (the session's properties but `LockedIsEmpty` are stated under it, and
nothing that property says depends on the file).  Three devices can be stale, kept
and undated at once, and two of one name tell rows from records.  Four requests
are one more than the screen's and two handlers'.  In `chain` a page of one
entity gives every change a chance between two pages; four polls suffice for a
type of two and are too few when it is written to meanwhile, so both the cap and
its absence occur.  Two queued changes are the smallest number whose commits can overlap,
come in reverse or meet what the other made, and two logins with two users are enough
for one to take the other's key; more changes are more such pairs, and the proof is
for any number.  The second realm is one that `normalize_realm` does not leave as it
is.  The chain starts with at most one login, without a title, and `OthersBound` bounds
the other devices: they act while a commit of the same kind, on logins or bookmarks, is
under way, write logins of a key that the chain has, add one only to a chain without
any, and leave the second realm to the behaviours without them.  A write at another
time ends the forecast and leaves a chain of the kind the run starts from or comes
to.  The times are a second before each half-day boundary, on
it, and at midnight, of the days around the epoch, both ends of a cycle and the
next one's.  In `browser` two jobs cross each other's ports and tabs; the modules of the
parts do not say in which order jobs come, ids are drawn or fetches take
turns, and `MCBrowser` picks one of the equal ways (`JobsFirst`, `FirstId`,
`FirstFetch`).  Three starts are one that is cut short, one that makes it good
and one after a revocation.

The properties of these three runs name what they exempt, and each exemption is
something the code does, listed under the hazards: a sync that outlives a lock (`late`),
two syncs at a time (`racing`), a second purge (`restarted`), a purge that failed
(`untold`), an old render (`outdated`), a type cut short (`short`), changes that meet in
one login, or are not as the sync shows them (`Plain`), a wrapped index (`SameCycle`), a
tab that never tells (`missed`), a failed start (`failed`), a killed tool (`cut`).

Deadlock is not checked: when all calls are over and no host is left, or all
commands are made and the bounds used up, the system rightly does nothing.

Fairness.  `inject` assumes that the broker's threads go on and its
timeouts fire (`recv_timeout`, `wait_timeout`: the code arms both each time),
and nothing at all of hosts, replies to them, or callers: a host that never
answers, or dies, is within its rights.  `HeadIsTaken` is therefore stated for a
job with a poller.  `outbox_drain` and `outbox_stuck` assume that threads go
on, that what the server can answer it does, and that the user opens the main
window again and again, which is what starts a replay; it does not assume that
mutations, faults, lost answers or restarts occur.  `browser` assumes that the
service worker's event loop runs on while it lives, that hosts read what is
written to them and the end of their port, and that a page that loads is complete
at some time; nothing of connecting, taking jobs, the user, or the worker living on.

## 5. Findings

The violated runs each contradict a sentence of the code's own comments,
quoted in `PROJECT.json`:

1. A host that dies while a reply to it is being written stays counted:
   `handle_conn` leaves through `?` past the release (`broker.rs` 277).
2. An edit of the user name or a deletion that reached the server but was not
   cleared before a restart blocks the outbox for good (`lib.rs` 1213):
   running it again finds no item, and replay stops at the first error.
3. A thread that loaded the vault before a mutation was queued writes it back
   without the mutation (`lib.rs` 223).
4. Two redemptions of a single-use grant at once both succeed (`broker.rs` 815):
   the check and the write of the use are as far apart as an injection takes.
5. Revoking a handle does not stop a redemption under way, whose write even
   brings the handle back (`broker.rs` 841).

Observed while modelling, and visible in the models without a run of their own:

* Closing the app between truncation and write of the vault file empties the
  outbox (`lib.rs` 424): `interrupted` of `VaultFile`, which `Serial` excludes.
* A commit the server rejected as out of date is taken for a success, and its change is
  cleared from the outbox (`core/sync/client.rs` 317): `ServerConflict` of `Outbox`,
  `Conflict` of `Overlay`, `CommitFound` of `SyncPull`, `Tombstone` of `Purge`.
* Two edits of one login made in quick succession are committed by two threads: the
  older may come last, or the newer be refused and cleared (`lib.rs` 298): `Post` and
  `Conflict` of `Overlay`, exemption 3.
* A grant is issued for a handle that was revoked while its user was prompted
  (`broker.rs` 570): `LoadAndMint` of `Access`.  It cannot be redeemed, as
  `authed_handle` refuses the handle.
* A replay's snapshot brings an edit back over a later one that is done
  (`lib.rs` 1206): `Job` of `Outbox` is the head of the snapshot, whatever was
  cleared since.
* A call that loaded the vault before a revocation or a use and writes it back after brings
  the handle back as active, or the use (`broker.rs` 846): `Performed` of `Access`, once
  spans overlap.
* A sync under way when the vault is locked fills the locked state with
  the items again, and one under way when another chain is joined writes the old
  mnemonic back (`lib.rs` 824): `Refill` and `SyncSaves` of `AppSession`, `late` and
  `overlapped`.
* The other observations are hazards with a note, or exemptions named above.

## 6. Proofs

`InjectBrokerProofs` proves, for any sets of jobs and connections (the latter finite):
type correctness (with it that the presence count stays a natural number),
`NoSenderLeft`, `PresenceNeverUndercounts`, `NoLostWakeup`, and that the rendezvous
implements `InjectPromise`.  None is inductive alone.  The strengthening says where a
job is: in the queue once, or held by the one connection that is replying, running or
reporting it, or gone; never carried out before it ran; a sender is in the map only
while its call is under way, and not beside an outcome in the channel; a job whose
channel says `ok` was carried out.  "At most once" then is that a job that runs is in no
other place.  The refinement has one step per action: `Run` and `HostDies` map to `Act`
or stutter, `Receive` to `Succeed` or `Fail`, `Refuse` and `Cancel` to `Fail`.  Presence
rests on `injectors_present` being the number of `is_injector` flags never taken back,
and on a lemma about the cardinality of that set when one is added or removed.  Wake-ups
are counted (`WakeupInv`): a sleeper leaves as many awake pollers and callers about to
notify as there are jobs in the queue.  A push adds a job and such a caller, a
notification takes the caller away and adds an awake poller if any sleeps; that there
are finitely many such callers (`Notifiers`), however many jobs, is part of the
invariant, for their number means nothing otherwise.

`VaultFileProofs` has the lemmas about the vault file that five components share.
`Vault` is what the file holds, or will once the write under way is over.  While
nothing has overlapped one thread writes at a time, none is fresh meanwhile, and a
file that does not open is being written or was cut short (`FileInv`); so `Vault`
changes only when a thread with a fresh copy begins to write that copy, and the
second half of a write changes nothing.  The components state their invariants
about `Vault`, and have one step for each thread that begins to write.

`OutboxProofs` proves, for any commands, replays, other writers and bounds:
type correctness (that a replay never runs past its snapshot is part of it),
`QueuedUntilAnswered`, `DoneIsCleared` and `ReplayKeepsOrder`.  The inductive invariant is
`TypeInv /\ JobInv /\ FileInv /\ Durable`: an entry is in a file or a copy at
most once and only if its command made it; while `Serial` holds at most one
thread is between truncation and write, and a copy that is fresh keeps every
entry of the file but those the server answered for, and adds at most the
entry its thread pushes.  `Serial` lets only fresh copies be written, so what is
written back keeps every entry that is owed an answer.  Without the copies in
the invariant the write that ends a span could be anything.
The order is an action property and needs three things more (`OrderInv`):
until its entry is in the file a command is in no other copy and in no snapshot
(`Unpushed`), a fresh copy keeps the file's order and adds only at the end
(`FreshOrder`), and what stands before an entry that a replay has yet to do was
answered for or comes first in that replay too (`ReplayOrder`).

`AccessProofs` proves, for any calls, handles, things, requests, policies and
answers: type correctness (with it `Stages`: what was asked and answered when a
call has come so far), and `OnlySanctioned`, with no proviso: writes may overlap, be
stale or be cut short.  That is the strongest thing that survives the missing
lock: a lost update can take a grant away or give back uses it had, but
not make one out of nothing.  Inductive is `TypeInv /\ BookInv`: a grant in the file,
in a copy or in `issued` is named after a call that has come as far as minting;
from there on neither its request nor its answer changes (`MintedStay`);
handle, thing and action of the grant are those of the request, and its uses at
most those of `Mint`, which is what was issued.  Each step either keeps the
grants it loaded, drops some, counts one down, or adds the one grant of its call
(`Kept`, `KeptByOthers`, `MintEntitled`).  A late answer needs no step of its own:
a call that gave up never comes to mint.

`RevocationSticks`, `UsesAccounted` and `AccessIsLogged` hold while calls do not
overlap.  They speak of the file and of replies already given, and a write takes two
steps, so the invariant (`SerialInv`) speaks of `Vault` and of what a call will report
once its write is over (`Told`).  `Books` are then balanced at every step:
handles enrolled are in the vault and revoked ones marked (`HandlesKept`), a grant in it
was given (`GrantsGiven`) and not revoked by name (`GrantsRevoked`), it has the uses it
was issued with less the redemptions told (`UsesLeft`), or is gone because it has none or
was revoked, and a call told of success is in the log (`Logged`).  `CopyInv` says
what is in the copy that a call is going to write, the file with that call's one change
(`Minting`, `Spending`, `Revoking`, `Noting`): without it a write could be anything.

`AppSessionProofs` proves all four properties of a session.  `LockedIsEmpty`
needs only that no sync is under way on the lock screen unless one was when the
vault was locked (`Locked`), whatever happens to the file.  The others follow from
`Follows`: what is in memory, cached, fetched or in a copy is of the chain that
the vault has (`StateBelongs`, `SyncsBelong`), chain and favorites in memory follow
the vault (`MnemonicFollows`, `FavoritesFollow`), a fresh copy is the file with its
thread's one change (`FreshCommand`, `FreshSync`), and the list on the screen is the
cached one or a sync is about to make it so (`Shown`).

`DesktopProofs` proves the properties of `Purge`, two of them about steps:
what a purge has still to do it chose as stale (`ChosenAreStale`), and one that was
cancelled, and that no other outran, finds the flag set (`FlagIsSet`).  For
`ListView` it shows that unless the view changed under a handler or a request every
handler will list the view and the latest request did (`OfTheView`).

`BrowserProofs` proves the safety properties of the three parts around the app.  In the
bridge a job is of one kind from the broker on (`Ordered`), what was filled in is of the
job's origin (`OnItsOrigin`), and each answer on its way to the broker, in the
extension, the port or the host, is true already (`AnswersAreTrue`).  An injector's
handle has its secret in the keychain before it is in any copy that is written (`Keyed`,
`InCopy`), the other writers keep it (`FreshKeeps`), and so what the host is told of is
in the vault (`Told`); a config is written after its secret (`ConfigHasSecret`).  A
fetch marks a host only when there is an icon or nothing of older rules against it,
until which the host is pending (`FaviconInv`).

`ChainProofs` proves both properties of `TimeWords` for any times.  The
invariant is `Answered`: the word is that of the time the code was made, and an
answer is the verdict on it.  The rest is arithmetic: a rounded day holds its
midnight in the middle (`DayOf`), a day is so many cycles and a position
(`CycleOf`), and then how far apart times are is said by their positions
(`CloseTimes`, `LaterTime`, `NearPositions`).

It proves the properties of `SyncPull` for any entities, page sizes, caps and
writers.  `PullIsExact` needs to know what a token stands for: of the type that is
read, just the versions that are not newer than the token have been received
(`UpToToken`), each once and oldest first (`InOrder`), and each is on the chain still
unless it was changed after the pull began (`Received`).  A token that does not change
then means that nothing newer is there (`ReadToEnd`).  `DroppedOnlyIfChanged` is part of
the invariant, for a version that is not current was changed since the start.
`EditKeepsKey` is a property of steps: a commit is sealed with the key of the very
version the server has.

And it proves `NothingHidden` of `Overlay`: the flags are those of the rows whenever
they are made (flagging twice changes nothing), and all bookmarks are opened: of those
that are not, one would have its folder opened, or be at the top (`FoldersAssumption`).

Its type invariant has beside the types that a commit which has fetched its login has it
under the key the change names (`OverlayTypeInv`): an edit is made of what was fetched.
The lemmas about the rows rest on `OverlaySteps`: the fold is done one entry
at a time.  That takes an induction along a queue, which the prover has no rule for;
`UpTo` is one for sets, from the least counterexample (`Least`), and `FoldExists` uses
it to show that there is the function the fold's definition chooses.

`ForeseenIsDrained` compares a fold over the outbox with commits that come in any order.
What they have in common has no order: `Expected` is the set of what will be seen once
the waiting changes are done, the logins that none of them names and those that they
make.  The invariant is `Foreseen`: as long as there is a forecast it is what is
expected of the chain and of the changes whose commit is not answered (`Waiting`), the
keys on the chain are distinct, the changes do not meet in a login (`Steady`), and a
commit that has fetched its login will not be refused (`Current`).

* At a sync, the rows with the whole outbox laid over them show what is expected
  (`AheadIsExpected`).  It is shown along the queue, with the ids: what the rows show
  after so many entries are the logins and changes so far, each under the id by which
  a later entry could find it (`Known`, `AllKnown`, `KnownThen`), and no later entry names
  what an earlier one makes (`NotMade`).
* A commit that the server takes turns a login that one change names into the one it
  makes (`Taken`, `Becomes`), and what is expected stays (`ExpectedStays`), whether the
  change is then done or waits again because its answer was lost: the changes
  do not meet, so it makes no difference which is first.
* A commit of another login leaves those that were fetched as they are, so no conflict
  can come (`CurrentThen`); one that fails, or is cleared, changes nothing that is
  expected (`WaitingThen`, `UnmarkedThen`).

At the end nothing waits, and what is expected is what the chain shows
(`ForeseenIsShown`); the flags of mismatch follow from what is seen, for logins of
distinct keys have none (`Pictured`).

The composite specifications imply those of their parts (`ChainParts`, `DesktopParts`,
`BrowserParts`): the initial states of a part are only restricted, and a step of one is a
stutter of the others.  So what is proved of a part holds in the run that has it,
and their type invariants are conjunctions of the parts' (`ChainTypeCorrect`,
`DesktopTypeCorrect`, `BrowserTypeCorrect`).

The assumptions are the named ones of the modules, each evaluated by the runs:
that the values which stand for "none" are not members of the sets they stand
beside, and what an empty vault holds (`JobsAssumption`, `SessionAssumption`,
`DefaultAssumption`, `IdentitiesAssumption`, `BridgeAssumption`, `ListAssumption`
and the `DataAssumption` of each file); that connections and a chain's entities
are finitely many (`ConnsAssumption`, `PullAssumption`); which operation is whose
and that initial keys and policies are keys and policies (`OpAssumption`,
`ThreadsAssumption`, `InitialAssumption`, `AccessAssumption`); that bounds and
times are numbers (`BoundsAssumption`, `PurgeAssumption`, `TimesAssumption`); and
that folders are in folders and none within itself, and that the chain has room for a
login (`OverlayAssumption`, `FoldersAssumption`).

Only model-checked:

* liveness, which is out of the prover's reach: `CallReturns`, `HeadIsTaken`,
  `OutboxDrains`, `HostComesBack`;
* the violations, which need no proof.

## 7. Not modelled, and why

* Failing writes of the vault file (disk full): most callers ignore the
  error; it has the effect of a load-to-write span that never ends well.
* An injector handle that is refused (revoked while it polls) ends its host: the
  host is then dead, which `HostDies` is.
* The outbox and the grants in one file: each module has its own section, and the
  writers of the other are its `LoadOther`.
* Two app processes on one vault file.
* Cryptography, sockets, the password generator, rendering and forms: functions
  and I/O without an order to get wrong; see `PROJECT.json`.
* What a page says: which form the content script finds, and how titles and
  icons are parsed.  Both are free choices.
* Sorting, filtering and searching of the list, `related_items`, `resolve`:
  functions of one state, tested as such in the code.
* The overlay of notes, bookmarks and identities: one insertion or patch each,
  of the form of the passwords'.
* The other data types of a sync: paged the same way, shown as they are.
* The outbox's fetch sees the chain as it is at that moment; what paging does
  to it is `SyncPull`'s.
