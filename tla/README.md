# Formal models of ldk-server-gui

TLA+ models of the GUI client in `src/ldk-server-gui/src`, with TLC
configurations that model-check them, and TLAPS proofs of the main invariants
of the dispatcher, the payment paging and the chain-source settings, and of
the refinement of the task handle. The machine-readable inventory is in `PROJECT.json`. That
file holds the components, runs, mutants, the map from every definition to
the lines it models, the findings, the hazards and the theorems.

## 1. The system

The GUI is an egui/eframe application that calls a remote ldk-server node.
Its one piece of real design is the **asynchronous operation dispatcher**:

| part | source | state | operations |
|---|---|---|---|
| task handles | `task.rs` | a tokio task plus an mpsc channel (native), or a `spawn_local` future plus an `Rc<RefCell<Option>>` (wasm) | `spawn_with_runtime`, `spawn_local`, `try_take` |
| operation registry | `state.rs` `AsyncTasks` | 17 `Option<ChannelTaskHandle>` slots, one per remote operation | `Default`, `any_pending` |
| triggers | `app.rs` 158-632 | the slot, the client, the forms, the status | `fetch_*`, `send_*`, `open_channel`, `close_channel`, ... Each one returns if its slot is occupied or there is no client. Validated triggers may reject the form with an error status. Otherwise they spawn. |
| drain | `app.rs` 634-752 | slots, cached responses, status | `poll_tasks`: one `poll_task!` per key, in field order. The handle is taken; a result clears the slot and goes to the success handler or to the error status; no result requests a repaint. |
| frame loop | `app.rs` 776-850 | egui's repaint request | `update`: `poll_tasks`, then `request_repaint_after(100ms)` if `any_pending`, then rendering. |
| connection | `app.rs` 64-137, `ui/connection.rs` | client, connection status | `connect` (three outcomes; on success it fetches node info, balances and channels) and `disconnect` (clears the client and the cached responses, but not the tasks). |
| chain-source settings | `config.rs`, `state.rs` `ChainSourceForm`, `ui/connection.rs` | files on disk, form, displayed source, config path | start-up search, Load Config, editor, Save, Save As. |
| payment paging | `app.rs` `fetch_payments` and its `poll_task!`, `ui/payments.rs`, `ui/onchain.rs` | the payments slot, the page shown, `payments_page_token` | Refresh, Load More, the History tab, and the handler that stores the page and its `next_page_token`. |

How the parts interact:
- A click in a frame calls a trigger, which fills a slot.
- The remote call runs on a worker thread (native) or on the event loop between frames (wasm), and publishes its outcome into the handle.
- The next frame's `poll_tasks` takes the outcome, clears the slot and routes it.
- The success handlers of the five channel mutations call `fetch_channels()`, which spawns a new task from inside the drain.
- Nothing polls a slot except a frame, so a pending task must keep frames coming. This is the job of the `any_pending` repaint.

What makes it hard:
- remote calls complete in any order, or never;
- native workers publish at any moment, while wasm futures publish only between frames;
- the user can disconnect and reconnect while tasks of the old client are in flight;
- handlers spawn follow-up tasks while a pass is running;
- the single-flight guard silently drops triggers.

## 2. Modules

| module | models | state | actions |
|---|---|---|---|
| `Dispatcher` | registry, triggers, drain, frames, connection | `client`, `lastGen`, `connStatus`, `slot`, `cache`, `status`, `chanVer`, `phase`, `pollIdx`, `repaint`, `input`; history: `spawned`, `delivered`, `ackVer` | `Serve`, `Publish`, `RepaintFrame`, `InputFrame`, `PollKey`, `AfterPoll`, `EndFrame`, `Trigger`, `Connect`, `Disconnect` |
| `DispatcherProofs` | TLAPS proofs about `Dispatcher` | | |
| `Registry` | the registry contract of the spec (abstract): per key, empty or held by a task of one client | `holder`, `spawned`, `delivered` | `Spawn`, `Route` |
| `RegistryProofs` | TLAPS proof that `Dispatcher` implements `Registry` | | |
| `OneShot` | the handle contract of the spec (abstract) | `st`, `out`, `got` | `Complete`, `TakeNone`, `Take` |
| `TaskHandle` | `task.rs` on both targets; refines `OneShot` | `task`, `chan`, `cell`, `got`; history: `sent` | `Finish`, `Panic`, `TryTake` (`TryRecv` on native, `TakeCell` on wasm) |
| `ChainSource` | chain-source settings | `files`, `form`, `chainSource`, `configPath`, `status`; history: `loadedFrom` (the file last loaded or saved) | `LoadConfig`, `SelectType`, `EditField`, `Save`, `SaveAs` |
| `Payments` | payment paging, with the connection lifecycle it depends on | `client`, `lastGen`, `task`, `payments`, `token`, `status` | `Serve`, `PollPayments`, `OpenHistory`, `Refresh`, `LoadMore`, `ConnectFails`, `Connect`, `Disconnect` |
| `PaymentsProofs`, `ChainSourceProofs`, `TaskHandleProofs` | TLAPS proofs about `Payments`, `ChainSource` and `TaskHandle` | | |
| `MCDispatcher`, `MCTaskHandle`, `MCChainSource`, `MCPayments` | model values and definitions for TLC | | |

`Dispatcher` maps its slots onto `Registry` with `Holder` (the generation
of the client a held task captured, 0 for an empty slot) and checks
`ImplementsRegistry == Reg!Spec`.

`OneShot` also defines `SafetySpec`, its specification without fairness; this
is what `TaskHandleProofs` proves `TaskHandle` implements.

How `Payments` corresponds to the code: a page is the connection that
received it and its index in the server's listing; a page token is the
connection that received it and the index of the page it points at (the
server reads a token as a position). `FetchPayments` is `fetch_payments()`
with both its guards and the token it reads; `PollPayments` is the payments
`poll_task!` (Ok stores the page and its `next_page_token`, Err sets the
status). `Refresh`, `LoadMore` and `OpenHistory` are the three clicks that
call `fetch_payments()`, with the conditions under which their buttons are
drawn.

How `Dispatcher` corresponds to the code:

- **Keys and slots.**
  - `Keys` are the fields of `AsyncTasks`, and `PollOrder` is the order of the `poll_task!` calls.
  - `slot[k].st` is `"None"` for an empty `Option`. Otherwise the handle's life is split into three states:
    - `"Sent"`: the remote call is outstanding;
    - `"Served"`: the call returned but the task has not published;
    - `"Ready"`: the outcome is in the channel or cell.
  - `slot[k].gen` is the client the task captured. Client `g` is the `g`-th one `connect()` created; 0 is `None`.
- **Cache.** `cache[f]` is the cached response of fetch key `f`, recorded as the client generation that produced it. For the channel list it also records `ver`, the number of channel mutations the node had applied when it answered (`chanVer`).
- **Frames.**
  - A frame is `RepaintFrame` or `InputFrame`, then `PollKey` once per key, then `AfterPoll` (the `any_pending` check), then either `EndFrame` or one click.
  - A click (`Trigger`, `Connect`, `Disconnect`) happens only in a frame started by input.
  - egui asks for one more frame after an input frame, so `InputFrame` sets `repaint`. A frame run for a repaint request clears it.
- **`PollKey` is the whole `poll_task!` of one key.** With a result, it clears the slot, then either:
  - runs `OnSuccess`: caches the response or sets an Ok status, and for a channel mutation runs `fetch_channels()`, guard included; or
  - sets an Err status.

  Without a result it requests a repaint.
- **`Connect` is the whole of `connect()`.** Its three outcomes are:
  - empty fields or an unreadable certificate;
  - a client that cannot be built;
  - success, which runs the three fetches, each behind its own guard.

Data is abstracted to what the properties tell apart. A response is the
generation that produced it, an outcome is `"ok"` or `"err"`, and a status is
None, Ok or Err. The forms' contents are abstracted into `Validated(k)`: the
trigger may reject the form.

## 3. Runs

| run | cfg | expect | properties |
|---|---|---|---|
| `dispatcher_native` | `MCDispatcher_native.cfg` | pass (402k states) | `TypeOK`, `OutcomeAccounting`, `PendingSignal`, `DrainEventually`, `ImplementsRegistry` |
| `stale_cache_after_reconnect` | `MCDispatcher_CacheFromCurrentClient.cfg` | violation | `CacheFromCurrentClient` |
| `refetch_dropped` | `MCDispatcher_ChannelsReflectMutations.cfg` | violation | `ChannelsReflectMutations` |
| `chain_source_settings` | `MCChainSource.cfg` | pass (387k states) | `DisplayedMatchesFile` |
| `task_handle_native` | `MCTaskHandle_native.cfg` | pass | `ImplementsOneShot` |
| `task_handle_wasm` | `MCTaskHandle_wasm.cfg` | pass | `ImplementsOneShot` |
| `startup_config_not_saveable` | `MCChainSource_SaveTargetsLoadedFile.cfg` | violation | `SaveTargetsLoadedFile` |
| `payments_paging` | `MCPayments.cfg` | pass (557 states) | `TypeOK`, `TokenContinuesPage`, `PageAdvances` |
| `stale_page_token` | `MCPayments_RequestTokenFromConnection.cfg` | violation | `RequestTokenFromConnection` |
| `load_more_hidden` | `MCPayments_LoadMoreOffered.cfg` | violation | `LoadMoreOffered` |

The dispatcher is checked on the native build only. `Dispatcher` has a
constant `Native`, and its only use is `CanPublish`: on the browser build a
task publishes only between frames. That condition only restricts `Publish`,
and Init and fairness are the same on both builds. So every browser behaviour
is a native behaviour, and a browser run would repeat the native one. The two
handle implementations do differ, and each has its own run
(`task_handle_native`, `task_handle_wasm`).

The chain-source run checks no type invariant. In Rust, an ill-typed state
does not compile, and the form has type None only when it was loaded from a
configuration without a chain source. The combo box (`SelectType`) offers
only the three kinds of `ChainSourceType::ALL`. Type correctness is proved
(`ChainSourceTypeCorrect`).

`TokenContinuesPage` says that a page token belonging to the current
connection is the `next_page_token` of the page shown, so Load More fetches
the page after it. It needs the handler to store the token of every page
(None included) and a late page of an earlier connection not to pass for one
of this connection.
`PageAdvances` says the same as a step. A page the handler stores over a page
of the same connection is page 1 or the next page. It is never a skipped
page, and never a page shown again.

### The dispatcher's properties

- **`OutcomeAccounting` (single flight and exactly-once delivery).** For every key, the tasks spawned equal the outcomes routed plus the one task in the slot.
- **`PendingSignal` (the spec's pending-signal correctness).** Outside a poll pass, an occupied slot implies a repaint request.
- **`DrainEventually` (liveness).** A published outcome is eventually drained.
- **`ImplementsRegistry` (refinement).** Under `Holder`, every step of the dispatcher is a step of the `Registry` contract or a stutter. A slot is filled only while empty, and emptied only by routing its own outcome. A held task keeps its client.

### What the violations show

- **`CacheFromCurrentClient`.** While connected, every cached response should come from the current client. It fails in 21 steps:
  1. A fetch of client 1 is in flight.
  2. The user disconnects, and the fetch is drained afterwards.
  3. The user connects again, and the panels show client 1's data.

  While the old task still holds the slot, the new `connect()`'s fetch of that key is also dropped.
- **`ChannelsReflectMutations`.** Once the app is quiet, the channel list should reflect every mutation reported as successful. It fails like this:
  1. A `list_channels` started by `connect()` is still in flight.
  2. `open_channel` succeeds and is drained.
  3. Its `fetch_channels()` is dropped by the guard.
  4. The older list, which predates the channel, is cached and stays.
- **`SaveTargetsLoadedFile`.** The file a configuration was loaded from should be the file Save writes to. It fails in the initial state: `LdkServerApp::new` loads `ldk-server-config.toml` and says so, but leaves `config_file_path` None, so Save answers "No config file loaded".
- **`RequestTokenFromConnection`.** A `list_payments` request should send only a token received on the same connection. `disconnect()` keeps `payments_page_token`, so after connect, disconnect and connect again, Load More (or the History tab) sends the first connection's token: the listing starts in the middle, or at a position of another server.
- **`LoadMoreOffered`.** When nothing is in flight and the page says "More payments available. Click 'Load More'", the button should be there. Refresh clears the token before its request; when that request fails, the old page stays and the button is gone.

### Bounds and why they are enough

`MCDispatcher` uses three keys:
- `NodeInfo`: a fetch;
- `Channels`: the channel list;
- `OpenChannel`: a validated channel mutation that refetches.

This covers one key of every kind the code has, in the code's poll order.

The other bounds:
- `MaxConnects = 2`: a reconnect with tasks of the first client in flight.
- `MaxSpawns = 1`: a user trigger of a key is enabled only while fewer than `MaxSpawns` tasks of that key have been spawned, counting every path. Spawns from `connect()` and from the refetch are not limited by it.
  - With the value 1, a user trigger never finds its slot occupied. The single-flight guard is exercised on the other paths: `connect()`'s fetches after a reconnect, and the channels refetch of a mutation.
  - `MaxSpawns = 2` does not finish within 15 minutes.
  - `ExactlyOnce` and `RefinesRegistry` are proved for every value.

Every hazard trace needs one task of each kind, at most two clients and one user trigger. The mutants show that the bounds reach the guarded cases.

`MCChainSource` uses:
- two files, both on the start-up search path;
- two values per field;
- every start-up disk content: missing, not TOML, a TOML table without the ldk-server sections, or a config, with any of the three chain-source sections.

`MCTaskHandle` uses three handles with two outcomes each.

`MCPayments` uses three connections and a three-page listing: enough for a
token of the first page, one of a middle page and none after the last, and
for a reconnect, a second reconnect, and a late page of an earlier
connection drained after one.

### Fairness

Weak fairness is assumed only for what the code guarantees:
- egui runs a frame that was requested (`RepaintFrame`);
- `update()` runs to its end (`PollKey`, `AfterPoll`, `EndFrame`);
- in `TaskHandle`, each handle is polled (`TryTake`). `DrainEventually` shows that the dispatcher does poll.

Remote calls (`Serve`, `Finish`) and the user are not assumed to do anything. A call that never returns keeps its slot occupied forever; the spec accepts this.

### Mutants

Every property of a passing run is broken by a plausible bug:
- a trigger without its `is_some()` guard (this also breaks `ImplementsRegistry`);
- a handler that caches the wrong value;
- `update()` without the `any_pending` repaint;
- `poll_tasks` missing its last entry;
- `save_chain_source` keeping the esplora section;
- a non-consuming `try_recv`;
- `borrow().clone()` instead of `take()`;
- a `next_page_token` for the last page (off by one);
- a handler that keeps the old token when a page has none (this also breaks `PageAdvances`).

## 4. What is proved

`DispatcherProofs` proves these theorems with TLAPS, for every value of the constants that satisfies the named assumptions `PollOrderAssumption`, `KeysAssumption` and `BoundsAssumption`:

- **`TypeCorrect`**: `Spec => []TypeOK`.
- **`ExactlyOnce`**: `Spec => []OutcomeAccounting`.
  - The inductive invariant is `TypeOK /\ OutcomeAccounting`. `TypeOK` is needed to know that the slots are records and the counts are numbers.
  - Lemma `FetchAcc`: a guarded spawn keeps the accounting.
  - Lemma `DrainAcc`: a drain keeps it.
  - The `Connect` step applies `FetchAcc` per key.
- **`PendingSignalled`**: `Spec => []PendingSignal`.
  - `PendingSignal` alone is not inductive. A click ends an input frame without new polling, so the invariant needs to know that an input frame still holds its repaint request.
  - The proof therefore uses `PendingInv`, which adds `(input /\ phase # "Idle") => repaint`. TLC checked it on the native instance before it was proved.

`PaymentsProofs` proves, under `PaymentsAssumption` (at least one
connection and one page):
- **`PaymentsTypeCorrect`**: `Spec => []TypeOK`.
- **`LoadMoreContinues`**: `Spec => []TokenContinuesPage`. The invariant is
  not inductive alone: a late page of an earlier connection could carry a
  token of the current one. `PInv` adds that the client, every token and
  every task's connection are connections already created
  (`client <= lastGen`, `token.gen \in 1..lastGen`, `task.gen \in 1..lastGen`),
  so `Connect`, which makes a connection no token yet names, cannot make the
  implication's premise true.

- **`PagesAdvance`**: `Spec => PageAdvances`. When the handler stores a
  page over a page of the same connection, it is page 1 or the page right
  after. `PInv` is not enough; the inductive invariant `QInv` adds:
  - a page shown comes from a connection already created;
  - a page of the current connection keeps any token on that connection;
  - a request in flight on the connection of the page shown carries that
    page's next token.
  The last conjunct is the heart of the argument: it only holds because
  `fetch_payments` reads the token the handler stored for the page on
  screen, and because `disconnect()` drops the page. Lemma `StepPage`
  derives the step property from `QInv`.

`RegistryProofs` proves **`RefinesRegistry`**: `Spec => ImplementsRegistry`,
under the same assumptions as `DispatcherProofs`.
- The inductive invariant is `RInv == TypeOK /\ GenInv`. `GenInv` says that
  a held task captured a real client (generation in `1..MaxConnects`). It is
  needed so that `Holder` tells an occupied slot from an empty one.
- The step mapping:
  - `Trigger` and `Connect` map to `Spawn` (lemma `SpawnStep`; an empty set
    of spawned keys is a stutter).
  - `PollKey` on a ready handle maps to `Route`. It routes with no
    follow-up spawn, or with `{ChannelsKey}` for the handlers that re-fetch
    the channels.
  - Every other step leaves `Holder`, `spawned` and `delivered` unchanged
    (lemma `HolderStutter`).

`ChainSourceProofs` proves, for every set of files, search order and values:
- **`ChainSourceTypeCorrect`**: `Spec => []TypeOK`.
- **`SaveRoundTrip`**: `Spec => []DisplayedMatchesFile`. The inductive
  invariant is `TypeOK /\ DisplayedMatchesFile`; the step that matters is the
  lemma `ChainOfWritten`: the file `save_chain_source` writes for a
  configuration loads back as that configuration, whatever other sections the
  file had.

`TaskHandleProofs` proves **`RefinesOneShot`**: `Spec => OS!SafetySpec`, on
both targets. The inductive invariant `HInv` says that the channel (native)
or cell (wasm) is empty or holds the one outcome the task sent, and only
while the task has sent it; with it each step maps to a `OneShot` step or a
stutter under the mapping `OS`.

These stay with TLC only:
- **Liveness:** `DrainEventually`, and the fairness part of `ImplementsOneShot`. The prover does not handle liveness under fairness or `ENABLED`.
- **The violations:** a property that fails has no proof.

## 5. Not modelled

- **`format_timestamp`** (three copies) and the dead `render_history_table`: formatting and unused code.
- **The API key file and network directory names.** These are I/O and string mapping.
- **The wasm paste dialog.**
- **Response-to-label rendering and form contents.** Only whether a form is rejected is modelled.
- **`main.rs`.**
- **One hazard is recorded in `PROJECT.json` without a property.** A status overwritten within one poll pass is accepted by the spec.

## 6. Plan

- Compose `Payments` with `Dispatcher`'s frame loop, so that the payments slot is drained by the same poll pass as the other keys.
- Clear `payments_page_token` in `disconnect()` and after a failed Refresh, and rerun `stale_page_token` and `load_more_hidden` as passing runs.
