# TLA+ models of tmux (CVS-era sources)

These modules model the parts of tmux under `src/` that hold state, run
interleaved with other work, or talk over the client/server socket.
Each module names the C functions it translates in its comments. For
each definition, `PROJECT.json` ("map") gives the exact lines it
translates.

## 1. The system and its parts

tmux is one server process that owns every session, window and pane. A
`tmux` command starts a client. The client connects to the server over
a UNIX socket and sends it one command message. The server then
executes the command and answers with a stream of messages.

| Part | Source | State | Operations |
|---|---|---|---|
| Key bindings | `key-bindings.c` | `key_bindings` splay tree; `dead_key_bindings` tree of unbound bindings waiting to be freed | `key_bindings_add`, `_remove`, `_lookup`, `_clean`, `_init`, `_dispatch` |
| Client main loop | `tmux.c` `main()` | `cctx.srv_in`/`srv_out` buffers; `retcode` | poll, read chunk, parse header, EXIT/SHUTDOWN/ERROR/PRINT/READY switch |
| Server writes | `server-fn.c` | per-client `CLIENT_BAD` flag, `imsgbuf` | `server_write_client`, `server_write_error`, session/window/lock helpers |
| Target resolution | `cmd.c` | reads `sessions`, `clients`, `$TMUX` | `cmd_current_session`, `cmd_find_client/session/window/index/pane`, lookups |
| Command parser | `cmd.c` | none (pure) | `cmd_parse`, `cmd_pack_argv`/`cmd_unpack_argv`, `cmd_template_replace` (modelled with its caller, in Chooser) |
| Config loader | `cfg.c` | global `cfg_cause`, line number | `load_cfg` (nested through `source-file`) |
| Choosers | `cmd-choose-session.c`, `cmd-choose-tree.c` | callback data holding a client reference and a template | exec (enter choose mode), callback (later), free |
| Lock and list commands | `cmd-lock-server.c`, `cmd-list-windows.c` | none of their own | call `server_lock*`; print winlinks |
| Startup | `tmux.c` | options, socket directory, `cfg_file` | getopt, the `-f` access check, `makesockpath`, `prepare_unlock`, `prepare_cmd`, the `CMD_STARTSERVER` decision |

How the parts interact:
- A key press in the server looks up a binding and runs its command
  list. A command in that list can be bind-key or unbind-key, so it can
  change the very tree the running binding lives in. Unbound bindings
  therefore go to `dead_key_bindings`, and the server frees them later
  with `key_bindings_clean`.
- Commands name their targets, and target resolution maps those names
  onto `sessions` and `clients`. Both arrays can have NULL holes.
- Choosers register a callback that runs after later commands. By then
  sessions and clients may have been destroyed.
- Every command's output reaches a command client through
  `server_write_client`. The client reads that output byte by byte in
  the `main()` loop.

Behaviours that are hard to test:
- A binding that unbinds itself while it runs.
- Two rebinds of the same key before a cleanup.
- Header or payload bytes split across reads.
- A payload size that does not match what the client expects.
- A server that dies mid-stream, or drops a client flagged bad.
- Stale session indices held by a chooser.
- Off-by-one bounds on the `sessions` array.

## 2. Modules

### KeyBindings (`KeyBindings.tla`, `MCKeyBindings.tla`)

**State.**
- Both splay trees are modelled as sets of binding ids, `live` and
  `dead`.
- `bind` maps each allocated id to its key, key2 and command list.
- `freed` holds the ids already passed to `xfree`.
- Each tree holds at most one element per comparator class. So
  `SplayInsert` inserts only when `SplayFind` finds no equal element,
  exactly like `SPLAY_INSERT`.

**Comparator and lookup.**
- `KeyBindingsCmp` translates `key_bindings_cmp` line for line. This
  includes the typo at line 55, which tests `bd1->key2` against itself.
- `key_bindings_lookup` sets only `bd.key` of its probe. Its `key2` is
  an uninitialised stack value. The model chooses that value
  nondeterministically from the constant `ProbeKey2s`.

**Actions.**
- `BindKey` and `UnbindKey` call add and remove.
- `KeyPress` is `key_bindings_dispatch`. It begins executing the
  binding's command list.
- `DispatchStep` runs the next command of that list. The command may
  itself be a bind or unbind.
- `DispatchDone` ends the dispatch.
- `KeyBindingsClean` frees the dead tree. The server calls it only
  between dispatches, so its guard is `dispatching = 0`.

**Comparator consistency.** The trees are modelled as sets, one element
per comparator class. That is exact only while `key_bindings_cmp` is a
strict order whose results are antisymmetric. `KeyCmpConsistent` checks
this over every binding the two trees hold, using `Relation`'s
`IsStrictlyPartiallyOrderedUnder`. The typo at line 55 is harmless only
because no stored `key2` carries `KEYC_PREFIX` (`TypeOK`).

### ClientLoop (`ClientLoop.tla`, `MCClientLoop.tla`)

**The byte stream.**
- A message is `HdrLen` header bytes followed by `size` payload bytes.
- Each byte is modelled by its origin: `[m, off]` is byte `off` of
  message `m`.
- `wire` is the socket and `srvIn` is `cctx.srv_in`.
- `ClientPoll` moves any non-empty prefix of `wire` into `srvIn`, or
  sees EOF. This is all a stream socket promises.
- `ClientConsume` is the `restart:` label. It memcpys the header, waits
  until the whole payload is there, and switches on the type.
- A header read at a position that is not a message boundary is
  garbage. `Headers` therefore lets it be any header.

**The server side.**
- `server_write_client` is modelled with its `CLIENT_BAD` drop.
- The rest of the server is not under `src/`, so it is modelled from
  the spec. It receives the command, then writes some PRINT and ERROR
  messages and ends with EXIT or READY. It may instead write SHUTDOWN,
  mark the client bad, or crash.

**The buffer invariant.** `Pending` is the bytes of the messages the
server wrote and the loop has not consumed. `SrvInHoldsRest` states two
things:
- what the loop consumed is a prefix of what the server wrote;
- `srvIn \o wire = Pending`.

Together they say the buffering at tmux.c:508-528 loses, repeats and
reorders no byte, however reads split the stream. That buffering is the
chunk appended by `buffer_poll`, the two `continue` tests,
`buffer_remove` of the header and `buffer_read` of the print payload.

### Sessions (`Sessions.tla`, `ServerTables.tla`, `MCSessions.tla`)

**State.**
- `sessions` and `clients` are the C arrays as sequences. A destroyed
  session or a lost client leaves a `NULL` hole. `session_create` and
  `server_create_client` reuse the first hole. `session_destroy` trims
  trailing holes (`ArrayInsert`, `ArrayRemove`, `TrimNull`).
- `sess[s]` holds a session's name, creation time, its winlinks as a set
  of `[idx, w]` records, `curw` and whether its `lock-command` is too
  long for `lockdata.cmd`. `curw` is a winlink record, not an index,
  because the C `s->curw` is a pointer to a winlink.
- `cl[c]` holds a client's session, suspended flag and creation time.

**Actions.**
- `ServerLinkWindow` is `server_link_window`, including `-k`. When `-k`
  removes the current winlink, it forces the new one to be selected.
- `ServerUnlinkWindow` and `ServerKillWindow` model the server-fn.c
  functions. When a session loses its last window, both destroy it and
  detach its clients (`ApplyDetaches`, `ServerDestroySessions`).
- `ServerLock` is `server_lock(client, session)`. `CmdLockServer` is
  `cmd_lock_server_exec`.
  - `cmd-lock-server.c` comes from a later tmux. It calls
    `server_lock()`, `server_lock_session()` and `server_lock_client()`.
  - They are mapped onto the `server_lock(c, s)` in `server-fn.c`, with
    no target, a session or a client.
- Some operations are not under `src/` and are modelled from the spec:
  - creating sessions and windows, and kill-session;
  - connecting, attaching and losing clients;
  - a suspended client resuming;
  - setting `lock-command`.

**Refinement.** `ServerTables.tla` is the abstract table that the
arrays implement:
- a set of live sessions;
- for each connected client, its session or NULL.

Its actions are:
- create one session;
- destroy a set of sessions together with detaching exactly their
  clients;
- connect, lose and attach a client.

`Sessions` instantiates it as `Tables`, with `live <- Live` and
`attached <- [c \in Connected |-> cl[c].session]`. `TablesRefined`
states that every Sessions step is a `TablesSpec` step or leaves both
tables unchanged. So the NULL holes, slot reuse and trimming are
invisible at this level, and `server_destroy_session` detaches exactly
the clients of the sessions that go.

### TargetResolver (`TargetResolver.tla`, `MCTargetResolver.tla`)

This module extends Sessions. It has one operator per `cmd.c` resolver:
`CmdCurrentSession`, `CmdNewestSession`, `CmdNewestClient`,
`CmdLookupClient`, `CmdLookupSession`, `CmdLookupWindow`,
`CmdLookupIndex`, `CmdFindClient`, `CmdFindSession`, `CmdFindWindow`,
`CmdFindIndex` and `CmdFindPane`. `CmdListWindows` is
`cmd_list_windows_exec`: the session `cmd_find_session` gives, then one
row per winlink in index order, marking `s->curw`. The layout dump and
the line format are left out.

**Names.** Names are sequences of one-character strings.
- `strtonum` is `StrToNum`.
- `fnmatch` with `*` and `?` is the recursive `FnMatch`.
- `strchr` and `strrchr` are the least and greatest position of the
  character (`ColonSplit`, the period of `FindPaneIn`). `session:window`
  is split at the first colon, as `strchr` does.
- The `RB_FOREACH` walks of `cmd_lookup_window` return ambiguous at the
  second match, so their result depends only on the set of matching
  winlinks (`WalkWinlinks`).

**Undefined behaviour.** `cmd_current_session` returns a *set*. Reading
`ARRAY_ITEM(&sessions, idx)` at `idx = ARRAY_LENGTH` is undefined, and
the model lets it yield any of:
- `NULL`;
- a session freed before the trim;
- `Garbage`.

**Faults.** A NULL dereference is the value `Fault`.

**The context.** `Ctx` is the command context: the current client, the
tty's window, and `$TMUX`'s pid (ours, other or none) and index.

### Chooser (`Chooser.tla`; checked through `MCSessions.tla`)

Chooser extends Sessions with choose-session (`cmd-choose-session.c`).

**State.**
- `mode[w]` is the chooser data in window `w`'s active pane: the
  client, the `sessions` array at exec time and the template. It is
  `NoMode` when the pane is not choosing.
- `cref` is `c->references`.
- `freed` is the set of clients whose memory is freed.

**Actions.**
- `CmdChooseSessionExec` is the exec function. The target is the
  current window of the running client's session. A pane already in a
  mode makes exec return with nothing done. Exec takes the reference.
- `ChooseItem(w, idx)` runs `SessionCallback`, leaves the mode, and runs
  the free function (`Release`). A cancel is `idx = -1`. The callback
  puts the name of the session now in the slot into the template with
  `CmdTemplateReplace` (`cmd_template_replace`, cmd.c:910) and runs it.
- Every Sessions step is composed with `PaneReset`. When a step
  destroys a chooser's window, the pane leaves its mode and the free
  function runs inside that step, as `window_destroy` does.
- `ServerCleanDead` frees every dead client whose count is 0. It is a
  conjunct of every step, because the server loop runs
  `server_clean_dead` after each event.

**From the spec.** `window-choose.c` and `server.c` are not under
`src/`. The pane mode, the item data, the cleanup and the callback's
command are modelled from spec §5. A template is kept as the target `X`
of `switch-client -t X`: the default `'%%'`, or what the user gives as
choose-session's argument. `SwitchTarget` moves the client to the live
session with that name, or leaves it where it is when none has it, as
switch-client does when `cmd_find_session` fails.

**Not modelled.** `cmd-choose-tree.c` cannot be run.
`cmd_choose_tree_entry` is in neither `cmd_table` nor the default key
table: it is the "currently broken" of its FIXME.

### CmdParse and ClientCommand (`CmdParse.tla`, `ClientCommand.tla`; checked through `MCClientLoop.tla`)

**CmdParse** holds the pure parts of `cmd.c` as operators. A character
is its code and NUL is 0, so a string is a sequence of positive
integers and a buffer a sequence of bytes.
- `CmdPackArgv` and the recursive `PackFrom` are `cmd_pack_argv`: the
  first byte is cleared, then each argument is strlcpy'd with the room
  left and fails when `strlen >= len`.
- `CmdUnpackArgv` and `UnpackFrom` are `cmd_unpack_argv`. They force a
  NUL into the last byte, then split, and fail when the bytes run out.
- `LookupFrom` is the entry loop of `cmd_parse`: alias match with the
  ambiguity reset, prefix candidates, and the exact-name break.
  `CmdParse` adds "no command", "ambiguous", "unknown" and the usage
  error of an entry without a parser. `getopt(argc, argv, "")` leaves
  nothing only for no arguments or a lone `--` (`NoParserAccepts`).
- The reference definitions are `Encoding` (each argument and its NUL),
  `SpecLookup` (the matching rule of spec §4.1), and `SortedTables`,
  which builds every table shaped like `cmd_table`. Such a table is
  sorted by name, and no alias equals a name or another alias. In the
  real table the alias `lock` is a prefix of `lock-client`, of its own
  `lock-server` and of `lock-session`. The pool reproduces this shape.

**ClientCommand** extends ClientLoop and CmdParse with the start of
`main()`. `opts` is what getopt and the environment gave `main()`: the
`-f` file, `-U` and what `getpass` returns, `-S`, the socket directory
as `makesockpath` finds it, and whether a server already listens.
`ClientPrepare` runs the setup in code order, and every failure is
`exit(1)`:
- the `-f` file must pass `access(R_OK)`; without `-f`, the default
  file is dropped when unreadable (`CfgFileOf`);
- without `-S`, `makesockpath` must create or find a directory of its
  own that only its owner can use (`MakeSockPath`);
- with `-U`, `prepare_unlock` refuses a command, a NULL `getpass` and a
  too long password (`PrepareUnlock`);
- otherwise argv is packed into the zeroed static buffer
  (`PrepareCmd`). A failed pack is "command too long";
- for argc > 0 the client then parses the line itself, for the
  `CMD_STARTSERVER` decision, and exits 1 if that fails;
- with no server up and no `CMD_STARTSERVER`, `client_init` fails
  (`StartServer`).

Only then does it queue MSG_UNLOCK or MSG_COMMAND, and a forked server
inherits `cfg_file`. From there the ClientLoop actions run (`Connection`).
- `ServerRecvArgv` is ClientLoop's `ServerRecvCommand` with the
  server's `cmd_unpack_argv` of the payload.
- `cmd_list_parse` (`cmd-list.c`) is not under `src/`. For an argv with
  no `;` it is `cmd_parse`, and the modelled argvs have none.

### ConfigLoader (`ConfigLoader.tla`; composed into ClientCommand)

`load_cfg` (`cfg.c`) reads a file line by line, parses each line into a
command list and runs it. `source-file` calls `load_cfg` again from
inside that loop, so the calls nest. All of them share the global
`cfg_cause`.

**State.**
- `stack` has one frame per `load_cfg` call in progress. A frame holds
  its path, its line count `n`, where it is (reading, executing, or
  waiting for a nested load) and the commands left on the line.
- `cfgCause` is `cfg_cause`. It can be NULL, a cause, or `Freed`: the
  error path frees the cause and leaves the pointer dangling.
- `loaded` is the result of the top-level call.

**Abstraction.**
- A line is its parse result: blank, bad, or a command list.
- A command succeeds, fails (`ctx->error` and -1), or is `source-file`
  of a path.
- A cause is its innermost message plus the path and line that each
  `load_cfg` wrapped around it.

**Actions.**
- `LoadCfg` is `fopen`. It fails for a missing file, or with EMFILE
  when `MaxOpen` FILEs are already held by the outer calls.
- `ReadLine` is `n++`, then parse. A bad line goes to `error:`. A blank
  line is skipped. A command list resets `cfg_cause`.
- `ExecCmd` runs one command. A failing command sets `cfg_cause` through
  `cfg_error` and ends the list.
- `EndLine` goes to `error:` when `cfg_cause` is set.
- `Deliver` returns to the caller. For a nested call this is
  source-file's error report.

**From the spec.** `cmd_string_parse`, `cmd_list_exec`, `source-file`
and `server_start` are not under `src/`, and follow spec §4.4 and §5.
- `cmd_list_exec` stops at the first failing command.
- `source-file` reports a failed load through `ctx->error`.
- In ClientCommand, `server_start` loads the file before its loop reads
  any message (`ServerLoadCfg`, `ServerCfgStep`, `ServerRun`). On
  failure it writes the cause with `server_write_error` and shuts down
  (`ServerCfgError`).

**Reference.** `SpecLoad` is the recursive reading of spec §4.4. The
first bad line or failing command fails the whole load, with each
file's path and 1-based line.

## 3. Runs

| Run | Config | Expect | What it shows |
|---|---|---|---|
| keybindings_safety | `MCKeyBindings.cfg` | pass | `DispatchedListNotFreed`: the command list of the binding being dispatched is never freed, even when it unbinds or rebinds its own key. `FreedUnreachable`: no freed binding is in either tree. `KeyCmpConsistent`: `key_bindings_cmp` is a consistent strict order over every binding stored, including a `bind-key -n` of a key that the defaults bind with the prefix. 272k states, about 45 s. |
| keybindings_leak | `MCKeyBindings_NoLeak.cfg` | violation | `NoLeak` fails in 3 steps. Binding key K1 twice replaces two old bindings with equal keys. The second cannot be inserted into `dead_key_bindings` (key-bindings.c:101), so it is never freed. |
| keybindings_uninit_probe | `MCKeyBindings_LiveKeyUnique.cfg` | violation | `LiveKeyUnique` fails. The probe's uninitialised key2 makes remove miss the old binding, and add then leaves two live bindings for one key (key-bindings.c:65). |
| clientloop | `MCClientLoop.cfg` | pass | Runs `CmdSpec`: from the command line to the end of the poll loop. `ArgvRoundTrip`: the client fails with "command too long" exactly when argv and its NULs exceed the buffer, and the server unpacks the argv the client parsed. This includes an argv that fills the buffer to its last byte. `CmdLookupMatchesSpec`: on each of the sorted tables over the name pool, `cmd_parse`'s lookup agrees with the matching rule. `CfgLoadMatchesSpec`: `load_cfg`, through nested source-file and the shared `cfg_cause`, returns what `SpecLoad` says. `ConfigErrorReported`: a client whose server failed to load its configuration exits with 1 on the shutdown. `SrvInHoldsRest`: `srv_in` followed by the socket holds exactly the bytes of the messages not yet consumed. `ClientTerminates`: the client always reaches one of its exits, whatever the server does. 119k states, about 1 min with coverage. |
| clientloop_oversize | `MCClientLoop_Oversize.cfg` | violation | `ConsumedIsPrefix` fails. A PRINT longer than `sizeof printdata` makes the client parse payload bytes as a header (tmux.c:528). The spec says this is a fatal protocol error. |
| sessions_safety | `MCSessions.cfg` | pass | Runs `ChooserSpec`, so choosers stay pending across every Sessions step. `SessionsWellFormed`: every live session has windows and its `curw` is one of its winlinks. This holds through link -k, unlink and kill. `AttachedSessionLive`: no client stays attached to a destroyed session. `ChooserReferencesHeld`: a client's reference count equals the number of chooser data blocks holding it, and none of those clients is freed. `TemplateTargetsChosen`: the choice puts the chosen session's name into the template as `cmd_template_replace` does, for `'%%'` and `%1`, and switch-client then lands on that session. 139k states, about 3 min with coverage. |
| sessions_kill_window | `MCSessions_KilledWindowUnlinked.cfg` | violation | `KilledWindowUnlinked` fails. `server_kill_window` detaches only the first winlink of the window in each session (server-fn.c:204). A window linked twice into one session survives kill-window. |
| sessions_lock_server | `MCSessions_LockServerLocksAll.cfg` | violation | `LockServerLocksAll` fails at depth 11. `server_lock` `return`s when a client's lock-command is too long (server-fn.c:182). The clients after it in the array stay unlocked. |
| resolver_safety | `MCTargetResolver.cfg` | pass | `FindIndexAgreesWithFindWindow`: `cmd_find_index` gives the index of the window `cmd_find_window` finds, or a free index for a number. `TablesRefined`: the arrays refine `ServerTables`. 18.6k states, about 40 s. |
| resolver_session_exact | `MCTargetResolver_LookupSession.cfg` | violation | `LookupSessionMatchesSpec` fails. With sessions `aa`, `ab`, `a` in that order, target `a` is ambiguous (cmd.c:505). The spec says an exact name wins. |
| chooser_stale_slot | `MCSessions_ChosenSessionShown.cfg` | violation | `ChosenSessionShown` fails in 9 states. Choose-session lists `<<s1, s2>>`, then `s1` is killed and a new `s3` takes its slot. Choosing item 0 then switches the client to `s3` (cmd-choose-session.c:101). |
| resolver_find_client_null | `MCTargetResolver_FindClient.cfg` | violation | `FindClientNoFault` fails. After a client disconnects, `cmd_find_client(NULL)` dereferences its NULL slot (cmd.c:419). |

**Bounds.**
- KeyBindings:
  - Two bindable keys, one of them a prefix key with the same code as a
    default binding's key2.
  - Three command lists: plain; rebinding K1; unbinding K1.
  - A garbage probe key2.
  - `MaxBindings` = 5 allocations. That is enough for a self-unbinding
    dispatch followed by two rebinds.
- ClientLoop:
  - `HdrLen` = 2, so a header can be split across reads.
  - `PrintLen` = 1.
  - At most 4 messages.
  - Every interleaving of server and client and every chunking of reads
    is explored.
- ClientCommand (in MCClientLoop):
  - `MCOptions`: a base (a command client, no `-f`, a good socket
    directory, no server) and its variations: every `-f` file; every
    socket directory, and `-S`; `-U` with each `getpass` result, with
    and without a server; a server already up, with and without `-f`.
    Crossing every axis would multiply the state space without
    reaching a new branch.
  - Six socket directory states for `makesockpath`: created, already
    there, `mkdir` failing, not a directory, another user's, and open
    to the group.
  - Configuration files including `noaccess`, which exists but fails
    `access(R_OK)`.
  - A 6-byte argv buffer.
  - Seven command lines: none; one that fits to the last byte; one 7
    bytes long; alias with a bad option; empty name; unknown name; and
    a leftover argument.
  - Tables are built from the names `1`, `11`, `12`, `2` with the alias
    `1`. The lookup check covers every sorted, well-formed table over
    them. This includes an alias that is a prefix of names before and
    after it, and an exact name that is a prefix of others.
- ConfigLoader (in MCClientLoop):
  - `MaxOpen` = 3 FILEs.
  - Five configuration files the server can start with:
    - a clean load with a nested file;
    - a bad line two files down;
    - a failing command in a nested file, after a nested success;
    - a file that sources itself until `fopen` fails;
    - a missing file.
  - Together they reach every branch of `load_cfg` except the
    `cause == NULL` parse failure. That one needs `cmd_string_parse`,
    which is not under `src/`.

- Sessions:
  - Two sessions, two windows, one client and indices 0..1. The
    lock run uses three clients and one index, so that a client lies
    after the one that stops `server_lock`.
  - Symmetry over sessions, windows and clients is sound because no
    constant distinguishes them.
- Chooser (in MCSessions):
  - At most `MaxChoosers` = 1 pane in choose mode at a time. One
    chooser already reaches every reference-count path: exec, choice,
    cancel, and window destroyed.
  - Templates `'%%'` (the default) and `%1`. Each chooses the other
    replacement branch of `cmd_template_replace`.
  - The stale-slot run has three sessions and three windows. Slot reuse
    needs a session killed and a third one created.
  - The Sessions violation runs use `SessionsOnlySpec`, in which no
    chooser is ever opened.
- TargetResolver:
  - Two sessions, two windows, one client.
  - Names `a` and `ab`, and window names `a:` and `1`: a colon in a
    name and a name that is also an index.
  - 21 target strings covering index, exact, prefix, glob, `:`, `.`
    and `/dev/` forms, an index out of range, and an empty part on
    either side of `:` and `.`.
  - The exact-match run needs three sessions and names `a`, `aa` and
    `ab`.
  - The find-client run needs two clients.

**Fairness.**
- ClientLoop assumes weak fairness of the client's own steps. The loop
  is a single thread that blocks only in `poll`, and poll returns when
  data, EOF or writability exists.
- It assumes weak fairness of the server receiving the command and
  finishing it. Every command ends with EXIT or READY.
- It assumes weak fairness of the server dropping a `CLIENT_BAD`
  client. The server loop does this on its next pass.
- ClientCommand keeps these, for the steps of the connection once the
  command is queued. It adds weak fairness of `ClientPrepare`, because
  `main()` runs from `prepare_cmd` to the loop without blocking.
- It assumes weak fairness of each step of `server_start` and of the
  shutdown after a failed load. `server_start` runs straight through
  before the loop, and the loop sends MSG_SHUTDOWN on its first pass
  once `server_shutdown` is set.
- KeyBindings, Sessions, Chooser and TargetResolver check only safety, plus the
  `ServerTables` refinement, which is a safety property.

**Deadlock.** `MCClientLoop.cfg` says `CHECK_DEADLOCK FALSE` because the
client process really exits. KeyBindings and Sessions check deadlock. `MCTargetResolver.cfg` says `CHECK_DEADLOCK FALSE` for a real reason. Its `TableSpec` leaves out the lock actions, and once every session id is used and every client gone, the server has nothing left to do and exits.

## 4. Plan

Modules in order of importance. All seven are written and checked.

1. **KeyBindings** (done). Deferred free, the comparator, dispatch
   re-entrancy.
2. **ClientLoop** (done). Framing, chunked reads, the buffer
   invariant, termination.
3. **Sessions** (done). The `sessions` and `clients` arrays with NULL holes,
   and winlinks as a relation from sessions to windows with indices.
   Its actions are `server_link_window`, `server_unlink_window`,
   `server_kill_window`, `server_destroy_session` and `server_lock`.
   - Properties: no winlink to a killed window remains (catches the
     first-link-only loop at server-fn.c:201); a session with no
     windows is destroyed; `server_lock` suspends all or none.
4. **TargetResolver** (done), with list-windows. It composes Sessions and has operators for
   `cmd_current_session`, `cmd_find_client/session/window/index/pane`
   over the Sessions state.
   - Properties: `cmd_find_index` agrees with `cmd_find_window`; the
     arrays refine `ServerTables`; `cmd_find_client(NULL)` never reads
     a hole (cmd.c:419, violated); an exact session name wins (cmd.c:505,
     violated).
5. **Chooser** (done). It composes Sessions and models choose-session
   exec, callback and free, with reference counts. choose-tree cannot
   be run, so it is not modelled. Other
   commands destroy sessions and clients between exec and callback.
   - Properties: references match the pending choosers; the chosen
     index names the session shown.
6. **CmdParse + ClientCommand** (done); `cmd_template_replace` is in Chooser.
   It has pure operators for `cmd_parse` and pack/unpack, composed into
   the client's start and the server's receipt of the command.
7. **ConfigLoader** (done). It models `load_cfg` with nested
   `source-file` and the global `cfg_cause`, composed into server start.

The project runs 12 checks, the most the check script allows. New
modules will have to share runs: for example, one pass run per module
that checks several properties at once.

## 5. Not modelled

- **Three divergences reproduced but not run.** All 12 runs are used,
  and each violation run checks one property. TLC reproduced these
  three while modelling:
  - **The exit code after an error.** The server writes MSG_ERROR and
    then MSG_READY, and the client exits 0. `retcode = client_main()`
    at tmux.c:534 overwrites the 1 that the error set. Spec §6 says the
    exit code is 1 on any reported error. The sources do not show
    whether `server.c` ever sends an error before READY.
  - **A colon in a session name.** `session:window` is split at the
    first colon (`strchr`, cmd.c:662). A session named `a:b` is then
    never found as `a:b:window`. Spec §4.2 splits at the last colon.
  - **The off-by-one at cmd.c:341**, described below.
- **Operators with no passing property.** `cmd_find_pane`,
  `cmd_find_session` and list-windows are translated
  (`FindPaneIn`, `FindSessionNamed`, `CmdListWindows`). The one property
  that read them only restated that `curw` is one of the session's
  winlinks and that lookups return live objects, so it was dropped.

- **choose-tree** (`cmd-choose-tree.c`). Its entry is in neither
  `cmd_table` nor the default key table, so no command line and no
  key binding can run it. Choose-session, which shares its callback
  design, is modelled.
- **Redraw and status flags** (`server_redraw_*`, `server_status_*`).
  They only mark clients for redrawing, which the spec excludes with
  rendering. Adding them to Sessions would multiply `sessions_safety`'s
  state space past what one run can check.

- **An off-by-one reproduced but no longer run.** A `$TMUX` index equal
  to `ARRAY_LENGTH(&sessions)` passes the `>` check at cmd.c:341, and
  `cmd_current_session` reads past the array. TLC found this in one
  step. The run was retired to keep the project within 12 runs, in
  favour of the chooser's stale-slot run.
- **A spec divergence noted but not run.** When `$TMUX` names another
  server (cmd.c:339), `cmd_current_session` returns NULL. It does not
  fall back to the newest session. An explicit `session:window` target
  then fails with "can't establish current session".

- **Startup, the rest.** The option defaults, `-2`/`-8`/`-d`/`-q`/`-v`,
  the UTF-8 detection, signal setup and `getcwd` only set flags or
  strings that no modelled part reads. Their values are what
  `MCOptions` enumerates.
- **The `makesockpath` race** (tmux.c:198). Between `mkdir`, `lstat` and
  the later `connect`, another user could replace the directory. Other
  users are not modelled: the directory's state is fixed when `main()`
  runs.
- **`cmd_template_replace` with a repeated `%%`.** It replaces every
  `%idx` but only the first `%%`, while its comment says "first %% or
  %idx". The model follows the code, and `SpecTemplate` records the
  code's reading. The templates checked have a single `%%` or `%1`.
- **The recursion depth.** Spec §2 asks for a depth counter that stops
  runaway recursion. `load_cfg` sets `ctx.depth = 0` for every line
  (cfg.c:105), so a file that sources itself is stopped only when
  `fopen` fails with EMFILE. The model includes that case, with
  `MaxOpen`. The spec's limit is not stated precisely enough to check.
- **The entries' own argument parsers** (`arg.c`, not under `src/`).
  `CmdParse` takes them to accept.
- **list-windows' line format and layout dump.** They are formatting
  only; the rows and the active mark are modelled.
- **The key-binding info callbacks** (`key_bindings_print`, `_error`,
  `_info`). They only format text.
- **The server's command execution** (`server.c`, `cmd-list.c`). It is
  not under `src/`. It appears only where a modelled part calls it, and
  it is modelled from the spec there.
