# HyperSpace AGI 1.04: TLA+ verification

HyperSpace is a mesh of hosts that run language and image models. A *control
plane* (Flask, a thread per request, several loops) receives chats, tasks, image
requests and memories; *nodes* (FastAPI on asyncio) run the models; *bridges*
and *drivers* (one process each) pull work from the control plane; *Hermes*, on
another host, keeps the memory; *agents* give the control plane a shell, a
tunnel and a code sandbox on their host; other control planes are its
*federated peers*. This directory models the parts whose correctness depends on
interleavings, leases, crashes and lost replies, checks them with TLC on small
instances and proves with TLAPS what matters most for every size.

All definitions are translated from the code under `src/`; `PROJECT.json` maps
each of them to its lines. Names follow the code, which is in Italian.

## 1. Inventory

For every component: its state, its operations, what is hard, what makes it
correct, and the modules of this directory that model it.

### Image pipeline: `ImageQueue`, `JobLifecycle`, `ImageMemoryGate`, `ImagePipeline`

| Part | State | Operations | Hard | Correct when |
|---|---|---|---|---|
| Job queue, `shared/image_jobs.py` | jobs with creation and claim times, history, JSON file | `accoda`, `prossimo`, `concludi`, `rinvia`, `consegnato`, pruning, restore | claims lapse, saves fail, the process restarts on an older file, bridges report twice | ceiling kept; a job is concluded once and remembered; a live claim is nobody else's; every job ends |
| Memory gate, `shared/image_memory_gate.py` | owner, lease, number of chats | `enter_chat`, `leave_chat`, `reserve_image`, `continue_image_queue`, `release_image` | two kinds of waiters on one condition variable, the lease runs out while somebody waits | a chat does not enter a memory that is reserved; the gate stays shut only for images that keep coming |
| Routes, `control-plane/cp/immagini.py`; chat admission, `control-plane/main.py` | one thread per request | claim+reserve, defer, result, status | a request is several critical sections; its client may be gone | the two parts above stay consistent with each other |
| Bridge, `integrations/comfyui/comfy_bridge.py` | the job in hand | poll, prepare memory, render, report until answered | dies, gives up waiting, reports again | no job rendered twice at once, no image published twice |

### Memory: `MemorySync`, `MemoryMirror`, `HermesRevisions`

| Part | State | Operations | Hard | Correct when |
|---|---|---|---|---|
| Outbox and sync, `shared/memory_sync.py` | a JSON-lines file, a cache of its ids | `write`, `flush`, `append`, `clear` | no lock at all; network calls between read and clear; a file replaced under who has it open; kills in mid-line | an acknowledged entry is lost in the one way that is known, and delivered in the end |
| Mirror, `shared/memory_sync.py` | one file replaced atomically | `append`, `merge`, `prune` | one temporary name for all threads; read-modify-write | the file is always whole and is the union of what it was given |
| Bridge, `scripts/hermes_memory_bridge.py` | revisions of entries, one database | `store`, `import`, `lifecycle`, `entries` | late and repeated requests, gestures that overlap | each revision is kept once, what is revoked is not shown |

### Mesh: `MeshRegistry`, `PeerGossip`, `TaskAssign`, `FleetScores`, `NodeAliases`

| Part | State | Operations | Hard | Correct when |
|---|---|---|---|---|
| Registry of nodes, `cp/mesh.py`, `cp/battito.py` | dictionary and table of nodes, the heartbeat's list | announce, register a browser, poll, mark, remove | any number of threads without a lock, stale copies, secure, plain and browser addresses | every node is polled, dead ones are marked and live ones usable in the end |
| Gossip of the nodes, `node/main.py`, `registry/registry.py` | a table of peers per node, one of the registry | heartbeat, announce, discovery, pruning | restarts at another address, news at second hand | a table holds no address nobody ever had; live nodes find each other |
| Tasks, `main.py`, `shared/db.py` | task objects, rows | create, assign over the candidates, restart | two requests on one task; an answer that is lost; a row that cannot be written | a finished task was executed and counted; one that stays assigned has a reason |
| Scores, `routing.py`, `cp/metriche.py` | samples, back-off, cached scores, last choices | collect, compute, choose | a silent node is asked less and less | the cache shows what was measured; a silent node is asked again |
| Aliases, `cp/mesh.py` | table, dictionary, cached list | set, remove, list | three writes, two requests | a name belongs to one node |

### Chat and tools: `ChatCompletion`, `ToolServer`, `WebNode`, `CodeSandbox`, `SandboxRuns`, `HostSessions`, `HostTunnel`, `ForgeSkills`, `Connectors`

| Part | State | Operations | Hard | Correct when |
|---|---|---|---|---|
| Completion, `cp/chat.py` | the task's row, the words already sent | nodes, direct backend, federation, provider, streams, tool loop | a stream breaks in the middle; every hop may fail | one source speaks; the outcome recorded is the one the caller saw |
| Tools and MCP, `cp/tool.py`, `shared/mcp_auth.py`, `shared/shell_policy.py`, `shared/web_search.py` | clients and their allow lists, the legacy memory file | list, call, confirm, audit | tokens that name two clients; notes over one file | a tool runs for who may call it and does what it says |
| Browser nodes, `shared/web_node.py` | tabs, queues, tasks, waits | register, poll, complete, cancel, purge | tabs that close, reload, answer late | a job is served once and can be cancelled as long as it is kept |
| Sandbox, `shared/code_sandbox.py`, `sandbox/runner.py` | files of jobs and results, workspaces | submit, wait, run, verify, diff | the caller gives up, the runner dies | a call that gave up has no later effect; a verdict means what it says |
| Host agent, `hostctl/agent.py`, `shared/shell_sessions.py` | shell sessions, the tunnel and its file | open, run, reap; start, stop | check and act without a lock; process numbers that come back | ceilings hold, one tunnel |
| Forge, `cp/forge.py`, `shared/forge_skills.py` | a record and a source per artifact | create, generate, update, approve, import, attach | two files, edits by hand | a chat is given what was approved, as it was approved |
| Connectors, `control-plane/connectors` | catalogue, policy, breaker, cache | execute, reload | services that fail, a reload during a call | only who may write writes, once; a pause is deserved |

### People: `ChannelGuard`, `ChannelFacts`, `TelegramDriver`, `IrcDriver`, `InstagramDm`, `InstagramTurns`, `SocialDiary`, `PersonaDreams`

| Part | State | Operations | Hard | Correct when |
|---|---|---|---|---|
| Guard of a room, `shared/channel.py` | texts, times and strikes per author | observe, decay, evict, reconfigure | the table at its limit, thresholds changed at work | who relapses is stopped, and nobody else |
| Facts of a room, `cp/canali.py` | marks of the debounce, memory | ingest, result | the mark comes before the entry | one line for a wave, and it comes |
| Drivers, `telegram_bot.py`, `irc_bot.py` | offsets, commands, photos; connection, batches | poll, send, confirm; connect, join, gather, answer | every call may fail, the connection drops anywhere | who calls is answered, a photo confirmed was sent, no batch waits for ever |
| Direct messages, `cp/instagram.py`, `instagram_outbox.py`, `instagram_vip.py` | conversation, outbox, levels, consent | webhook, poll, worker | two ways in, a second message during the answer, restarts | counted once, answered once, concluded |
| Their memory, `instagram_memory.py` | turns, summary, sequence | append, compact, clear | a summary made of turns that change meanwhile | nothing is forgotten, in order, once; what is cleared stays so |
| Diary, `shared/diario.py`, `sketch.py`, `main.py` | pages in one file, counters, jobs | write, sketch, illustrate | threads overwrite one file, restarts | every illustration finds its page; ceilings of the day |
| Persona, `shared/persona.py`, `persona_dream.py` | identity, journal, schedule | observe, dream, review | two files, loops and routes without a lock | one dream a night; promoted means written |

### Node: `NodeSlots`, `DreamJournal`, `NodeMetrics`, `ProxyInteractions`

| Part | State | Operations | Hard | Correct when |
|---|---|---|---|---|
| Limiter, `node/main.py` | slots in use, queue, capacity, degraded flag | `acquire`, `acquire_idle`, `release`, `apply_qos` | asyncio lock and condition, timeouts racing a release, capacity that shrinks under the users | slots are neither lost nor invented; every request is answered |
| Dreams, `node/dreaming.py` | idle time, running generation, fingerprint, journal and notes | `tick`, `interrupt`, `review` | a request arrives at any await of a tick; two files; pushes out of order | foreground never waits for a dream; the same memories are dreamt once; a revoked note is hidden |
| Telemetry, `node/backend_metrics.py` | counters, window of interactions, cache | collect, read | counters restart, collections overlap | rates and quantiles are not above the true ones |
| Proxy, `node/ollama_proxy.py` | log, live entries | call, record, push, tick | a fallback after an answer; tasks out of order | an answer is generated and logged once |

### Other meshes and settings: `Federation`, `FederationViews`, `BottleRelay`, `SetupConfig`

| Part | State | Operations | Hard | Correct when |
|---|---|---|---|---|
| Federation, `cp/federazione.py` | allow list, forwards under way | pair, toggle, remove, execute | an answer that is lost, a peer removed meanwhile | a task makes one hop; a second execution has a reason |
| Views, `cp/federazione.py` | one cached reading | read, invalidate | readings of six seconds per peer | never older than its age says; "partial" is true |
| Bottles, `cp/bottles.py`, `federation-gateway/main.py` | bottles, windows of calls | publish, list, announce | two windows in two programs | rates and ceiling |
| Setup, `main.py`, `cp/env_meta.py` | environment, globals, `.env`, connectors | save, restart | two saves, a refusal half way | what was saved is in the file and in force |

Without a module: GPU budget, model fit and vitality (arithmetic), dashboards,
legacy worker and authority, installer, scripts, compose files, vendored code;
section 8 says why.

**How they meet.** Bridges, drivers and tabs pull over HTTP; nodes are called by
the control plane and announce themselves to it; federated peers call each other;
the sandbox and the host agent exchange files or single calls. Inside the control
plane the threads share dictionaries (seldom under a lock), a SQLite table and
JSON files. The image parts and the chat share one memory gate, which is why they
are composed (`ImagePipeline`); the other parts meet through calls that may fail,
and each module has the other side of its calls as an environment that may
answer, refuse, be late or be gone.

The hazards of all of them, each at its line, are listed in `PROJECT.json` with
the properties that cover them.

## 2. Plan

1. `ImageQueue`, `JobLifecycle`, `ImageMemoryGate`, `ImagePipeline`. *Done,
   proved.*
2. `MemorySync` (*done, proved*), `MemoryMirror`, `HermesRevisions`. *Done.*
3. `NodeSlots` (*done, proved*), `DreamJournal`, `NodeMetrics`,
   `ProxyInteractions`. *Done.*
4. The mesh, the chat and its tools, the people, the other meshes (the tables
   above). *Done.*
5. Proofs: the image pipeline, `NodeSlots`, `TaskAssign`, `PersonaDreams`,
   `MemorySync`, `InstagramDm`, `NodeAliases`, `MeshRegistry`, `FleetScores`,
   `ChannelGuard`, `ChannelFacts`, `Federation`, `HostTunnel`, `ChatCompletion`,
   `WebNode`, `ForgeSkills`, `InstagramTurns`, `ToolServer`,
   and of `ControlPlane`, which puts those of one process side by side. *Done*
   (section 5). Next: `PeerGossip`, `HostSessions`, `CodeSandbox`.
6. Next models: the heartbeat's synchronisation of memory
   (`cp/battito.py`), the loop of the development dream.

Every module is written to be proved about: parameters are CONSTANTS,
invariants are conjunctions of named parts, and none uses a recursive operator.


## 3. Modules and code

An action is what the code does between two points where it gives up control: a
method under its lock, the code of a thread between two accesses to a file, a
shared dictionary, a lock or the network where there is no lock, the code of a
coroutine between two real suspensions. What a service, a model or a person
answers is a choice. A variable called *history* in its comment records what
happened for a property and is read by no guard.

### Images

**`ImageQueue`** (`ImmagineQueue`). `job` is `_job`, `storico` is `_storico`,
`disco` is the JSON file. The code stores times and compares differences; the
model stores the differences (`eta`, `presa`), capped one above the bound they
are compared with. Actions: `Accoda`, `Prossimo`, `Concludi`, `Rinvia`,
`Consegnato` (methods of that name), `Legge` (every method that only prunes, and
the refusals of `accoda` and `prossimo`), `Riavvia` (a kill and `_restore`),
`RiavviaSenzaFile` (the file cannot be read), `Tick`. Pruning is part of each
action that prunes. A method saves once or twice; with `DiscoFallibile` each
save may leave the file as it was.

**`JobLifecycle`** is what a client may rely on: the phases of a job and its
age, without file, history or ceiling. `ImageQueue!Ciclo` is the refinement
mapping; a restart maps to claims that come back and old jobs that vanish.

**`ImageMemoryGate`** (class of that name). `owner` is `_owner`, `resto` the
rest of the lease, `chat` and `prenota` say where each caller stands.
`enter_chat` is `EnterChat` and, for one that waits, `ChatSveglia` or
`ChatRinuncia`; `reserve_image` is `ReserveRinnova`, `ReserveRifiuta` or
`ReservePrende`, and then `ReserveConcessa` or `ReserveScaduta`. Every change a
waiter waits for notifies all, so a waiter may go on when its condition holds.
`continue_image_queue` keeps the gate for whatever image comes next, so a stream of
images that does not end keeps it shut, and each chat waits and is answered 503
("riprova fra poco", `main.py:469`).

**`ImagePipeline`** has the two above as instances over shared variables, and adds
`richiesta` and `rapporto` (the threads of `GET /image/jobs` and
`POST /image/result`), `ponte` (the bridge's loop), `durata` (of its render) and
`effetti` (diary and Instagram). `CadePonte` and `CadeControlPlane` are kills;
the latter restores the queue and gives the gate to one of the restored claims,
as `main.py` does. A reply is lost when the bridge no longer waits for it
(`PonteNonAspetta`), when a report is answered to nobody (`RiferisceDoppione`,
`RapportoEffetti`), when a deferral never arrives (`RinvioPerso`).

### Memory

**`MemorySync`** (`MemorySync`, `MemoryOutbox`). `coda`, `monca`, `rotte` are the
outbox file: its readable lines, whether it ends in half a line, the entries
whose line was glued to half a line. `ids` is the cache `_ids` (`{}` for
`None`); `filo` is where each thread is and what it read; `staccati` the threads
that have the file open (or its one temporary file) which another has replaced
since; `esito` how each write ended. `travolte` is history: the entries whose line a
rewrite took away unread. Hermes is a set and a flag: it may answer, refuse, be down, or take an
entry and have its answer lost.

**`MemoryMirror`** (`MemoryMirror`, `_atomic`) goes down to directory entries and
inodes, because two threads may have the same temporary file open. An entry is
its timestamp.

**`HermesRevisions`** (the bridge, and what `MemorySync` sends it). `db` are the
messages of the bridge, `coda` the outbox with at most one revision of an entry,
`filo` the lifecycle requests, which read what is visible and then store changed
revisions one by one. A request the control plane gave up on may be executed
later (`Arriva`).

### Mesh

**`MeshRegistry`**: `nodi` and `noti` are `_nodes_by_id` and `_known_endpoints`;
`battito` is the heartbeat thread, `annunci` and `elimina` the threads that handle
announcements and removals. Nothing is locked there, so an action is one access to
the registry or to the known addresses, or one call: `Annuncia` reads the entry,
`Iscrive` writes the new one or refreshes the one it read, `RendeNoto` adds the
address; `Elimina` finds the entry, `Toglie` pops it, `Prova` looks for others at its
address, `Scarta` discards it; the heartbeat polls, writes, saves, asks for peers,
and marks the nodes that do not answer one by one. Any node may answer at its
addresses (`Sede`), a page or nobody. A browser announces `browser://<id>`, as `mesh_announce`
makes up for who sends no address and `web_register` always does; `_normalize_endpoint`
then makes an `http://` address of it (`Scheda`), which is the one a removal discards
and a restart reads. The table is read only at the start, so `Init` allows it any content and a
restart is the beginning of another behaviour; the promotion of the local node and the pings
that follow a poll change only its own entry and the latencies, and are left out.
`fresco` says that nobody has replaced the entry a thread has read, and `corsa` is
history: the nodes written while a removal was discarding their address. **`PeerGossip`**: `peers` and `registro` are the
tables of the nodes and of the registry program, `battito` each node's round
(announce to active peers, take over theirs, register, discover), `Cade` and
`Avvia` a node that comes back, perhaps elsewhere. **`TaskAssign`**: the object a
request holds (`oggetto`) and the one the dictionary has (`corrente`) are
different once a task is created again. **`FleetScores`**: collector, back-off,
cache and lock of the scores, and the two dictionaries of recent choices, of
which only one is filled. **`NodeAliases`**: the three writes of a name (table,
dictionary, cached list) are steps of their own.

### Chat and tools

**`ChatCompletion`** is one request: `modo` is what it asks for, `fase` the stage
(nodes, direct backend, federation, provider, streams), `giro` the tool loop;
budget and answers are choices. **`ToolServer`**: an environment (clients,
tokens, lists, thresholds) is chosen at boot, then calls come by MCP or directly
and overlap; the legacy memory file is read, opened and written in separate
steps. **`WebNode`**: the methods of the registry under its lock, the tabs that
poll, reload, fall silent or answer late, the mesh's view of them. Jobs are
numbered as they come, so that a queue is the set of its jobs and its head the least.
**`CodeSandbox`**: jobs and results are files, a step is one file operation of a
caller or of the runner, which may crash between any two. **`SandboxRuns`** is
the inside of a workspace: a command with its limits and children, a check, the
plan of `verify`, a diff that is cut. **`HostSessions`**, **`HostTunnel`**: the
store of shells without a lock, and the tunnel's process and state file.
**`ForgeSkills`**: record and source of an artifact as two files written in
order under the lock, edited by hand, imported, given to a chat.
**`Connectors`**: calls pass catalogue, policy, breaker, cache and service in
steps, and a reload replaces policy, counters and connectors one by one.

### People

**`ChannelGuard`** counts ages instead of times. Its table is an ordered
dictionary: `tracciati` are its authors and `dopo`, who has spoken since the last
message of each, is its order. `colpi` is kept by an observer, to say who deserved
what: the age of the last suspicion, how many came in a row, and whether enough others
spoke in between to push the author out. `soglie` are the thresholds in force: any that
`__init__` makes of a configuration (a mute at the first strike included), and any
that `Riconfigura` (`reconfigure`, after a save of the Setup) puts in their place. **`ChannelFacts`** separates the mark of
the debounce from the write. **`TelegramDriver`** and **`IrcDriver`** are one
thread each, whose `fase` is where it stands; Telegram, the network and the
control plane answer or do not. **`InstagramDm`** has the two ways in (`entrata`),
the item of the outbox in memory and on disk, a worker per message, and restarts.
**`InstagramTurns`** numbers the turns, and a summary is the set of turns it tells
of. **`SocialDiary`** splits a save into open and close, because threads overlap
there; `Prende` is a publication, which ends where it names its lock and changes
nothing (section 7 says why). **`PersonaDreams`** has the
document in memory and on disk, the journal read and written back in two steps.

### Node

**`NodeSlots`** (`_AdaptiveLoadLimiter`, `DreamWorker`). `fila` is the asyncio
lock with its fair queue, `req` where each request stands inside `acquire` and
`release`, `inVolo` and `inCoda` the two counters, `posti` the capacity,
`sogno` the worker's tick, `impronta` and `diario` its state file and journal.
Python 3.11's `wait_for` runs the condition's wait in a task, cancels it on
timeout, and a cancelled wait takes the lock again before it ends: `Scade`,
`Annulla`, `Rinuncia`. An `async with` on a free lock does not suspend, so
`release` and `acquire_idle` are one action when the lock is free.

**`DreamJournal`**: a review writes the dream, then its note, then pushes;
the bridge keeps every revision. **`NodeMetrics`**: a collector asks, waits and
publishes; counters restart, rows may be cut. **`ProxyInteractions`**: one
request through node and proxy, by four routes; rows, pushes and ticks are
counted.

### Other meshes and settings

**`Federation`**: each control plane's allow list, the forwarding thread with the
list it read, the peers that execute. **`FederationViews`**: readings that take
their time, and the one cache. **`BottleRelay`**: the windows of the gateway and
of the relay, the table of bottles. **`SetupConfig`**: environment, globals,
copies taken at import, catalogue and `.env`, and saves that overlap.

## 4. Runs

Components that share no state are explored *side by side*: in a behaviour of
`MCNodo`, `MCControlPlane`, `MCIntorno` and `MCVive` one component, the `scena`,
is at work and the variables of the others rest (at 0, or in an initial state).
The state spaces add up instead of multiplying, and a run asks one question of
many components. A property of such a run is a conjunction of the properties of
its scenes. Each of the four modules extends one component, whose theorems are
then about what the run checks (`NodeSlots`, `PersonaDreams`, `ImageMemoryGate`,
`TaskAssign`), and instantiates the others. `MCControlPlane` extends `ControlPlane`
too: its components side by side, with the constants as parameters and
the shared properties stated, so that they can be proved for every value of the
constants (section 5.5); `MCControlPlane` gives the values and adds the
persona's dreams and the tasks, whose theorems are in their modules. `ImageQueue`, `ImagePipeline` and `MemorySync` are checked as they
are, with their values in the `.cfg`. The composition of parts that do interact is
`ImagePipeline`.

| Run | Instance | Shows |
|---|---|---|
| `coda` | `ImageQueue`, 3 jobs of 2 families, ceiling 2, TTL 3, claim 2, history 2, file writable | types, ceiling, history; a live claim ends only by its bridge or the job's age; deliveries are remembered; refinement of `JobLifecycle` |
| `mac` | `ImagePipeline`, 2 jobs, 1 chat, the Mac's bridge, TTL 4, claim 3, lease 2, render up to 3 | types; memory reserved for the first lease of a render; one claiming and one concluding thread per job; the gate becomes free again and again once no image is asked for any more |
| `due_ponti` | 2 jobs, 2 bridges that share a family, TTL 4, claim 3, render up to 2 | no double render; effects at most once |
| `nodo` | `NodeSlots` with 3 requests, both kinds of backend, capacity 1 to 2; `NodeMetrics` (three engines; two collectors); `ProxyInteractions`; `SandboxRuns` | slots, dreams and lock; no admission beyond capacity, no lost wake-up; every request answered; telemetry, proxy and verdicts are true |
| `control_plane` | registry (2 nodes, one of them in a browser; 1 thread that announces, 1 that removes, the heartbeat), tasks, scores, aliases, browser nodes, chat, guard, facts, Instagram messages and memory, persona, tools, Forge (own artifacts, a bundle) | the mesh agrees with itself; chats, tools and skills are what they say; served, counted, answered, dreamt once |
| `intorno` | memory gate, queue on a failing disk, outbox (1 thread; 2 threads), mirror, revisions (one entry; two), Telegram, sandbox, shells, tunnel, dream reviews (in order; lossy), federation, views, bottles, diary (dreams; posts and poems), settings (a key of /config/advanced; one whose reader keeps a copy), connectors, gossip | exclusion; nothing acknowledged is lost; ceilings; what was done is recorded; what was revoked is hidden |
| `vive` | thirteen of the components and the memory gate, each under its own fairness (3 nodes, 2 candidates, 2 requests, 2 creations of a task) | tasks say what happened to them; requests end; the view of the mesh becomes true again; rooms are served; nothing stays in suspense; queues empty; the gate is shut for good only by reservations that keep coming |
| `coda_claim` | as `coda`, TTL 2, claim 1 | *violation*: a job is pruned under a live claim |
| `lease` | as `mac` | *violation*: a chat enters during a render, when it has outlasted its lease |
| `memoria_persa` | 2 entries, 2 threads | *violation*: an entry is lost to another thread's flush |
| `risposta_doppia` | `InstagramDm` without a webhook, with a restart | *violation*: a message is answered twice |
| `promossa` | `PersonaDreams`, disk may fail | *violation*: the journal says promoted of facts that are not in the document |

`CHECK_DEADLOCK` is off in the side by side runs only, where a scene may come to
rest at its bounds (as many calls, restarts, turns as the constants allow). Two
properties depend on constants and choices alone (`UnDisegno` of
`InstagramTurns`, `NomeDelTool` of `ProxyInteractions`); TLC looks at them over all
their inputs in the first states.

**Bounds, and why they are enough.** Ages, leases and windows are compared with
one bound each, so one step past the bound stands for all greater ages: they are
capped there, not cut. Three jobs with a ceiling of two let one be refused, and
two families let a bridge pass over an older job; a history of two loses its
oldest. The order of the times is kept: TTL > claim >= render (43200 s, 3600 s and
1800 s in the code) in `mac`, `due_ponti` and `lease`, and lease : render is 2 : 3 in `mac` and
`lease`, the ratio of the code (1200 s and 1800 s). Two chats and two images make both kinds of waiters meet; in
`mac` one chat is enough, the gate only asks whether there is any. Two threads are
the smallest instance for a race, and the component runs have two of whatever
races there: two requests on one task, two updates of an alias, two callers of the
sandbox and of the shells, two saves of the settings, two collectors, two workers.
Three authors over a table of two let one be pushed out and come back. Three
control planes are the least with a peer of a peer, three nodes the least with
news at second hand. Four turns with a summary after two let a summary cross a
clear and another summary. Restarts and losses are bounded by one or two where
they would otherwise repeat without end; a second one finds the same states.

What the passing runs assume and the code does not always provide is in their
constants: the scene `memoria` has one request thread, and the scene `memoria2` says
what is left with two (Flask has many: `memoria_persa`); the mirror is checked with one
thread too (section 7, Memory). Other conditions are written in the property,
as in `MemoriaRiservataEntroLease` (the first lease of a render; the run `lease` has
what happens after), `NodoSondato` (but for a node written in the window of a removal)
or `UnaRispostaSola`; the unconditional form stands beside it, under the name section 7
gives.

In `mac` an image is asked for once per job, so the run shows how the gate is freed
when the images end, not the stream that does not let it: `GateSiLibera` has "no more
images are asked for, from some time on" as its hypothesis, and the scene of the
gate in `vive`, where reservations may come for ever, has `ChiusaSoloSeRichiesta`: a gate that is
never free again is reserved or renewed again and again.

Every property of a passing run has a mutant, an operator beside the definition
it changes the way a plausible slip would (marked `Mutant of` in the modules);
with it the property fails under the same configuration.

## 5. Proofs

A theorem holds for every value of the constants that its module's assumptions
allow. Each theorem was preceded by a TLC run of the candidate invariant on a small
instance.

### 5.1 `ImageQueue_proofs`

For every set of jobs and families, ceiling, times and length of history
(`ImageQueueAssumption`).

- `TipoCorretto`: `TypeOK`. Inductive as it stands.
- `TettoMaiSuperato`: `AttiviEntroTetto`. Not inductive: a restart replaces the
  queue by the file. The invariant says the file keeps the ceiling too. Every
  action but `Accoda` leaves the set of active jobs inside the old one (pruning
  only removes; a lapsed claim stays active), `Accoda` checks first, and a save
  that fails leaves an earlier, equally bounded file.
- `StoricoSempreFedele`: `StoricoFedele`, again with the same statement about the
  file and, in addition, that no history is longer than its bound.
- With `DiscoFallibile = FALSE` the invariant `InvFile` says that the file is the
  image of the memory after every method (all of them save before they return the
  lock). From it: `ConsegnaMaiDimenticata` (`ConsegnaRicordata`),
  `ClaimRispettato` (`ClaimVivoResta`) and `CodaImplementaCiclo`
  (`ImplementaCiclo`): initial states map to initial states and every step to a
  step or a stutter of `JobLifecycle`. Without the assumption the three are
  false: the restart continues from an older file.

### 5.2 `ImageMemoryGate`

The theorems stand at the end of the module. For every set of jobs and chats and
every lease (`ImageMemoryGateAssumption`, `ProprietariDistinti`): `TipoCorretto`,
`MemoriaMaiCondivisa` (`PrenotazioneEsclude`), `PrenotazioneRispettata`
(`PrenotazioneResta`). The invariant adds two facts the code never checks but
relies on. A request that waits for the chats still owns the gate
(`AttesaPossiede`): `reserve_image` does not look at the owner again when it
wakes, and this holds only because its wait (120 s) ends before the lease
(1200 s). An image that owns the gate was granted it or waits for it
(`PossessoPrenotato`).

### 5.3 `ImagePipeline_proofs`

The composition, for every number of jobs, chats and bridges, with lost replies
and crashes on both sides.

- `CodaNelSistema`: `Spec => Q!Spec`. Threads, bridges and gate never do to the
  queue what the queue's own specification does not allow, so a theorem about the
  queue alone holds in the pipeline; `TettoNelSistema` carries the ceiling over.
- `TipoCorretto`, `PubblicataUnaVolta` (`EffettiUnaVolta`), `UnThreadPerJob`
  (`RichiestaUnica`) from one invariant: the file is the image of the memory and,
  for each job, an accepted report concerns a job that is no longer running
  (`LavoroAccettato`), who holds it in a request or in a bridge has a claim on it
  (`ClaimDellaRichiesta`, `ClaimDelPonte`), and effects counted plus effects to
  come are at most one (`UnaPubblicazione`).
- `NessunDoppioRenderMai` (`NessunDoppioRender`), where a render is not longer
  than a claim (1800 s and 3600 s as shipped): a render is never older than its
  claim, so the claim is alive as long as the render, and a live claim is
  nobody else's. Nothing else keeps two bridges apart.
- `RiservataPerUnLease` (`MemoriaRiservataEntroLease`), where at most one bridge
  renders the checkpoint family (`UnSoloMac`, the documented deployment): no chat
  is inside during the first lease of a render, however long renders may be. A
  render as shipped may last longer (1800 s against 1200 s), and what happens then
  is the counterexample of the run `lease`; that the gate holds up to that moment,
  in whatever order waits, replies, lapses and restarts come, is the theorem.
  `IInvPorta` joins the two invariants with what links them: who is in hand owns
  the gate, through the request's wait, its reply on the way, and the render,
  with at least the rest of the first lease left (`Eta` is the age of a render,
  and a job binds the gate while it is below `Lease`).

### 5.4 `Mesh_proofs`

A node, the other meshes and the host's tunnel, for
any number of requests, peers, tasks and processes. They share no step: each is
proved alone, from its own assumption (`...Assumption`, a hypothesis that
`MCNodo` or `MCIntorno` evaluates). The module extends `MCNodo`, and ends with what
its run `nodo` checks: of every scene, for any value of the constants of
`MCNodo`, `TipiDelNodo` (`Tipi`), `NodiSempreVeri` (`NodiVeri`), and
`ScenaDeiPosti`: a scene is a fair behaviour of `NodeSlots`, so that what is proved
of the slots (and checked of their liveness) holds of the scenes. Its invariant (`InvScena`, which TLC finds true of the
429596 states of the run) gives each scene the invariant of the program at work.

**`NodeSlots`** (extended, not instantiated). For any number of requests and any capacity, `TipoCorretto`, `NodoSempreOrdinato`
(`NodoOrdinato`) and `PassiSempreAmmessi` (`PassiAmmessi`). The type of the two
counters is not provable alone: they are decremented without a test, and are
natural numbers because they count the requests that hold a slot or a place in
the queue (`PostiContati`). So the invariant is one conjunction. Its other parts
say why the code may check and act in two steps: a request that has found a free
slot still has the lock, so nobody takes it (`AmmissionePronta`); who has the
lock is at its head (`PortaInFila`); an idle period passes only with nobody in
the limiter (`QuieteVuota`); a generating dream has been told to stop before a
request waits (`SognoCede`); a fingerprint in the journal is not newer than the
state file, unless a write was missed (`ImprontaFedele`).

**`NodeMetrics`** (`MetInv`), for any models, engines and collectors. That a rate is
never above the true one (`TassoNonGonfiato`) is decided when a collector
publishes, from what it was answered before and from a sample that another may
have written meanwhile. `MetConti` says that the engine's counter has grown since
the last sample no more than what was produced, restarts included; `MetLetture`
says the same of every answer a collector holds, and that a collector which ran
alone holds an answer later than the last sample; `MetInsieme`, that two
collectors under way both know it, the case the code has no guard for and the
property excepts. An empty payload has failed sources (`VuotaSpiegata`). The
quantiles are a function of a histogram: `QuaOrdinati` proves for every histogram of
three buckets in the bounds of `Istogramma` that they are in order and not above
the true ones, from where the target falls.

**`ProxyInteractions`** (`ProInv`), for any requests, ways and ticks. A call that has not come to
writing its row has none, and one that pushes has one (`ProRighe`); the model
generates at most once for each call, and a second call follows a generation only
when its row was refused (`ProConti`); an answer was generated, and its row
written or refused (`ProRisposta`); a call whose last tick has arrived is off the
panel unless an older one came after it (`ProPannello`).
`RispostaInTelemetria`, `DoppioSpiegato` and `VivoSpiegato` follow.
`ProNomeDelTool`: an answer carries the name of the tool called in its own round,
by computing what two rounds of the tool loop have met (`Incontrate`).

**`SandboxRuns`** (`SanInv`), for any tools, sizes and limits. `PassaSoloBuono` needs that of each
verdict so far (`SanEsiti`) and of the command under way: what its tool saw fits
its exit code, and an end without an error has one (`SanCorsa`). `InteraSeNonTagliata` is a fact of the
functions (`SanIntera`).

**`Federation`**: `TipiDellaFederazione`, `UnSaltoSolo` (`UnSoloSalto`), `DoppioneConRagione`
(`DoppioneSpiegato`), `RimossoPerSempre` (`RimossoResta`). A late peer may execute
what the origin has given up on, so "one execution" is false, and the invariant
(`UnoAllaVolta`) says what is true: a task is only at peers its origin has
called, and the origin has given up on all of them but the one it waits for.

**`HostTunnel`**: `TipiDelTunnel` (crashes included), and, where the agent does not die in the middle of a
request (`MaxCadute = 0`; between two it may), `UnTunnelSolo`
(`AvvioUnico`) and `TunnelRitrovato` (`TunnelFermabile`). Process numbers are reused and
the file may be stale; `TunnelAnnotato` says that a tunnel that runs is the
one in the file, or the one whose number the lock's owner is about to write. An agent killed
between the two leaves a tunnel nobody can stop, and the next start a second one.

### 5.5 `ControlPlane_proofs`

The components that `ControlPlane` puts side by side, for any number of nodes,
names, authors, requests, messages, jobs, clients, calls and artifacts, from the assumptions
`IpotesiMesh`, `IpotesiCanale`, `IpotesiBrowser`, `IpotesiDm`, `IpotesiChat` and
`IpotesiForge`, which TLC evaluates. First each component is proved by
itself, then the side by side system: its invariant (`PartiInv`) is that the part
at work keeps its own, a part at rest does not move, and the properties the run
`control_plane` checks follow: `MeshSempreCoerente` (`MeshCoerente`),
`CanaleSempreGiusto` (`CanaleGiusto`), `BrowserSempreUnaVolta` (`BrowserUnaVolta`),
`ChatSempreVera` (`ChatVera`, with `ForgeSempreFedele` for its last conjunct),
`DmSempreUnaVolta` (`DmUnaVolta`), `PassiDellaMesh` (`PassiMesh`)
and `PassiSempreServiti` (`PassiServiti`).
`SpecParti` is what the run explores, without the two components that only
`MCControlPlane` has and whose theorems are in their own modules (5.6, 5.7).

**`NodeAliases`**: `TipiDeiNomi`, `UnSoloProprietario` (`AliasUnivoco`),
`ChiESolaAllinea` (`SolaAllinea`). Two routes may both find a name free; that
it gets one owner rests on the UNIQUE column only, so the invariant needs nothing
about who is checking. That the dictionary in memory follows the table holds for a
request that met no other: `SolaLegge` says that it is then the only one at work
and that the table it has read is still the table.

**`MeshRegistry`**: `TipiDelRegistro`, `ChiCeESondato` (`NodoSondato`: the address
of every node of the registry is one the heartbeat polls) and `HttpsNonSiPerde`
(`NonDeclassato`), for any number of threads that announce and remove, whatever step of
the heartbeat or of each other they meet, and a database that fails. Nothing is locked, so
a thread writes what it decided from an entry that may be another by then. The
invariant says what each still knows: `Aggiornati`, that an entry nobody has
touched since (`fresco`) is as the thread read or wrote it; `SolaCorsa`, that a node
at an address which a removal is about to discard is in `corsa`; `InMano` and
`SoloBrowser`, what is in hand in each phase and who may have a browser's address. What
the code does not exclude is named in the properties: a node written in a
removal's window (`corsa`), a thread that has been overtaken (`Sorpassato`), and
the address of a browser, which replaces an https one and is polled by nobody.

**`FleetScores`**: `CacheSempreVera` (`CacheRiflette`: while the collector sleeps, the
cached scores come from the last samples). A request reads the samples of one node
after another while the collector changes them, so what is being computed, and the
cache it fills, may be old; the invariant (`FleVisti`) says that they differ from
the samples only while the collector has written samples and not yet invalidated the
cache, which also restarts a reading under way.

**`ChannelGuard`**: `PunitoChiRicade` (`PunitoSoloRecidivo`), `FermatoChiRicade`
(`RecidivoFermato`), for any set of thresholds a configuration can give (a mute from the
first strike or later, a ban not before it) and any change of them while it runs: who is
silenced has been suspected as often in a row as the thresholds in force ask for, and who
has is silenced. The guard does not keep when somebody was suspected, only a
counter that lapses, and it forgets the author silent for longest. `GuaOrdine`
says that who has spoken since orders the authors of the table, so that there is exactly one to
forget and it is one since whose last message the whole table has spoken;
`GuaStrike` that a counter which holds counts the suspicions in a row since the author was
last pushed out. The second needs the first: without the order an author might be
forgotten sooner, and a relapse pass for a first time.

**`ChannelFacts`**: `UnaRigaSola` (`UnaRigaPerFinestra`). The mark of a fact is set
before the fact is written, with the memory's call in between: `FatSolo` says that
who is about to write is alone, that its mark stands and that nothing was written
since.

**`WebNode`**: `ServitoSempreUnaVolta` (`ServitoUnaVolta`), `SempreAnnullabili`
(`Annullabili`), and that a slot in use is freed only with its job (`SlotTenuto`). A job
goes from a queue to a slot to a tab, and a purge, a reload or a late answer may
come at each place; the invariant says where it is: in one queue or in one slot (`BroDivisi`; a
tab may hold a job that is in its own slot, or that the registry has forgotten,
never one that still waits), that the registry knows those and no others (`BroNoti`), and that
one which waits was given to nobody (`BroDati`).

**`ForgeSkills`**, for artifacts of the operator and of a bundle together: its
three invariants and `PassoImporta`. Record and copy are two files, so the
invariant follows the write under way (`ForgeScritta`: a later version, or the same one with
the same source; a hash only in an approval; once the copy is placed it is the source about
to be recorded) next to what is on disk: the hash of a record is of what was approved
last (`ForgeImpronte`), no recorded version is ahead of the record
(`ForgeVersioni`), the copy is the record's but between the two replacements
(`ForgeCopie`). `ForgeFedele` follows for both scenes from the same lemmas, which
hold for any two sets of artifacts.

**`InstagramDm`**, for any number of messages, generations and restarts,
with or without the webhook: `TipiDeiMessaggi`, `ContatoSempreUnaVolta`
(`ContatoUnaVolta`: webhook and poll dispatch a message once between them) and
`UnaSolaRisposta` (`UnaRispostaSola`: in one process, or for a contact who has
written one message, a message gets one answer at most). The poll reads a
conversation that goes on growing, so the invariant begins with its shape:
messages 1 to k are there, and after our last answer come only the last of them,
in order (`Conversazione`); hence what is on its way into the outbox was written, was
seen, and is on its way once (`Provenienza`). Then, for each message (`Turno`): item and
worker agree on where its answer is, no answer has left while one may still be
sent, and in one process a message that another has replaced in the outbox never
comes back. With a second message and a restart `Turno` is false, and so is the
property: run `risposta_doppia`. `Lavoro` (who writes the answer to the item finds
it still to be answered) holds in every case and is what bounds the
generations.

**`InstagramTurns`**, for any number of turns, workers, clears and failed saves. Its
invariant (`TurInv`) begins with the row in memory and in the file: the turns are in
order, within the ceiling, numbered up to the counter, and tell of what was said
(`TurForma`). As long as no summary has crossed another or a clear, and nothing was
lost with the file (`TurPuro`), the row remembers what was said since the last clear,
less what the ceiling dropped, each turn in the row or in the summary and not in both
(`TurRicordo`); and a worker that waits for its summary, when it would still be
the next one, has taken the turns up to its cutoff and no other
(`TurAttuale`). The last is what makes the write after the model's answer safe: the
turns may have grown and been cut meanwhile, but those up to the cutoff are the ones
summarised. With it `NullaDimenticato`, `TurniInOrdine` and `AzzerataResta` follow.

**`ChatCompletion`**: `TipiDellaChat` (with it: the tool loop ends within
`max_iterations`), `EsitoConcorde` (`EsitoVero`), `UnaFonteSola` (`UnaSolaFonte`), for
any candidates and whatever each backend answers. The task is written in
ten places and never read back, so the invariant says what each stage may count on: before
the request is closed it is open and nothing of it is remembered (`TaskAperto`), only
a stream comes to the stages that close it without a look at the answer (`SoloFlusso`), and
bytes are forwarded in one stage, that leads to no other candidate (`InvFonti`).

**`ToolServer`**, for any clients, tokens, lists and thresholds, any ceiling of the
memory and number of calls. What no call changes (`ListaEsatta`, `StessaRisposta`,
`VoceSpiegata`, `SoloPertinenti`) is proved of the operators: a client
that is recognised has what its environment gives it, whichever voice made it and
whether voice or single token, so a call that enters is entitled (`TooVera`).
The memory file is read, opened and written in three steps by calls
that overlap, without a lock. The invariant says what it owes: a note answered as
stored, with no other write across its own and not crowded out by newer ones, is in the
file whenever nobody has the file open; who is writing alone has read it; and a file
that is open is broken unless another writer closes it (`TooMemoria`). A note may
then be cut only by the ceiling, which takes the oldest: that a note cut has
`MaxVoci` newer ones is an argument about greatest elements of finite sets.

### 5.6 `TaskAssign`

At the end of the module; for any number of tasks, of requests on one task, of
nodes and of creations (`TaskAssignAssumption`).
`TipoCorretto`, and `TaskSempreVeri` (`TaskVeri`: a finished task was executed
and counted, one that stays "assigned" has a reason). Two requests may work on
one task, on the same object or on two made by two creations, so neither the
row nor the object says who is at work. The invariant says what each request
knows at its program counter (`RichiesteInRegola`: what it is about to write is
true of the node it called, and the executions it counts have happened) and who
answers for a row that is "assigned" without a reason (`QualcunoConclude`: some
request still calls the node for that task or is about to write the outcome). A restart
stops the requests and marks what they leave. Every step of a request is an
update of its record, of one row and of one object; one lemma (`PassoDi`) says
what such an update must satisfy, and each action is an instance of it.

### 5.7 `PersonaDreams`

At the end of the module; for a journal of any length, any number of reports, days and
reviewers (`PersonaDreamsAssumption`). `TipoCorretto`, and
`UnSoloSognoPerNotte` (`UnSognoPerNotte`: no two dreams of one night in the
journal). The loop, the route that asks for a dream and the reviewers each read the whole journal, change
their copy and write it back, so one of them can put back a journal that
lacks a dream. The invariant says why this produces no second dream of a night:
the state file never names a night that is still to come (`Date`), one dreamer at a time is
past the test of the lock (`UnoSolo`), and every copy that may be written back
(the journal, the dreamers' and the reviewers' rows) has one dream a night and none
newer than the last night the state file knows, save one of the night being dreamt
(`Copie`, `Prossima`). A row that is lost is lost, but the night remains dreamt
in the state file, and no copy adds it a second time.

### 5.8 `MemorySync`

At the end of the module, for any number of entries and of threads in the outbox at
once, and every order of lost answers, partial imports, unwritable files and
crashes: `TipoCorretto`, and `SiPerdeSoloTravolto` (`PersoSoloTravolto`): a write
answered "ok" is in Hermes, in the queue, in a line broken by a kill, or was
in a file that a flush rewrote without having read it. With two threads the last
does happen (run `memoria_persa`); the theorem says that nothing else
loses an entry. What a write answers is decided several steps after what it
stored, so the invariant says at each program counter where the entry in hand is
and what a thread has read (`InRegola`: stored entries are in Hermes, the queue it
read is of entries that are somewhere, and `flush` empties it only of those Hermes
holds), and that the cache of the ids, which other threads leave stale, only
lists entries that are somewhere (`CacheDiAffidate`): turning one of them away
loses nothing. The stronger promises, `NientePerso` (nothing overwritten
either) and `CacheCoerente` (the cache is the file's), hold of one thread and are
model-checked with one, in the scene `memoria` of `intorno`; `TypeOK` and
`PersoSoloTravolto` are checked with two in `memoria2`.

### 5.9 How the proved modules are written

Three forms that SANY and TLC read as expected are read otherwise by tlapm 1.4.5:
two nested updates of one index (`[f EXCEPT ![r].a = u, ![r].b = v]`), an `@`
inside another `@`, and `UNION A \union B`, which it takes for
`UNION (A \union B)`. The proved modules write one update of the whole record
(`![r] = [f[r] EXCEPT !.a = u, !.b = v]`) and `(UNION A) \union B`. An empty string
makes its SMT backend fail: there an absent value has a name (`"mai"`, `"no"`). It knows
neither `CASE` with `OTHER` nor the folds: there a choice is an `IF`, a sum the size of a
set or a recursive function over an interval, which is unfolded at the few
places it is asked for (`QuaSomma`, `ProIncontrate`).

Every action of these modules fires in some run, from a state in which the invariant,
being proved, holds: no step of a proof is about a case that cannot happen. The theorems of `ImageMemoryGate`,
`TaskAssign`, `PersonaDreams` and `MemorySync` stand in the modules themselves. Every assumption is evaluated by TLC in a run; what a theorem needs
beyond the module's assumption is a hypothesis of the theorem.

### 5.10 What is only model-checked

- Liveness (the run `vive`, `RispostaSempre`, `GateSiLibera`, `RichiesteConcluse`
  and the others): fairness and ENABLED are outside of what these provers do.
- `MemorySync!NientePerso` and `CacheCoerente`, which need a single thread (5.8).
- `DreamJournal!RevocataNascosta` rests on what
  `SelectSeq` returns, which needs an induction over sequences; the same holds for
  what a fold computes.
- The other parts of `MCIntorno` (gossip, sessions, sandbox,
  connectors, views, bottles, diary, settings), the types of the scenes of `MCControlPlane` and `MCIntorno`
  (`TipiCorretti`, `Tipi`), and of the direct messages the consent. Their invariants hold on the instances of the runs; whether they hold for every
  size is not shown here.
- The theorems of `Mesh_proofs` about `Federation` and `HostTunnel` concern the component, not the scene of the
  MC module in which the run checks the same definition.

## 6. Fairness

Weak fairness is assumed of what a thread, a timer or the asyncio loop does next
once it can; strong fairness only of the answers and locks named here. Nothing is
assumed of clients, people, crashes, or of a peer that may be down for good. In
`MCVive` the fairness of a scene (`Equo...`) holds while that scene is at work.

- `ImageQueue`: time passes, somebody keeps polling. Bridges poll every few
  seconds and the status page reads the queue; pruning happens only then. Nothing
  is assumed of bridges that hold a claim.
- `ImagePipeline`: each request thread and each bridge's loop (its HTTP calls and
  its render have timeouts); strong fairness of `Tick`, which waits for threads in
  the middle of a request: they end within 120 s, a fraction of the tick.
- `MemorySync`: the threads, and somebody asking for a flush (`/memory/sync`, and
  every successful write); strong fairness of a successful import: a Hermes that
  is reachable answers one of the imports in the end. `CodaSiSvuota` assumes that
  from some time on Hermes stays up, the control plane is not killed and the file
  can be emptied.
- `NodeSlots`: everything the asyncio loop runs (ready coroutines, timers). The
  lock is a FIFO queue, so nothing stronger is needed. A request that is inside
  may never end.
- `FleetScores`: the collector and the readers; strong for the end of a
  collection, which needs the lock of the scores.
- `TelegramDriver`: the loop and the clocks; strong for answers of model, network
  and control plane, which fail now and then but not for ever. `IrcDriver`: the
  loop, and strong for the server's reply.
- `ChannelFacts`: request threads and time; strong for writing a fact, since a
  memory that never answers loses it.
- `TaskAssign`, `ChatCompletion`, `CodeSandbox`, `Federation`, `WebNode`,
  `NodeAliases`, `InstagramDm`: their request threads and loops, whose calls have
  timeouts.
- `MeshRegistry`: the heartbeat thread, and the threads that handle an announcement.
  That nodes announce themselves is a hypothesis of `NodoVivoUsabile`; that the heartbeat has not
  ended on an error, and that no removal took the address from under the node, is one
  of `SpentoSegnato` (section 7, Mesh, says when they fail).
- `ImageMemoryGate`: time, and the waits of requests, which have a timeout. Nobody has to
  ask, to leave or to release: `ChiusaSoloSeRichiesta` says what is left.
- `PeerGossip` states a fairness (`Equo`) and two properties under it
  (`SiTrovano`, `SparitoSegnato`); no run checks them.

## 7. Where code and documents differ

Five runs end in a counterexample.

1. `coda_claim`: `shared/image_jobs.py:538` prunes a running job by its age since
   creation. `tests/test_image_jobs.py:73` and the comment at
   `image_jobs.py:30-34` want a job to outlive its claim. That the TTL exceeds
   the claim's is enough only for a job claimed at once: one that waited in the
   queue, or was deferred, is pruned during its render, and its result gets 404.
2. `lease`: `shared/image_memory_gate.py:15`, lease 1200 s, never renewed during
   a render that may take 1800 s (`comfy_bridge.py:557-558`): a chat enters, and
   its model is loaded beside the checkpoint.
3. `memoria_persa`: `shared/memory_sync.py:373`, `flush` empties the queue
   after the network call with what it read before it; an entry appended in
   between, or written to the file just replaced, is lost although its write was answered "ok" (lines 7-9 and 340-341
   say there is one way to lose an entry, and this is another).
4. `risposta_doppia`: `shared/instagram_outbox.py:26` says "Never retry blind".
   Without a webhook the poll marks a message as seen in memory only, so after a
   restart during the answer to a later message it is answered again.
5. `promossa`: `main.py:1072-1074` says that the identity is written before its
   review. When that save fails the facts stay in memory; the review sent again
   finds them there, skips the save and records "promoted".

The rest was met while modelling. A name in brackets is the statement of a
document or a comment as a definition of the module: no passing run claims it, a
weaker or conditional form that holds is checked instead.

**Images.** `stato` looks for a pruned job in the last 5 entries of the history,
the docstring of the route says 20 (`image_jobs.py:529`, `cp/immagini.py:295`). A
control plane that dies between `concludi` and the diary leaves a page that is
never illustrated (`cp/immagini.py:204`). After a restart one of the restored
claims gets the gate (`main.py:457`), whatever their number. When a job ends and another
image is in the queue the gate is handed to the queue (`image_memory_gate.py:71-80`,
`cp/immagini.py:209-211`), so a steady stream of images keeps chats out for as long as
it lasts: they get 503 "riprova fra poco" (`main.py:469`), each time. `GateSiLibera`
therefore starts where images stop being asked for.

**Memory.** Two threads in the outbox: `append` may raise `TypeError` or
`AttributeError` when another has dropped the cache of ids (`Confronta`,
`AnnotaId`); an `OSError` while the queue is emptied reaches the caller of a write
that had succeeded (`SvuotaFallisce`); a kill in mid-line glues the next entry to
half a line (`rotte`, which `NientePerso` excepts); one entry that Hermes refuses
keeps the whole queue from being emptied. `_atomic` has one temporary name for all
threads (`memory_sync.py:59`; line 51: "mai un mezzo"), and two threads that append
to the mirror lose one update. The outbox compares entry ids, not revisions: a
second revision is dropped with "ok" [`NienteScartato`]; an entry without a
timestamp delivered again another day is stored twice, and comes back after a
revoke [`RevisioneUnicaSempre`, line 357]. Overlapping lifecycle gestures can show
a revoked entry again; a partial one is reported as failed although some entries
changed. The legacy memory file is read, changed and rewritten in place without a
lock (`ToolServer!NotaTenuta` says when a note is safe). In the heartbeat
`_sync_memory_across_nodes` notes a key as synchronised before the push, so a push
that fails is not repeated.

**Mesh.** Recent choices are kept in `mesh.py:102`, and read from a second
dictionary that is never filled (`main.py:674`), so the recency penalty of
`routing.py:10-12` never applies [`NonRipete`]; `schema_mismatch` is never used
(`routing.py:9-10`). The collector dies of an `OverflowError` in its back-off
(`metriche.py:246-249`) [`RaccoglitoreVivo`]; the heartbeat of a database error
inside its own `except`, of the `KeyError` there when the node it marks has just been
removed, or of a dictionary that changes size [`BattitoVivo`].
`delete_mesh_node` uses a lock its context does not have (`mesh.py:525-542`): the
removal is done, the answer 500. A node written between the test of a
removal and its `discard` is in the registry and never polled (`corsa`). An https address is given
up for that of a browser (`mesh.py:474-475`, `:483`; `cp/webnode.py:120-127` replaces
whatever is there), and a plain one may replace it when a poll or an announcement writes
an entry it decided on before another thread's (`Sorpassato`). A ping marks a zombie in the table only. A rejected
change of address leaves the dead one "active". The comment at `mesh.py:494-495`
says nodes are loaded as "unreachable", the code keeps their status. Two updates
of an alias may leave the dictionary stale [`CacheAlias`]. Creating a task again
replaces the object a request still holds. In the gossip a dead peer stays active
while two nodes tell each other about it (`node/main.py:361-366`)
[`FantasmaScordato`]; news at second hand may overwrite a newer address; two
islands that each have an active peer never meet; boot peers that are down are
not tried again although the log says so.

**Chat and tools.** The header that switches tools off is not respected
by the tool loop [`StrumentiSpenti`, `docs/public-web-node.md:30-32`]; an answer may ask
the client for tools of the control plane [`SoloStrumentiDelClient`,
`docs/connectors.md:36`]; a failed native
stream is recorded as completed [`ErroreNonCompletato`]; a client that closes a
stream leaves its task "assigned"; the deadline is not looked at between
candidates; `main.py` toggles its own copy of `FEDERATION_ENABLED`. After a
restart the mesh shows tabs nobody knows [`RiavvioDimentica`, `cp/webnode.py:22`];
tabs that closed are only counted out when somebody polls. Shells may exceed their
ceiling [`SessioniEntroTetto`, `shell_sessions.py:15-17`], their
output may be dropped uncounted [`NienteInSilenzio`, lines 18-19], one that is reaped
during its command loses its audit. A crash between starting a tunnel
and writing its file leaves a tunnel nobody can stop [`TunnelFermabile`,
`docs/network-panel.md`]. A sandbox job whose runner died is executed again, so a
replacement reported as failed was made [`FallitaNonFatta`, `docs/code-sandbox.md`]; half-made workspaces count against the limit and cannot be
listed [`LimiteScartabile`]; a diff cut exactly at its limit is not called
truncated [`TaglioDetto`, `runner.py:461-463`]; a child with a session of its own
survives its command [`NienteDopo`, `runner.py:220`]. Several callers wait less
than the program they call may take (`_host_action` 90 s, shell up to 600 s;
`verify` 45 s for six checks). Errors of tools become text and are reported as
success [`FallitoSegnalato`, `tool.py:733`]; two clients with one token are one
client [`TokenDiUno`, `mcp_auth.py:15`]. The Forge writes the source before the
record, and what is approved is the record [`SoloLaSua`,
`docs/tool-skill-forge.md:18`]. The breaker of the connectors does not open when a
service is down, because they return the error as text (`manager.py:36-40`), and
opens for bad arguments; a reload sets policy, counters and connectors one by one
[`UnaConfigurazione`]; a cache key is computed before the credentials are read
[`CacheFedele`].

**People.** Telegram: the bot's name is overwritten by a loop variable, so who
calls it by name is not heard [`NomeRiconosciuto`]; mode "off" does not stop replies to guests and business chats
(`docs/channel.md`); commands of the operator are removed before the driver has
the answer (`channel.py:590`); a failed message after an image request makes the
request again; a reload makes a new `ReplyPacing`, and the cooldown is lost
(`canali.py:227-262`). IRC: a private message is answered to the bot's own nick
[`PrivatoAllAutore`]; a batch is deleted whatever the answer; errors of a dead
socket are not caught. Rooms: the mark of the debounce is set before the entry is
written; "Nessuna punizione al primo colpo" (`channel.py:288`) holds of a mute at the
second strike or later, and `channel.py:256` accepts 1. Instagram: [`UnaRisposta`]; without a webhook, a
message that comes while an answer is on its way is never seen, because the poll stops
at our own last message [`MessaggioRecuperato`]; consent may be granted by a message
written before the question arrived [`ConsensoDopoDomanda`], and cannot be withdrawn although
`instagram_intimacy.py:114-141` says so; clearing the memory during a compaction
brings the summary back, or deletes new turns [`DaZero`]; publication uses
`dream_publish_lock` under a name the context does not have (`instagram.py:920` and
`:140`), so with publication enabled its thread ends with an `AttributeError`, the page
stays "pending" and nothing is published, not even by the recovery at start
(`SocialDiary!Prende` ends there, and what the code has after the lock is not modelled). Diary: overlapping saves
may leave an older or a broken file; an image may be asked for before its page is
written [`OgniPaginaConFile`]. Persona: [`PromossaScritta`]; the journal is read and
written back without a lock.

**Node.** A review of a dream writes two files, a kill between them leaves a
revoked dream with an active insight; an active note may have lost its dream in the journal, where
it would be revoked [`AttivaRevocabile`, `docs/dreams.md` D2]. A kill between journal and state
file dreams the same memories twice (`tagliati` in `SognatoUnaVolta`). `apply_qos`
that raises the capacity wakes nobody (`NessunRisveglioPerso` says that this is the
only way to sleep beside a free slot). A streamed answer takes its slot before the
response starts; the model assumes its generator runs. `_fetch_models` is a static
method with a `self` parameter, so without `VLLM_MODELS` all metrics are empty
(`ModelliNoti` is TRUE in the runs); quantiles sum buckets that are already
cumulative [`QuantiliReali`, `backend_metrics.py:641`]; overlapping collections
inflate a rate [`TassoMaiGonfiato`]. The native route answers 200 whatever Ollama
answered, so there is no fallback [`NativoRicade`, `node/main.py:1025`]; when the log
cannot be written after an answer the model runs twice.

**Other meshes and settings.** `invalida_vista` promises what a reading in flight
undoes; sources with one label make every node "partial" [`ParzialiSempreVeri`]. A
peer whose answer was lost has executed the task, and the next executes it again.
Bottles: one's own announcement ignores the ceiling [`TettoBottiglie`], an older
bottle replaces a newer one. Settings: a request answered 400 leaves the keys
before the bad one in force and unsaved [`RifiutatoSenzaEffetto`]; values that
other modules imported by value stay as they were [`InertiMai`]; two saves may end
with one in memory and the other in the file; a crash in mid-write truncates
`.env`.

## 8. Not modelled

Within the modelled components: the building of ComfyUI graphs and the
validation of requests (pure), staging and upload of images, search and statistics
of the memory, the heartbeat's synchronisation of memory, the QoS arithmetic (any
verdict may come), signatures (they hold or not), login and the Graph API, the
text of prompts and pages, the validation of generated Python, the agent's actions
that start one program, the loop of the development dream. A second checkpoint
bridge besides the Mac is composed with the queue, not with chats: a late report
of a lapsed claim would release the reservation of a newer request, and the
documented deployment has one. The process lock that keeps a bridge single
(`single_instance.py`) is assumed.

The components without a module, with the reason for each, are in `PROJECT.json`:
measurement arithmetic, user interfaces, installer, vendored and superseded
programs keep no state that concurrent steps could break.
