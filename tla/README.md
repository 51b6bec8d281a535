# A TLA+ model of awsc

awsc is a reimplementation of the AWS command line interface in Rust. Most of it
turns arguments into requests and answers into text. What can go wrong in ways a
test hardly reaches is in the places where threads share state, where processes
share files, where one command is many requests of which some fail, where
something read earlier is used later, or where a small interpreter decides what
is asked of whom. This directory models those places in TLA+, checks them with
TLC and proves the most important results with TLAPS.

Paths below are relative to `crates/awsc/src` unless they start with `crates/`.

## Inventory

| component | state it keeps | operations and interaction | what makes it correct |
|---|---|---|---|
| s3 worker pool (`s3/pool.rs`) | job index, target, throttle flag, completed units, controller state | `run` spawns workers and a supervisor; workers claim jobs, idle above the target, wake one another; the supervisor samples and steers | each job runs once; the target stays in its band; `run` returns |
| s3 upload (`s3/transfer.rs`) | upload ids, failures, ETags, outcome counter | CreateMultipartUpload per large item, then one pool over whole objects and parts, then complete or abort | a destination is whole or untouched; every item is reported once |
| s3 download (`s3/transfer.rs`) | destination files, bytes left per item | preallocate, fetch ranges over the pool, last range closes the item | no half-written file is taken for a whole one |
| s3 copy and mv (`s3/transfer.rs`) | as upload; sources to delete | server-side copies, parts pinned to an ETag; mv deletes the source after | a source is deleted only after its whole content is at the destination |
| s3 delete batches (`s3/delete.rs`) | batch in hand, failures | up to 1000 keys per request, per-key answers | every key is deleted or reported |
| s3 commands (`s3/transfer.rs`, `s3/bucket.rs`) | what was found at the source, what failed | walk a tree or list a prefix, name the destinations, transfer, remove what moved; mb creates, rb empties and deletes | what is found arrives under its name; nothing else changes; the exit code tells |
| s3 listing, filters and sync plan (`s3/list.rs`, `s3/ls.rs`, `s3/sync.rs`, `s3/transfer.rs`) | page token, parallel walks, merge cursors, the rules of include and exclude | listing ahead of consumption; merge of two sorted listings; transfers, then deletes | the plan compares the right pairs; nothing is dropped; two syncs make the sides equal |
| s3 connection (`s3/conn.rs`, `s3/redirect.rs`, `crates/awsc-runtime/src/retry.rs`) | region and host, redirect cache, retry quota | send, follow one redirect, retry with backoff | attempts are bounded; quota is conserved |
| progress (`s3/progress.rs`) | bytes per file in flight, the rows drawn | counters moved by transport threads, taken back on retry; workers and a ticker draw and print under two locks | the bar ends at the total; no line is drawn over |
| one operation (`client.rs`, `dispatch.rs`, `crates/awsc-protocol/src/eventstream.rs`) | document, token, attempt, quota, decoder | serialise once, sign and send each attempt, follow a redirect, decode a stream in pieces | a retried call takes effect once; a truncated stream is no success |
| duplex event stream (`client.rs`, `crates/awsc-runtime/src/transport/client.rs`) | signature chain, three channels, decoder | reader, event loop, producer and HTTP threads | one chain in order; nothing lost; the call returns |
| endpoint rules (`crates/awsc-runtime/src/endpoint.rs`, `rules/`) | scope of bindings, place in the tree | parameters, conditions that bind, trees that fall through | the endpoint is the one the rules define |
| pagination (`paginate.rs`) | tokens, items taken, truncated amount | pages until exhausted or `--max-items`; resume from a token | resuming neither skips nor repeats |
| waiters (`wait.rs`) | attempts, last answer | poll, match acceptors, sleep | success only on a success acceptor; bounded |
| catalogue (`catalogue.rs`) | cached model file | fetch by any process through a temporary file | a reader sees a whole catalogue |
| credentials and token caches (`sso.rs`, `crates/awsc-runtime/src/credentials/`) | cache files, SSO token, profile chain | load, refresh, write; device-code polling; chain of role profiles | a session is kept; chains end; the right source wins |
| tunnel (`ec2instanceconnect.rs`, `websocket.rs`) | two directions of bytes | thread per connection plus a pump | every byte is delivered before close |
| logs tail (`logs_tail.rs`) | window, tokens, events seen | poll overlapping windows, print what is new | each event is printed once |
| cloudtrail validate-logs (`cloudtrail_validate.rs`) | whose digests, digest in hand, public keys, counts | find the trail; walk back along the chain of digests, twice; check each and its logs; sum up | damage is found, of this trail only |
| emr clusters (`emr.rs`, `emr_create.rs`) | the request being put together, the steps sent | create, add steps, install, change, reach a cluster | what is asked for is sent, or the line is refused |
| protocol serialisers (`crates/awsc-protocol/src/`) | the request and the answer of one call | validate, bind members to places and names, six protocols, read answers | each member is where its model says, and read back from there |
| service models (`crates/awsc-model/src/`: `bin/compile-models.rs`, `db.rs`, `model.rs`, `command_table.rs`) | strings, shapes and operations by offset | compile, write, read back by offset, name the commands | what was compiled is what is read; a cut file is refused |
| model lookup (`main.rs`, `catalogue.rs`) | a directory of models, a container, an index | find a service by name or alias, fetch the container, index it | a service that is there is found; an index is one of what is there |
| one invocation (`main.rs`, `exit.rs`) | faults so far, what was written | the order of checks, the skeleton, the call, the query, the output, the exit code | the exit code tells; output and errors go where they belong |
| wire formats (`eventstream.rs`, `websocket.rs`, `cbor.rs`) | buffer of what came | frames, headers, checksums, masks, CBOR items | what is written is read back however it is cut; damage is refused |
| options of s3 transfers (`s3/transfer.rs`) | options, headers of each request | parse the flags, put them into each request of a transfer | an object is as asked whichever way it went |
| setup commands (`emr.rs`, `datapipeline.rs`, `custom.rs`, `emrcontainers.rs`, `codedeploy.rs`) | what is there in the account | a series of create, attach, read-and-write-back calls | success means it is set up |
| bundles (`codedeploy.rs`, `gamelift.rs`, `zip.rs`) | entries, body, parts | walk a directory, compress, upload, register | what is registered can be read |
| files of other tools (`codeartifact.rs`) | npmrc, pip and pypirc, netrc | read, edit by lines, write in place | the tool finds the new token; other lines stay |
| configure (`configure/`) | the configuration file | edit by lines, write in place | what was set is read back; other settings stay |
| ecs deploy (`ecs.rs`) | revision, appspec, deployment | describe, check, register, rewrite the appspec, deploy, wait | what is deployed is what was registered |
| express monitor (`ecs_express/`) | last tree, what was printed | poll by a series of calls, combine trees, print changes | the view is the service's state; a change is printed |
| command line (`args.rs`, `main.rs`, `custom.rs`, `yaml.rs`) | words handed back, the document | split argv, bind words to flags, hand back what a flag took too much, read `--cli-input-yaml` | each word is bound, handed back or refused; the document is what its columns say |
| everything else | none beyond one call | parsing, formatting, signing | pure functions, compared with recorded cases by the repository's tests |

The hard behaviours are: interleaving of pool workers and supervisor; four
threads that wait on one another in a duplex stream; processes that refresh and
rewrite the same files, and die in between; requests whose answer is lost; many
requests of which some fail; lists that come in pieces in one order and are
needed in another; state read once and used after it changed; backtracking and
fall-through in small interpreters. `PROJECT.json` lists each at its line under
`hazards`, with the properties that cover it.

## Modules

| module | models | state and actions against the code |
|---|---|---|
| `WorkerPool` | `Pool::run`, its workers, `supervise` and `decide` | one action per access to shared state: a worker's reads of `target` and `next`, its way to the condition variable, the `fetch_add`, the wakeups; the supervisor's loop, wait, sample and notify; the caller's spawn and joins. `next`, `target`, `throttled`, `done`, `units` are the atomics of the same names, `control` the supervisor's locals |
| `JobBatch` | what `run` promises its callers | jobs to do, under way, finished, over a series of calls of one pool |
| `MultipartUpload` | `execute_uploads`, `begin_upload`, `complete_upload`, `abort_upload` | built on `JobBatch`, whose actions it takes as the pool; `failures` and `etags` are the mutexes of the code; `upload`, `stored`, `object` are S3 |
| `AtomicTransfer` | what a transfer promises | each destination changes in one step to a whole object, each item is settled once |
| `CopyMove` | `copy` with `multipart_copy`, `delete::batched` | large items one after another, then the small ones over the same pool, then the deletes; another client replaces sources |
| `Download` | `download`, `get_object` | files opened one after another, then whole objects and ranges over `JobBatch`, then the failed files removed; a file is a function from its units to the version they came from |
| `Request` | `Conn::send_watched`, `retry::RetryPolicy`, `redirect`, `SlotWatch` | the loop of each request in steps that other requests can come between; `learned` is the redirect cache, `body` and `heard` the chunks of an attempt and of its answer, `bytes` the total of the progress bar, which counts both |
| `Duplex` | `call_operation_duplex`, `pump_duplex`, `send_duplex` | four threads as actions over three channels (`wake`, `frames`, `body`); a refusal is read to its end before the call fails; the connection and the service are external |
| `ServiceCall` | `call_operation`, `call_operation_raw`, `call_operation_events`, `send_raw`, `RetryPolicy`, `eventstream::Decoder` | up to `MaxCalls` calls of one client, each serialised once (`opToken`), its attempts, the redirect, the quota, the body or the frames in pieces; what the service did is `effects` |
| `EndpointRules` | `endpoint::resolve`, `Engine::eval_rules` | the recursion as a stack `levels` of lists under trial, each with its scope; `bindings` is the child scope that conditions extend |
| `Paginate` | `paginate::run`, the resume token | page by page; several runs, each resumed from the token of the last |
| `Waiter` | `wait::run` and the acceptors | one poll and one match of the acceptors a step |
| `LogsTail` | `logs tail` and its window | pages of a window, then the next window; events arrive between calls |
| `Listing` | `deep_streaming`, `shallow`, `s3 ls` | parallel walks of the prefixes, merged; the bucket changes between pages; `ls` prints the pages as they come and exits 1 if a key matched nothing |
| `SyncPlan` | `sync::run`, `plan`, the transfers and deletes | two scans, the merge, transfers in any order, deletes; several syncs and edits, filters, a dry run |
| `Filter` | `fnmatch` and the rules of include and exclude | one comparison of the matcher a step, with its remembered star |
| `DigestWalk` | `cloudtrail_validate.rs` | the line, the lookup of the trail, then one digest a step of each of the two walks, over gaps and moves to another bucket; a digest is checked as the code checks it, by place, key and what its signature covers |
| `Tunnel` | `ec2instanceconnect` connections | the reader thread, the pump and the peer of each connection, which may close well or badly at any moment |
| `ProfileChain` | `credentials::mod` | sources tried in order; a stack of role profiles |
| `SsoSession` | `sso.rs`, `sso_login.rs`, `cache.rs`, logout | commands, logins and logouts as processes over two files, with truncation and kills as steps; role credentials the code cached itself never serve, those of other programs may |
| `Catalogue` | `catalogue::fetch` | fetchers that write one temporary name and rename it, with kills |
| `Setup` | the commands that set something up or tear it down | a script of calls for each process, answered, refused or with a lost answer, and run again |
| `ConfigFile` | `configure/writer.rs`, read back as `profile.rs` does | one line of the edit a step; two processes |
| `ToolLogin` | `codeartifact login` | two processes read, edit, truncate and fill the file of one tool |
| `Bundle` | `push`, `upload-build`, `Archive`, `upload_to_s3` | the walk one directory a step, the archive one file a step while files change, the upload in parts |
| `Monitor` | `Collector::refresh`, `Group::combine`, `compare_sets`, `changed_since`, `text_only`, `interactive` | one call of a poll a step; the service changes in between; a tree is a set of nodes |
| `Deploy` | `ecs deploy` | the calls in order, one a step, each answered, refused or lost |
| `Display` | `Progress`: `draw`, `print_line`, `clear`, the ticker | one action per lock taken, erase and line written; the terminal is rows of text |
| `CommandLine` | `args::parse`, `rebalance`, `bind`, `custom::parse` and the dispatch between them | one word of argv a step, then the words handed back, the required flags, the document |
| `YamlBlock` | `yaml.rs`: mappings, sequences, plain and block scalars, anchors, merges | one line a step; the recursion is a stack `nest` of the collections being read |
| `Transfer` | `run`, `upload`, `download`, `copy`, `remove`, `scan_local`, `scan_s3`; `mb`, `rb` | one directory of the walk, one object transferred or removed a step; `disk` and `store` are the two sides |
| `Cluster` | `emr.rs`, `emr_create.rs` | the arguments of a line in the order the code takes them, each adding to the request or refusing the line; the calls that follow |
| `Body` | `validate.rs`, `json.rs`, `query.rs`, `ec2_query.rs`, `xml.rs`, `http_binding.rs`, `cbor.rs` of `crates/awsc-protocol` | a call over a small model: its input validated and bound, what the service (external) reads, its answer bound and read |
| `Container` | `compile-models.rs`, `db.rs`, the names of commands | sections written one after another, read back by offset, a file cut short |
| `ModelLookup` | `load_model` and the layouts of a model directory | one access to a file a step, two readers, an update in between |
| `Invoke` | one run of `main.rs`: from the parsed line to the exit code | one check a step, in order; each can fail |
| `Wire` | `eventstream.rs`, `websocket.rs`, `cbor.rs`, over bytes | a message encoded, cut into pieces, damaged or not, decoded piece by piece |
| `Attributes` | `Options::parse`, the headers of every request of a transfer | one flag a step, then one request a step; S3 keeps what it is told |
| `WorkerPoolProofs`, `MultipartUploadProofs`, `DownloadProofs`, `CopyMoveProofs`, `RequestProofs`, `DuplexProofs`, `CommandProofs` | theorems | see *Proofs*. The first four also define the constants of the instance on which TLC checks the component, so a run of theirs checks the module the theorems are about |
| `MCCommands` | the small commands, composed | values of the constants, and one specification for all of them, see below. `Duplex` and `Request` get their constants from their `.cfg` alone |

The modules meet where the components do. `WorkerPool` implements `JobBatch`,
which TLC checks and TLAPS proves; `MultipartUpload`, `CopyMove`
and `Download` use `JobBatch` in the place of the pool, so they range over every schedule a pool
could produce, and the steering is not repeated in them. `MultipartUpload`
implements `AtomicTransfer`. A request of an upload or a copy is the whole of
`send_watched`, retries included: in the transfers it ends in one of four ways,
and what happens inside is the subject of `Request`. The four ways are "ok",
"refused" (the service did nothing), "lost" (the service acted, the caller
sees an error) and "hollow" (the service did nothing, and the caller sees a
success). The third is what makes a failed request different from one that
had no effect. The fourth is there because `send_checked` takes any status below
400 for a success (`s3/conn.rs:237`), a redirect that is not followed and a 200
that carries an `<Error>` included. `MultipartUpload`, `CopyMove` and `Transfer`
have all four, and what a hollow answer makes untrue is an exception of their
properties, each of which names the request it means. `Listing` and `SyncPlan`
leave the fourth out: their properties speak of a service that answers a list
request with a page and carries out what it accepts. The first three
ways end a call in `Setup`, `Bundle` and the
others; what happens inside those is the subject of `ServiceCall`, which has
answers without effect of its own.

A process runs one command, and commands share no state but files, whose sharing
is inside one module each. `MCCommands` says so: `cmd` is chosen once among the
machines of the small commands, each with small constants, and the variables of
the others are parked at a constant. Its properties collect what the machines
promise: `SuccessIsTrue` (`Waiter`, `Setup`, `ServiceCall`, `Bundle`, `Deploy`,
`Transfer`, `Invoke`), `DecidesAsSpecified` (`ProfileChain`, `Filter`,
`EndpointRules`, `Monitor`, `Display`, `CommandLine`, `YamlBlock`, `Cluster`,
`Body`, `Container`, `Wire`, `Attributes`), `FilesKept` (`SsoSession`,
`Catalogue`, `ConfigFile`, `ToolLogin`, `ModelLookup`) and `CommandsAnswer`,
which says that those that have an end come to it and stay
there; the conjuncts stay with
their modules, where each says what it is about.

Operators whose comment begins "A mutant" are not part of a specification. Each
is a variant of the action below it with a plausible bug, and is used to show
that a property can tell the two apart.

## Runs

| run | question | result |
|---|---|---|
| `worker_pool` | Does each job run once, does the target stay in its band, does the pool implement the abstract batch, does every call return, whatever the interleaving? | holds |
| `multipart_upload` | Are objects whole, does a part never outlive its upload, is the whole an atomic transfer (hollow answers apart), is every item reported? | holds |
| `copy_move` | Is a destination from one version of the source, is a source removed only after a copy, does the exit code tell the truth (hollow answers apart), is every item reported? | holds |
| `copy_truncates` | Does a copy reported as done hold the whole of some version of its source? | violated, finding 1 |
| `move_uncopied` | Is there a copy of every source a move has removed? | violated, finding 3 |
| `download` | Has a reported file no hole its objects do not explain, does a failed one leave nothing, is nothing written after a report, is every item reported? | holds |
| `request` | Is the progress total exact, answers included, are attempts bounded, is a redirect paid for once, does every request end? | holds |
| `duplex` | Does the service see one chain of signatures, is no event lost on success, is the end of input announced, does the call return (unless a refusal's document never ends)? | holds |
| `duplex_silent` | Does joining the producer end it, when the input may fall silent? | violated, finding 2 |
| `commands` | For each of the machines above: does it do what it promises, and does it answer? | holds |
| `waiter_retry` | Is an error that an acceptor claims for retry retried? | violated, finding 4 |
| `sync_excludes` | Does `--delete` keep what the filters exclude? | violated, finding 5 |

The two last run in `MCCommands` with one machine alone (`WaitSpec`,
`SyncAlone`).

`CHECK_DEADLOCK FALSE` is set everywhere because each program ends: the pool
after its last call, a command after its report, a call after its return. That
it does end, and not somewhere else, is what the liveness property of each
passing run says.

### Bounds

- **worker_pool**: three workers with a ceiling of two, none and three jobs in
  three successive calls. Two calls are needed for what a call inherits from the
  one before (target, units, throttle flag); the second of them has more jobs
  than the first, so the target is below its ceiling, and the empty one takes the
  early return. Three workers are the fewest for which one is parked, one on its
  way there and one at work. Rates are 0, 1 and 2: a sample is worse, equal or
  better than the best. `Patience` is 1 here; the proofs hold for any.
- **multipart_upload**: a small object, one of two parts and one of three. Two
  multipart items let a failure of one fall between the parts of the other, and
  three parts let one succeed, one fail and one be skipped.
- **copy_move**: two large objects of two parts and a small one; each source is
  replaced at most once (`MaxVersions`), by a shorter or a longer one; two keys
  to a batch (`MaxKeys`, 1000 in the code), so three moved objects need two.
- **download**: a small object, one of two ranges of which the last is short,
  one of two whole ranges; each replaced at most once by an object that ends in
  the first range, or by a longer one. Ranges are two units, so that an answer
  can be shorter than its range.
- **request**: two requests, an upload and a download (`Gets`), with two chunks
  each and documents of one chunk (`Document`), three attempts as is the
  default, and the costs of the code (5 and 10) against a quota of 15, so that
  attempts end some requests and the quota others. With the 500 of the code the
  quota never ends one; the instance uses a small one to exercise the guard.
- **duplex**: two lines (`MaxLines`), two events (`MaxEvents`) of two pieces
  each, a body of one chunk (`BodyQueue`, 16 in the code): the body fills, the
  chain has three links, and a piece can end in the middle of a frame.
- **commands**, by machine:
  - `Paginate`: all lists of up to three pages of up to three items, limits of 1,
    2 and none, three runs (`MaxRuns`): a limit cuts a page in the middle, and a
    resumed run is cut again.
  - `Waiter`: one that waits for something to be up, one for something to be
    gone and one that matches a single value; eleven answers, three attempts.
  - `LogsTail`: five events of which two share a millisecond, pages of two, late
    events.
  - `Listing`: seven keys under three prefixes, pages of two, two walks at a
    time, two changes of the bucket while it is listed.
  - `SyncPlan`: two keys, three contents of which two have one size and one is
    torn, two syncs with an edit, times up to four; one with a filter, one a dry
    run.
  - `DigestWalk`: four hours, a trail that is off in one and may have caught up
    with it, two buckets, a digest of another trail; all ways to lose digests and
    to alter up to two, seven other damages, four of logs; twelve lines; a trail
    that an organization shares; keys that were not published.
  - `Tunnel`: one connection with two chunks each way. More connections share
    nothing but the limit.
  - `ProfileChain`: three profiles, thirteen kinds of each of the first two and three
    of the last: chains, loops and chains into loops.
  - `SsoSession`: casts of two processes (two commands, a command and a logout, a
    login and a command), three tokens issued, one mishap; at the start a role file
    that is stale or one, of another program, that serves.
  - `Catalogue`: three fetchers and one crash.
  - `Setup`: six casts of two processes, two roles, one run again.
  - `ConfigFile`: thirteen files of two sections and an empty one, five updates, two processes.
  - `Filter`: patterns of up to two elements and those with two stars around two
    elements, classes, eight keys under a root, lists of one and of three rules.
  - `ToolLogin`: npm, swift and twine, two processes with different
    repositories, files of up to three lines.
  - `Bundle`: three files of which one is in a nested directory and one in a
    hidden one, lengths around a width of 8, three entries, parts of 6, one edit.
  - `ServiceCall`: two calls of a client, three attempts, a quota of 20 against
    costs of 5 and 10, five ways to call, streams of up to three frames with a
    damaged prelude, a damaged message and an exception.
  - `EndpointRules`: all 256 rulesets of a three-level shape with four kinds of
    conditions, one written like a global service's, one that lacks a
    parameter; four requests.
  - `Monitor`: three revisions, three deployments, two changes, three polls: a
    deployment that goes back is printed again.
  - `Deploy`: six targets, four appspecs, one repetition of a lost call.
  - `Display`: three jobs of two files, one row for files, two ticks.
  - `CommandLine`: command lines of up to six words, with and without a document.
  - `YamlBlock`: documents of up to four lines in three columns.
  - `Transfer`: a tree with an unreadable file and directory, a FIFO and a link to
    itself or to nowhere, and one without them and with a link to another
    directory; one hollow answer a command (`MaxHollow`), those to list and HEAD
    requests apart; a bucket of six keys with folder
    markers and a doubled slash; about a hundred commands, some followed by one
    that fetches back or removes the bucket. Any of the requests may fail.
  - `Cluster`: 357 sessions over the commands of clusters, two bootstrap actions
    (`MaxBoots`, 16 in the code).
  - `Body`: about 380 calls over six models of six protocols, lists and maps of
    up to two entries.
  - `Container`: four catalogues, cut at every length up to 70.
  - `ModelLookup`: two commands at once, seven layouts, three names, one update.
  - `Invoke`: six kinds of operation, five skeleton modes, three error formats,
    two events.
  - `Wire`: 115 dialogs, pieces of one byte, of seven and of all, a wrong or first
    missing byte at seven places.
  - `Attributes`: 28 lines, three ways, sizes on both sides of the threshold, an
    object of 200 GiB for the parts' growth, one under a customer's key. One part
    stands for all of an object.

`commands` takes about four minutes.

### Fairness

- Threads run: weak fairness of each thread of the pool and of the duplex
  stream, and of each request. They are operating-system threads, or tasks of a
  multi-threaded runtime.
- Requests end: the transport gives up a connection that is idle for longer than
  the read timeout, in `await_response` and for every frame of an answer. This is
  part of the fairness of a worker in `WorkerPool`, of `Command` in `CopyMove`
  and `Download` and `Next` in `MultipartUpload`, whose single actors cannot do anything but
  go on, of `Step(r)` in `Request`, and of the steps of the commands. There are two
  exceptions. The error document of an event stream is read by
  `send_to_writer` without a limit: that it arrives is assumed in `ServiceCall`.
  That of a refused duplex call is read by `send_duplex` without a limit too
  (`crates/awsc-runtime/src/transport/client.rs:613-614`): `HttpCollect` has no
  fairness, and `CallReturns` leaves out by name a call that waits there for
  ever.
- The threads that draw the progress, and the ticker, run; the ticks are bounded
  by `MaxTicks`.
- Sleeps end, a device code expires, and the monitor has a timeout: part of the
  fairness of `SsoSession` and `Monitor`.
- The condition variable is given no fairness of its own. `PoolReturns` needs
  the backstop timeout of the parked worker: without it a wakeup that falls
  between the read of the target and the wait is lost for good, and the mutant
  `NoBackstop` shows this.
- Nothing is assumed of the service: it may throttle for ever, never answer, or
  end a stream at any moment. In `duplex` the input is assumed to end
  (`WF_vars(Reader)`); `duplex_silent` drops that for an input such as a
  terminal, and keeps every other assumption. In `Tunnel` the peer reads what it
  was sent, unless it closes.

## Findings

Each is a run that TLC finds violated by what the code does, against a line of
the repository.

1. **Truncated copies** (`s3/transfer.rs:1200`). The parts of a copy are cut by
   the size the listing gave and pinned to the ETag of a later HEAD. If the source
   grows in between, the copy is short and reported as done, and `mv` removes the
   source. `NeverStitched` still holds: the parts are of one version.
2. **A stream that does not end** (`crates/awsc-runtime/src/transport/client.rs:638`).
   When the service ends the response while the input is silent, `send_duplex`
   joins the producer, the producer waits for the event loop's sender, and the
   event loop waits for the message that follows the join. Nothing moves until the
   input does.
3. **A move without a copy** (`s3/conn.rs:237`, against the doc at 211).
   `send_checked` fails at 400 and above and not, as its doc says, on "any non-2xx".
   A copy that is answered by a redirect nobody follows counts as done, and `mv`
   removes the source, of which there is no copy.
4. **An error claimed for retry** (`wait.rs:89`, against the doc at 15-17). It ends
   the wait.
5. **Excluded and deleted** (`s3/sync.rs:96`, against `docs/divergences.md:1559-1560`).
   Filters apply to the source alone, so `--delete` removes what they exclude from
   the destination.

### Observed divergences without a run of their own

Met while modelling; the models follow the code, and their properties say what
remains true.

- *Pagination*: a run that is cut in the page it resumed from prints a token that
  names the first page (`paginate.rs:83`, against the comment at 97).
- *Pool*: a halved target may still lie far above `min(max, jobs)`, so a throttle
  need not reduce the workers (`s3/pool.rs:124`).
- *Uploads*: a CreateMultipartUpload that fails leaves earlier ones open, and a
  CompleteMultipartUpload that fails leaves its own (`s3/transfer.rs:1546`), as does
  `upload_to_s3` of a bundle.
- *Answers below 400*: what finding 3 is for a move goes for every request of a
  transfer, and for a 200 that carries an `<Error>`, as S3 sends it for copies and
  completions. A hollow upload counts as done; a HEAD without an ETag pins nothing,
  and the parts are copied without a condition; a list request answered so ends
  the listing at that page, as if it were the last (`s3/list.rs:79-92`, 103-114).
  A download to an outfile writes the body of a redirect
  to the file and reports success (`main.rs:531`). `call_operation_events`
  follows no redirect at all.
- *Progress*: the watcher of a request counts the bytes of its answer as well
  (`crates/awsc-runtime/src/transport/client.rs:509-511`), so an upload that is
  refused with a document moves the bar past its size. `ProgressExact` says by how
  much: only by documents.
- *Duplex*: "The read timeout applies per response frame"
  (`crates/awsc-runtime/src/transport/client.rs:583`), but not to the document of
  a refusal (613-614), which may hold the call for ever.
- *Downloads*: all large files are created before the first range is fetched; if
  one cannot be created, the earlier ones stay, full of zeroes
  (`s3/transfer.rs:1909`).
- *Transfers*: an upload of a file that cannot be read, or of a FIFO, panics at
  `items[0]` (`s3/transfer.rs:1486`). `rm --recursive` passes over folder markers,
  so `rb --force` then fails to delete the bucket. Slashes at the start of a
  relative key are dropped (`s3/transfer.rs:1366`), so `p/a` and `p//a` share a
  destination, and a move of both keeps one. A single `rm` without a key sends
  `DELETE /`, which removes an empty bucket, and a copy to a bucket without a key
  sends `PUT /`. `cp s3://b/a s3://c/dir/` stores an object called `dir/`. Without
  a key, `cp s3://b file` writes the listing to the file. `cp - s3://... --dryrun`
  uploads. A move onto a prefix inside its own source may remove what it copied.
  A loop of links is uploaded until the limit of the system, and a link to
  nowhere is passed over without a warning.
- *Sync*: `scan_s3` keeps the order of full keys while local files come in
  another; where the two differ `SyncConverges` does not hold (it is checked,
  and proved, with one order). Deletes come after the transfers, not interleaved as
  `s3/transfer.rs:944-945` says.
- *Filters*: a `*` of the pattern that meets a literal `*` in the path is taken
  for that character (`s3/transfer.rs:614`); `FilterAgrees` claims nothing of a
  path with a `*` under a rule whose pattern has one.
- *Catalogue*: two processes share `models.bin.partial`, so one can rename what the
  other is writing, against `catalogue.rs:110-112`; what is installed is whole
  unless that happened, which is what `CatalogueWhole` says; if it did, nothing is
  claimed but whose half-written file it is.
- *SSO*: role credentials are cached with the compact form of their expiry
  (`sso.rs:354`), which the reader takes for no date (`sso.rs:377-381`,
  `crates/awsc-runtime/src/credentials/cache.rs:42`), so no command ever uses what
  one of its own kind cached. A command in flight may write a role file after a
  logout swept it (`sso_login.rs:465-466`); the second of two refreshers may fail as
  expired, and a reader during a truncation finds the file unreadable. After a
  kill, a lost answer, a failed write or two writers at once nothing is claimed of
  the token, nor of a logout that others overlapped.
- *Tunnel*: the listener keeps the stream open after it printed that it closes;
  what a client has still to send when the far end closes is not delivered.
- *Monitor*: a poll without revisions replaces the last tree by one of the
  cluster and the service alone, so the view blinks and text mode prints all again
  (`ecs_express/collector.rs:13-15` says otherwise), so that what is printed is the
  service's state is claimed of managed resources only; a resource that occurs twice
  with different states is printed at each poll; the screen leaves signals on, so
  Ctrl-C leaves the terminal raw; only the first call of a poll takes an inactive
  service for the end, and the screen does not end there.
- *Configure*: an indented sub-setting named like a key is rewritten as that key,
  a remark inside a nested block ends it so that a later sub-setting wins, and
  orphaned sub-settings come back (against `configure/writer.rs:3-7`);
  `configure get s3.x` drops the second part; the file is written in place, so two
  concurrent `set` lose a setting, and a kill empties the file. Nothing is claimed of
  those files and those pairs.
- *Setup*: a role that was created and not attached is taken for finished at the
  next run (`emr.rs:373-375`), which then reports success: of such a role
  `SetupTells` says only that it is there and which run left it so; two overlapping `update-role-trust-policy` lose a statement.
- *Logins*: the marker of an entry of netrc anywhere in the file keeps it from
  being replaced or appended, and success is reported (`codeartifact.rs:346-361`);
  an unreadable file is taken for an empty one (507-509, against 320-321); two
  overlapping logins lose one entry, and a kill empties the file. `LoginKept` leaves
  out the first three (`blind`, `collided`).
- *Command line*: a boolean
  flag that took exactly one word hands none back (`args.rs:394`, against the doc at
  675-676), so `--force out.txt` is refused for a missing outfile, or the word is
  dropped; positionals a modelled command does not know are ignored,
  against `args.rs:235-236`. `LineMeans` claims nothing of lines that leave such a
  word over. A scalar flag repeated keeps the first value when the
  first occurrence took several words; a required boolean given as `--no-x` is
  reported missing; `--region --debug` takes `--debug` for the region; words handed
  back come before later ones, not in the order of argv; a scalar flag of a
  hand-written command swallows every word that follows.
- *YAML*: `- b: 2` in the column of a mapping's keys is a key called "- b"; an
  anchor after `key:` followed by a sequence in the same column leaves null; an
  alias or a tag inside brackets is text; `- &a x: 1` makes a key "&a x".
- *Deploy*: an empty list of services passes the check, an appspec without
  properties is found only after the registration, and a deployment repeated
  after a lost answer is refused.
- *Sync*, too: an object of any size is copied with one CopyObject.
- *Validate-logs*: with `--s3-bucket` the trail is not looked up, so the digests
  of an organization's trail, or of one with a prefix that the line does not
  repeat, are not found: "No digests found" and exit code 0
  (`cloudtrail_validate.rs:945-946`). A trail whose name continues that of
  another with `_` and the region passes for it (`cloudtrail_validate.rs:213`). A
  bucket the trail has left is walked only as far as a chain leads into it, and
  the second walk starts over in the first bucket.
- *Clusters*: the limit of bootstrap actions counts that of EMRFS, says its
  comment, but it is added after the check (`emr_create.rs:755`), and the limit is
  claimed only of clusters without it;
  `--configurations` with `--ami-version`, and `--instance-type` with
  `--instance-fleets`, are ignored; configurations given as an object are replaced
  by those of `--emrfs`; a zero size of a volume is dropped while a zero
  concurrency is sent; `ssh` connects to an empty name if the second description
  lacks one.
- *Protocols*: errors of EC2 nest as `<Errors><Error>`, which `xml.rs:541-551` does
  not look for, so each is "Unknown"; a payload that is a structure or a string is
  not bound on reading; attributes of an XML answer are lost; of a flattened map
  only the first entry is read; a union goes to a query service as JSON text;
  `ec2_query.rs:6-7` says that awsQuery sends `Name=` for an empty list, which
  `query.rs` does not; a fractional timestamp of a JSON answer is printed as it
  is, against `json.rs:181-185`; a JSON answer that does not parse is taken for an
  empty one; tokens are filled in after the validation. The comments of `Body` name
  what its properties follow of these and what they leave open.
- *Invocations*: a missing region exits with 253, not 254 as `exit.rs:9-16` says, and
  no property of `Invoke` depends on which; a
  query that cannot be evaluated is found only after the operation took effect
  (`main.rs:645-651`); credentials that fail leave no error record.
- *Model lookup*: a mistyped service, in a directory that has only the container,
  leaves an empty index, and if the container is taken away the directory counts
  as populated and nothing is fetched (`main.rs:265-268`, 894, 1005-1007).
- *Wire formats*: an event without its payload is decoded as an empty one;
  headers of a kind the format lacks are dropped; bytes after a CBOR document are
  ignored; a blob given as plain text is sent empty.
- *Options of transfers*: the parts of an upload carry no customer's key
  (`s3/transfer.rs:1672-1695`), so S3 refuses them, although
  `docs/divergences.md:1840-1858` lists `--sse-c` as done; without
  `--sse-c-key` the flag is ignored and the object is stored without encryption;
  nothing is claimed of either;
  the HEAD of a copy's source is sent the destination's key. A copy in one request
  ignores attributes unless told to replace, one in parts applies them. A key
  without a dot is all extension, so `html` is a web page.
- *Bundles*: the build id of `gamelift upload-build` stays when the upload fails.
- *Calls*: `--cli-read-timeout 0` makes every wait time out at once
  (`crates/awsc-runtime/src/transport/client.rs:83-85`), although `client.rs:531-533`
  says it disables it; `last_acquired` survives a failed call, so the next call
  that never retried gives back 5 or 10 and not 1
  (`crates/awsc-runtime/src/retry.rs:133-137`); credentials are resolved, perhaps
  over the network, before the validation that "runs before any network work".

## Proofs

A theorem holds for every value of the constants that satisfies the named
assumption of the component's module; TLC evaluates each of these on its
instance. They say what the code guarantees and no more:

| assumption | says |
|---|---|
| `PoolAssumption` | the pool has a worker and starts within its maximum; growth, patience and the floor are positive; batches are bounded by `MaxJobs` |
| `UploadAssumption` | there is a file; a file has a number of parts, none if it is small |
| `DownloadAssumption` | there is an object; the threshold and the size of a range are positive; objects are replaced by any sizes, at most `MaxVersions - 1` times |
| `CopyAssumption` | a large object has a part; a delete batch holds a key; sources are replaced as in a download |
| `RequestAssumption` | counts, sizes, attempts, quota and costs are natural numbers |
| `DuplexAssumption` | lines and events are counted, the body holds a chunk |
| `BundleAssumption` | lengths are natural numbers; widths, headers and parts are positive |
| `TailConstants` | finitely many events, dated after the epoch; a page holds one |
| `PageConstants` | a list has a page; pages and limits are natural numbers |
| `ListConstants` | a page and a chunk of walks hold one; no sub-prefix has the mark of an undivided walk, and the keys of one sub-prefix are not interrupted by those of another, as those of a common prefix never are |
| `SyncConstants` | S3 lists the names in their own order, as it does unless a key has a doubled slash; a file has a time and one of finitely many contents; a second has a tick |
| attempts of a call | positive; `AWS_MAX_ATTEMPTS=0` does as 1 does. Forms of calls, streams, quota and prices are arbitrary |
| `SsoConstants` | each process is a command, a login or a logout; a token has been issued |
| `TunnelConstants` | finitely many connections; the limit is a number; at most 100 chunks to a connection, as the frames that are not data are numbered from 101 on. The number of chunks is a bound of the model, not of the code |

Few of the safety properties that the runs check of these components are
inductive: they speak of what is finished, and not of the jobs, messages or bytes
still under way that decide it. The inductive invariants add
those. Each was checked by TLC on the instance of the run before it was proved;
for uploads, downloads and copies, adding `INVARIANT Inv` to the `.cfg` repeats
that.

`WorkerPoolProofs`:

- `TypeCorrect`: `Spec => []TypeOK`. The work is in `decide`, whose target must
  stay between one and the maximum through growth, shrinking and halving
  (`GrownBounds`, `DecideBounds`).
- `JobsRunOnce`: `Spec => []EachJobOnce`. The property says that a job never runs
  twice and that all have run at the join. The invariant adds, for a call in
  progress: only spawned workers are anywhere (`OnlySpawned`), a claimed index is
  below `next` (`Claimed`), two workers never hold the same one (`Apart`), an
  index below `next` has run or is in somebody's hands (`Counted`), a worker
  leaves only when the index has passed the last job (`Drained`, `AllLeft`), and
  the supervisor runs only within its call (`SupervisorInCall`).
- `SteeringInBand`: `Spec => SteeringStaysInBand`, from the bounds of a decision
  and an invariant that the floor is the baseline until the service throttles.
- `PoolImplementsBatch`: `Spec => ImplementsBatch`. Initial states map to initial
  states, and each action to an action of `JobBatch` or a stutter: the claim is
  `Take`, the end of a job `Complete`, the join `ReturnCall`, and all of the
  steering stutters. With it the next three modules, which take `JobBatch` for
  the pool, speak of the pool as it is.

`MultipartUploadProofs`: `TypeCorrect`, `UploadsAreWhole` (`ObjectsAreWhole`),
`PartsEndFirst` (`NoPartOutlivesUpload`) and `UploadIsAtomic`, the refinement of
`AtomicTransfer`, which itself reports an item as done without its object when the
request that decides it was answered hollowly, and only then. `PoolInv` says in
which phase the pool runs and that its three sets divide the jobs; `JobInv` what a
job that ran has left: a report of a small object, and for a part its ETag unless
its item failed; a job that is skipped is a part of an item that failed. `ItemInv`
says that the upload of an item is open until it is settled, that nothing is at its
destination before its report, and that the object of one that failed was left
alone. The refinement is proved step by step: completing an upload and storing a
small object are the steps of the abstract transfer, a report is its report, and the
rest leaves destinations and reports as they were.

`DownloadProofs`: `TypeCorrect`, `FilesHaveNoHoles` (`NoHoleUnlessShrunk`),
`FailedFilesAreRemoved` (`FailedLeavesNothing`) and `ReportComesLast`
(`NoWriteAfterReport`). `JobInv` says that a range that ran left no unit of its
own unwritten but those behind the end of a version of the object, or its item
has failed; `LargeInv` that a file has the listed length from its opening until it
is removed, which happens only when a failed item is settled. `RangesCover` shows
that the ranges of an item, cut by rounding division, contain each of its units:
so a file whose ranges all ran, and whose item has not failed, has no hole.

`CopyMoveProofs`: `TypeCorrect`, `DestinationsAreOneVersion` (`NeverStitched`),
`MovesLoseNothing` (`RemovedWasCopied`) and `ExitIsTruthful` (`ExitTellsTruth`).
Each has the exception its property names, an answer below 400 without effect to the
HEAD, to the request that decides the copy, or to that which deletes the source;
finding 3 is what the second one hides. `InHandInv` is about the large item in hand,
whose stored parts all come from the pinned version; `ItemInv` about those before
and after it; `DeleteInv` says that a key to delete is in a batch still to be sent,
was reported as not deleted, or is gone. That the batches of `MaxKeys` contain every
moved key, for any number of them, is `BatchesCover`.

`RequestProofs`: `TypeCorrect` (no counter or quota goes below zero),
`AttemptsAreBounded`, `LateOnesAreNotRedirected` and `ProgressIsExact`. One
invariant serves the first three: it relates, for a request at each place of the
loop, the attempts sent to the number of the attempt and the redirect followed, and
a region learned to the region an attempt went to. The progress total is the number
of the chunks, sent and received, counted by the attempts under way and by the last
ones of the requests that ended, so it passes the size of what is transferred by
documents only. It is told as a set of pairs, whose size `FiniteSetTheorems` can
follow through a chunk added or an attempt taken back, where a sum over the requests
would need an induction.

`DuplexProofs`: `TypeCorrect`, `ServiceSeesOneChain` (`ChainIntact`),
`NothingIsLost` (`NothingLost`) and `EndIsAlwaysAnnounced` (`EndIsAnnounced`), for
every order of the four threads, the connection and the service. `WakeInv` is
about the one channel that three threads write: it keeps the order of each
sender. `CountInv` accounts for the pieces of the response: sent is unread, in
the channel, kept by the decoder, or handed on. `ChainInv` takes the frames on
their way from the event loop to the service as one sequence, what the service
has, the body, the frame in the producer's hand and the channel, which stays a
chain of signatures with nothing after the frame that ends it, for as long as
nothing may be dropped; after that the service sees no more.

`CommandProofs`, about ten of the machines of `commands`:

- `ArchivesReadable` and `BundleTypeCorrect`. An archive keeps lengths in `Width`
  values and cuts that of a compressed content without a look. `BundleInv` says
  that entries lie one after another in the body, that each is recorded as it is
  but for the cut, and that nothing is sent before the check of the whole length
  in `finish`. As each content lies within the body, a body below the width leaves
  no length that the cut could have changed.
- `CatalogueStaysWhole`: `CatalogueWhole`, for any number of fetchers and crashes.
  `FetchInv` says of the temporary and of the installed file who truncated it,
  whether he is still to write it and under which name he has it open, and that a
  process that has the file of another in hand has shared it.
- `EventsPrintedOnce`: `TailOnce`, for any events, late ones included, and pages of
  any length. Scans overlap by a millisecond. `TailInv` says that the ids kept are
  of the millisecond the scan has come to, and that what was printed is among them
  or of an earlier one; that an answer lies at or ahead of it. `NewestIsLast` needs
  that a finite set has a last element, which `ExtremeIsThere` proves from the
  size of what lies before.
- `CallsTakeEffectOnce`: `EffectOnce`, `SentAtMost` and `FileWhole` of
  `ServiceCall`, however many answers are lost and requests repeated. That a success
  is of a request that took effect, and that its file is whole, leaves out answers
  below 400 that did nothing, which the code takes for a success. `TokenInv`
  says that the service knows tokens of calls that were begun and no other, and
  that of the call in hand just if it took effect; `AnswerInv` that an answer of
  the service is of a request that took effect; `SentInv` relates the requests
  sent to the attempt and the redirect.
- `EventsHandedOnce`: an event stream is handed on once and in order, nothing is
  made of a damaged frame and a success has met no exception. It is told without
  `SelectSeq`: the numbers of the frames handed on ascend and are those of the
  events among the frames taken (`HandedExactly`). The other two conjuncts of
  `StreamExact`, on what has arrived and on what a prelude may say, stay with TLC.
- `SessionIsKept`: `SessionKept` of `SsoSession`, for any number of commands,
  logins and logouts that share the cached token: until a `mishap` (a kill, a lost
  answer, a failed write, two writers at once) the token is kept, and a logout that
  nobody overlapped (`crowded`) leaves nothing. After those nothing is claimed; that
  the user is never locked out is not. `FileInv` says that without a
  mishap one process at a time has the file open, and that it is torn just while
  one has; `RefreshInv` that a process between a refresh and its write has the
  refresh token in force, that nobody else has it, and that the one in the file is
  outdated only while a newer one is on its way; `LogoutInv` that a logout nobody
  overlapped has the files to itself. The proof found that `crowded`, a history
  variable, was forgotten when a second process swept: with two processes that
  makes no difference, with more it did. It now keeps what it has seen.
- `TunnelLosesNothing`: `LastReplyDelivered` of `Tunnel`, for any number of
  connections, whichever side closes. In `UpInv` the chunks sent are accounted for by one number `u`: up
  to it they have been received or are under way, in order (`Carries`); those after
  it are in the channel and then before the reader (`Linked`). The channel is empty
  and the reader is done when the tunnel closes its half, so `u` is then all there
  was. `DownInv` is about the replies: those delivered are the first of those made,
  the frames coming down carry the others (`Owed`), and a close comes last, from a
  peer that has received everything.
- `ListIsResumed`: `ResumeExact` of `Paginate`, for any list, limits and number of
  runs. `Below` says of a sequence that it is what lies up to a place of the list:
  items, in order, every one. In `PageInv` what was printed goes up to the token of
  the next run, and what a run has printed and collected up to the page in hand;
  `current` names that page, but is 1 on the first page of a run: when a resumed
  run is cut there, its token names the wrong page, which is the case `rewound`
  sets apart.
- `ListingIsComplete`: `ListedInOrder` of `Listing`, for any keys, sub-prefixes, pages,
  walks at a time and changes of the bucket. `ListInv` adds to it what is still under
  way. `WalksFind`: a walk has found every key that was there all along and lies
  before its cursor. `NoneIsLost`: such a key is given, held aside, found, or still to
  come in a walk, a chunk or a later page, unless a walk failed. `ChunksInOrder`:
  what the caller has lies before everything still to come, and the chunk in hand
  before the chunks not begun, which is where it matters that sub-prefixes are not
  interrupted. `LevelShown` and `LsAnswers` say the same of `ls` without `--recursive`
  and of its exit code. That `Sorted` sorts rests on a lemma that the rank of a key
  in a finite set is a bijection. The proof found an error of the model: a page that
  was emptied by a deletion was never the last, and the listing hung. It is now the
  last, and `CommandsAnswer` requires that a listing ends while the bucket changes.
- `SyncIsComplete`: `SyncConverges` of `SyncPlan`, for any names, contents, options,
  runs and edits, whatever order the transfers end in. In `SyncInv`, `Merged` says of
  each name what is left to merge of it: one both sides have is in both listings or in
  neither, and one that is in neither is planned or was found up to date. `Executed`
  says the same of the transfers and deletes until the end; there everything written
  is at least as new as the second of the scan (`WholeSeconds`: rounding keeps the
  order of times), and `Steady` is what remains true until the next run compares it.
  It is assumed that both listings come in one order, which is where the merge would
  go wrong. The proof found that `Quiet` compared the source with what was scanned:
  a file that is edited, sent and edited back within one tick passed for one nobody
  had touched. `Quiet` now counts the edits.

Only model-checked:

- liveness, fairness and ENABLED, which are out of the prover's reach: `PoolReturns`,
  `EveryItemReported`, `EveryRequestEnds`, `CallReturns`, `CommandsAnswer`;
- the properties of `commands` but for `ResumeExact`, `TailOnce`, `LastReplyDelivered`,
  `ListedInOrder` and `SyncConverges`, whose modules `MCCommands` extends. The
  others are stated in `MCCommands` over several machines at once, and `Monitor`, `Transfer`, `Cluster`,
  `Wire` and `YamlBlock`, which it instantiates, use recursive operators, so no
  theorem can name them; the theorems of `CommandProofs` state the machines'
  own conjuncts: those of `FilesKept` about the token and the catalogue, and of
  `SuccessIsTrue` about calls and archives;
- of the machines' own conjuncts, those that compare with what a fold or a
  recursive function over the input computes (`DecidesAsSpecified` runs reference
  definitions, `LoginKept`, `LineMeans` and `ContainerReads` filter or join lists):
  they need an induction over data, which the provers cannot be given. `WalkFindsDamage`
  of `DigestWalk` is not proved: which digests a walk comes to depends on the
  whole of it, through the links of two buckets; `WaitTells` of `Waiter` rests on the first acceptor that `SelectSeq` finds.

## Abstractions

- Atomics declared `Relaxed` are modelled as sequentially consistent. The code
  relies on them only one at a time, or across a thread join.
- Contents are sets of parts; an ETag is a version number; a signature is the
  number of frames signed before it.
- `Request`: an attempt stops counting when it ends. Whether the HTTP library
  goes on reading the body of a request it has given up is not decided by this
  repository. The rows
  of single files follow the same rule as the total and are left out.
- `MultipartUpload`, `CopyMove`: whether a hollow answer is a redirect or a 200 with
  an error is left out, as the code makes no difference; one to CreateMultipartUpload
  holds no upload id, one to a part no ETag.
- The retry quota belongs to a policy, and `send_watched` makes one per request
  (`s3/conn.rs:99`), although `retry.rs:9` calls it the client's. `Request` follows
  the code: with three attempts the quota of 500 never limits anything. In
  `ServiceCall` a client has one policy, and its calls share it.
- `MultipartUpload`, `Download`: checksums, metadata and progress are left out.
  `mv` between a local path and S3 is the same as `cp` but for the word printed:
  no code removes the source, so there is nothing to model.
- `Download`: that a file assembled while its object is replaced may hold ranges
  of two versions follows from requests that are not conditional, and no property
  denies it; `NoHoleUnlessShrunk` says what a reported file still is.
- `Duplex`: frame encoding is left out; the decoder is known by whether it holds
  half an event.
- `ServiceCall`: a frame is its length with a damage; a silence is a possible
  outcome of every wait; which errors are retried is in the kind of the answer.
- `EndpointRules`: values are strings with the fields they have; functions over
  texts are left out.
- `Setup`: calls are records of what they need and make; the keys of a user are one.
- `ConfigFile`: a line is a header, an option or a remark, and a remark holds no
  separator. `ToolLogin`: a line is an entry, a mention of one, or another.
- `Filter`: a class is the set of its characters; an unterminated bracket is a
  character.
- `Bundle`: contents are lengths; a directory that can be read is read to its end;
  a cycle of links ends by the limit of the system.
- `Monitor`: a tree is a set of nodes in which a resource occurs once, and the
  order in which it is drawn is left out.
- `Deploy`: an appspec is what it names; texts of task definitions are values.
- `Display`: a row is a file's name or the bar; widths and rates are left out.
- `CommandLine`: words are flags, values or a positional; the value of a flag is
  the words it keeps. `YamlBlock`: a line is its column, dashes, key and what
  follows the key; quotes, brackets, tags and the meaning of scalars are left out.
- `Transfer`: names are sequences of what lies between slashes; the files are
  small, and a request ends in one of the four ways but "lost". A filter is a set of excluded names.
- `DigestWalk`: bytes and dates are numbers of hours, RSA is what a signature
  covers; the region a bucket lies in and the look of the output are left out.
- `Cluster`: configuration documents are values; the shorthand syntax is left out.
- `Body`: escapes, percent and base64 coding, the calendar, Content-MD5, the order
  of members and the namespace of a payload are left out.
- `Container`: a string is a sequence of numbers, and what a JSON text says is a
  constant.
- `Wire`: CRC-32 is another checksum; timestamps and UUIDs of headers are text;
  short floats and the TLS handshake are left out.
- `Attributes`: metadata is a set of pairs, a grant a triple; S3 is what its
  documentation says of copies and customers' keys.
- `SsoSession`, `Catalogue`, `ToolLogin`, `ConfigFile`: a write in place is a
  truncation and one write, between which a reader or a kill can come.

## Not modelled

The components with status `not_modelled` in `PROJECT.json` each say why. Most
are pure functions of text or data (formatters, signing, the query language, parsers of JSON and shorthand), which the repository compares with recorded cases; a model
of them would be the same function written again. Others are single requests.

## Plan

What is left, in the order of what it would add:

1. Proofs: `WaitTells` of `Waiter`, once the first acceptor that matches is told
   without `SelectSeq`, as `HandedExactly` does it for the events of a stream.
2. Abstract specifications: `AtomicTransfer` also for downloads and copies; a
   FIFO stream of events that `Duplex` implements, for which `ChainInv` of
   `DuplexProofs` is the refinement's invariant.

Modules meant for proofs use no recursive operator; where a definition recurs
it is a function over a bounded domain.
