# Verification of the Qwen3.8-27B inference engine in C

TLA+ models of the engine, its thread pool and the split of its products, its
sampler, its model file and tokenizer, its generation driver, its streaming
server and the page that talks to it, checked by TLC on small instances and
proved by TLAPS for every value of the constants. Line numbers refer to the repository
(`src/src/*.c`, `src/include/*.h`, `src/server.py`, `src/web/app.js`).

## The system

| Component | Source | State it keeps | Operations | Talks to |
|---|---|---|---|---|
| Generation driver | `main.c` | `all_tokens`, counts, the cycle's candidates, `last_logits` | prefill, speculative loop, standard loop | engine (calls), sampler, tokenizer |
| Inference engine | `model.c`, `model.h` | recurrent states and checkpoints, K/V rows, MTP layer, logits and hidden-state buffers, `pos` | `model_forward`, `model_forward_batch`, `model_rollback_to`, `mtp_forward`, `mtp_forward_batch` | kernels, thread pool |
| Thread pool | `threadpool.c` | two barriers, task slot, `quit` | `pool_create`, `pool_run`, `pool_destroy` | every parallel kernel |
| Kernels and work split | `kernels.c` | none (scratch buffers) | gemv, batch gemv, activations | thread pool |
| Sampler | `sampler.c` | random state | `sampler_sample` (penalty, top-K heap, nucleus) | driver |
| Tokenizer | `tokenizer.c` | vocabulary, merge hash tables | encode, decode | driver |
| GGUF loader | `gguf.c` | mapped file, metadata, tensor table | open, lookup, close | engine, tokenizer |
| Quantised formats | `quant.c` | none | block decoding | kernels |
| Streaming server | `server.py` | `current_process`, `process_lock`, one thread per request | `/api/chat`, `/api/stop` | the program as a child process (pipe, SIGTERM), browser (SSE) |
| Web client | `web/app.js` | `isGenerating`, `abortController`, the text shown | submit, stop, New Chat | server (requests in flight) |

How they interact: the browser posts a chat; a handler thread of the server
terminates the child of the previous chat, starts the program and copies its
output line by line. The program loads the GGUF file, encodes the prompt,
prefills it in batches and generates; every matrix product of the engine is
handed to all threads of the pool and joined. In speculative mode the MTP
layer proposes up to two tokens, the backbone verifies them in one batch, and
whatever is rejected must be undone in every kind of state the engine keeps.

### What is hard

* **Rollback.** Each cycle advances recurrent states (which cannot be
  truncated), K/V rows (which can) and the MTP layer's own rows, and takes a
  part back. A slip of one position shows up many tokens later, as slightly
  worse text. The states must agree after *every* sequence of acceptances.
* **The unlocked task slot.** `pool_run` writes `fn` and `arg` without a lock;
  only the two barriers keep workers of the previous call away. A fast worker
  may be a whole barrier ahead of a slow one.
* **Partial failure** of `pool_create`, which hands over to `pool_destroy` in
  whatever state it reached.
* **Bounds that meet**: context size, draft count, history buffer, budget and
  the position -1 of an empty prompt, in unsigned 32-bit arithmetic.
* **Rows and remainders.** Several matrices share one division of their rows
  between threads: an off-by-one leaves a row out or computes it twice, for
  some sizes and some numbers of threads only.
* **The heap on a fixed array**: three bounds on K meet, and a sift that ends
  one entry too early is seen as a slightly different distribution.
* **Collisions and unusual texts.** The tokenizer's two hash tables, the
  borrowed blank of a word, merges that overlap; a model file whose keys come
  in another order, or that ends anywhere.
* **The server's window between unlock and use** of `current_process`, the
  client that leaves at any moment, the child that dies with lines in its
  pipe, and the end of a stream, which needs two conditions at once.

The hazards, each at its line and with the properties that would catch it, are
listed in `PROJECT.json`.

### What makes each component correct

* Driver and engine: the states describe the emitted text at each frontier;
  the stream is the backbone's greedy decode; no buffer is overrun; the
  program ends, and for one of its stated reasons.
* Pool: each call is run by each thread once, with its own function and
  argument, and both calls and shutdown return; nothing is freed under a
  running thread.
* Server: a running generation can always be cancelled; a client that stays
  gets the whole of it; no handler hangs.
* Kernels: every row of every matrix is computed by one thread, once.
* Sampler: the heap holds the K best, the draw comes from the shortest nucleus,
  the penalty only lowers, and the loop taken without a draw ends with the first
  of the best tokens, which is what the plain argmax of the driver chooses.
* GGUF loader: what was read is what the file says, in whatever order, and a
  failed opening leaves nothing behind.
* Tokenizer: the tables find what was inserted, the chunks cover the text, the
  merges follow their ranks, decoding inverts encoding, and a search ends unless
  its table is full of other names.
* Web client: the user's stop ends the chat it was meant for, and no other.

## The modules

| Module | Models | Notes |
|---|---|---|
| `GreedyDecode` | abstract | a text that grows by the preferred token, within a limit |
| `Engine` | `model.c`, `model.h` | operators and actions on the engine's state; no specification of its own |
| `Generate` | `main.c` | extends `Engine`; one action per step of the driver; implements `GreedyDecode` |
| `MCGenerate` | | instances of `Generate` |
| `GenerateProofs` | | lemmas on rows, checkpoints and batches; the theorems of `Generate` |
| `ForkJoin` | abstract | a call is handed to all, done once by each, joined |
| `ThreadPool` | `threadpool.c` | implements `ForkJoin` |
| `ThreadPoolProofs` | | the theorems of `ThreadPool` |
| `ChatServer` | `server.py` | handlers, child processes, pipes, stops, clients that leave |
| `MCChatServer` | | instances of `ChatServer` |
| `ChatServerProofs` | | the theorems of `ChatServer` |
| `WebClient`, `MCWebClient` | `web/app.js` | extends `ChatServer`: one page and its requests in flight |
| `WorkSplit` | `kernels.c:601-735` | operators: the part of each thread in a product |
| `Gemv`, `MCGemv` | `kernels.c` on `threadpool.c` | composes `ThreadPool` and `WorkSplit` |
| `GemvProofs` | | the split of rows; the composition |
| `Sampler`, `MCSampler` | `sampler.c` | one call of `sampler_sample` |
| `SamplerProofs` | | the theorems of `Sampler` |
| `Gguf` | `gguf.c`, and the reading of metadata in `tokenizer.c` | opening a model file |
| `Probing` | `tokenizer.c:62-99` | operators: what a search of a hash table finds, in one step |
| `HashTable` | `tokenizer.c:62-99` | the probing loops, slot by slot; shown to be `Probing`'s one step |
| `HashTableProofs` | | the theorems of `HashTable` |
| `Tokenizer` | `tokenizer.c` | extends `Probing`: vocabulary, merges, pretokenizer, decoding |
| `Prompt`, `MCPrompt` | `main.c:85-113` | composes `Gguf` and `Tokenizer`; vocabularies, texts and files |
| `GgufProofs` | | the theorems of `Gguf`; that `Prompt` keeps to the specifications of its parts |
| `TokenizerProofs` | | the theorems of `Tokenizer` |

`Bug...` operators beside a definition are mutations of it: plausible slips of
the code, each of which some property must detect.

### Engine and driver

*Data.* Floating point is abstracted to provenance: a tensor is described by
the sequence of tokens one would have to replay from an empty engine to obtain
it. A forward pass over states that do not describe the same history yields
`Garbage`, from which any token may be picked. `Argmax` is an arbitrary
function of model file and context, so nothing depends on what the model
prefers. The abstraction takes two things for granted, both claims of the
repository: the batched kernels compute bit for bit what the one-token kernels
compute (comment at `main.c:136`, tested in `test_forward_batch.c`), and a
forward pass is a function of weights, states and token.

*State.* `conv`/`ssm` are the recurrent states and `ckptConv`/`ckptSsm` their
checkpoints by slot; `kv` the attention rows by position, stale rows included;
`logits` and `logitsB` the two logits buffers, where `lastLogits` says which of
them the C pointer `last_logits` points to (it is an alias: drafts overwrite
`model.logits`); `hSave` the hidden states of a batch; `mtpKv`/`mtpH` the draft
layer; `text` is `all_tokens`. `P` is `main.c`'s `P`, with its wrap to
2^32 - 1 for an empty prompt.

*Actions* follow `main.c` from top to bottom: `PrefillChunk`, `PrefillMtp`,
`PrefillEnd` (137-152); `Dispatch` (158-164); `BudgetSpent`, `NoRoom`,
`EosChosen`, `StartCycle` (166-179); `Draft` (181-185); `Verify` (186-189);
`Accept` (191-197); `EmitCandidate`, `EmitEnd` (199-210); `ContextFull` (211);
`KeepAll`, `Rollback` (213-217); `Anchor` (219-225); and the standard loop
(232-248). A draft is any token at all: that covers every acceptance pattern
and every quality of the MTP layer.

The refinement holds for runs that choose greedily: speculative mode, and
standard mode when the sampler returns the plain argmax. With its default
`--repeat-penalty 1.1` standard mode at temperature 0 is not the plain greedy
decode (`sampler.c:64-76`); the model lets such a sampler return any token.

### Thread pool

A program counter per thread. `pthread_barrier_wait` is external: a thread
joins the waiting set, and the last of `N` releases all of them at once.
`fn` and `arg` hold the number of the call that wrote them, and are written
and read one by one, so that a torn or stale task would be visible in `task`.
Workers run as soon as they are created, while others are still being created.
Barrier initialisation and allocation fail together as `AllocFails`, which
leaves `p->threads` allocated or not. CPU pinning is left out, and so is a pool
of one thread, whose calls run in the caller (`threadpool.c:76-79`): the module
assumes at least two.

### Streaming server

`pc` is the place of each handler thread; a chat names its handler, its
connection and its child. Lines of output are reduced to what the code tells
apart: with or without the marker `Generation:`, dropped by the filter or not.
Entering the lock with the termination of the old child, starting the new one
(or failing to), and reading `current_process` back are separate steps. A
write to a client that has left may succeed or fail, as sockets do. At SIGTERM
a flushed part of a generated line stays readable and the rest is lost; a
child that prints into a full pipe waits. `readline` blocks until a line or
the end of the pipe, and the brief interval between the end of the pipe and
the reaping of the child (in which the loop spins) is one step. Stops and
disconnections may come at any time.

### Web client

`WebClient` extends `ChatServer` with one page: `Submit`, the stop button, New
Chat, and the end of a response. Requests reach the server in any order, since
each has a connection of its own; a request that was sent may still arrive
after its `abort()`. The microtasks that an abort triggers (the rejected read
and the `finally` block) run before the next event and belong to its step.

### Products on the pool

`WorkSplit` holds the arithmetic of `gemv` and `gemv_multi`: part `t` of `n`
is the global rows from `total * t / n` up to `total * (t + 1) / n`, translated
to rows of each matrix with the loop's `continue` and clamps. The two batch
forms divide rows in the same way. A job is the list of the boundaries of its
matrices. `Gemv` says of each call of the thread pool that it carries such a
job, and reads off the pool's state who computed which row: a row is computed
as often as there are executions of the call whose part contains it. What is
computed for a row is not modelled.

### Sampler

One action per round of each loop: the penalty of one token of the window, the
offering of one token to the heap, one exchange of a sift up or down; the sort
is one step that allows every order `qsort` may produce among equal logits, and
the draw one step over all random numbers. The argmax of a call without a draw is
a loop of its own, one token per step, which keeps the first of equal logits by
its strict comparison (`sampler.c:78-85`). Entries of the heap are tokens, keys
their logits. `expf` is a finite table of integer weights, 0 below it (the underflow), probabilities are compared
through weights, `top_p` and the random number are fractions of `Scale`. An
entry beyond `size` is whatever the uninitialised array holds.

### Model file, tokenizer and prompt

`Gguf` lays a file out as a sequence of cells and reads it as `gguf_open` does:
header, both passes over the metadata (only the first knows the architecture
at its end), tensor infos, the alignment of the data, the resolution of
offsets; then the third reading of the metadata by `tokenizer_init`. Every
check of the end of the file is there; system calls and the allocation may
fail. `Fail` is `goto fail` with all of `gguf_close`.

`Tokenizer` keeps both hash tables as functions from slots to entries. A search
is the first probe, from its hash on, at which the wanted name or an empty slot
stands (`Probing`). That the loops of `token_find`, `token_insert`, `merge_find` and
`merge_insert` do just that, and when they end, is the subject of `HashTable`, which
takes them slot by slot over any hash function and knows nothing of how full the
table is; its `None` is the empty slot `UINT32_MAX`.

A line of the merges is the words between its blanks. `InsertMerge` reads it as
`tokenizer.c:276-299` does: what does not fit the buffer of 256 bytes is cut, the
rest is split at its first blank, and the second id is that of everything behind
it. So a line may lose a part of its second text, and then name another token or
none; a line without a blank, or whose texts are no tokens, keeps its place in the
ranks and is not inserted. The cut of the text is one action per branch of `pretokenize`'s loop;
the merges of a chunk are one action per round; encoding stops at the size of
the output array; decoding goes token by token through its buffer of fixed
size. A text is a sequence of bytes: the table between bytes and the characters
of a vocabulary is a bijection, so only the width of each character is kept,
except that the entry of byte 255 is the sentinel 0xFF itself
(`tokenizer.c:103`, `:438`), which decoding takes for no entry.

`Prompt` composes the two: the vocabulary comes from the file, and the program
is over when the file cannot be opened.

## Runs

Passing runs:

| Run | Instance | Shows |
|---|---|---|
| `generate` (71,524 states) | 3 tokens, 3 models, prompts of 0 to 5 tokens, context 2, 4, 7, budget 0 to 10, `--spec` 0 to 5, history 6, arithmetic mod 32 | `FrontierConsistent`, `MtpAnchored`, `KvWithinContext`, `HistoryFits`, `StoppedForCause`, `StandardStopsAtEos`, `EmittedRowsStable`, the refinement `ImplementsGreedyDecode`, and `Terminates` |
| `pool_calls` (2,214) | 4 threads, 3 calls, failing allocations and creations, jobs of 1 to 3 matrices with up to 7 rows | `ProductsComplete`, `TaskIsCurrent`, `SlotWrittenAlone`, `FreedAlone`, the refinement `ImplementsForkJoin`, `CallsReturn`, `WholePoolEnds` |
| `server` (244,037) | 2 chats, 3 kinds of output, pipe of 1 line | `Cancellable`, `StrayLostItsChild`, `CompleteStream`, `HandlersEnd` |
| `sampler` (176,558) | 6 tokens, 3 logits, an array of 5 entries, window of 2, 6 sets of options | `TopKKept`, `DrawnFromNucleus`, `GreedyAgrees`, `PenaltyLowers`, `Returns` |
| `prompt` (34,306) | 60 orders of 5 keys, 9 refused files, 2 files cut at every cell, 3 vocabularies, every text of up to 4 of 4 bytes and 10 others | `OpenedOrReleased`, `LoadedAsWritten`, `TablesFind`, `ChunksCover`, `ChunksFollowExpression`, `MergedByRules`, `RoundTrip` |
| `hash_table` (241,864) | 4 slots, 3 names, every hash function, up to 5 insertions (repeated names, a full table and one more), searches in any order | `SearchIsProbe`, `SearchesEnd` |

`LoadedAsWritten` compares the result with a reading of the file as a whole,
without passes or cursor; `ChunksFollowExpression` with a backtracking matcher
of the expression in the comment at `tokenizer.c:126-131`; `MergedByRules` with
the definition of byte-pair encoding, each merge applied in turn to the whole
chunk; `DrawnFromNucleus` with the logits rather than the heap; `RoundTrip` is
the program's own promise.

*Why the bounds are enough.* `SPEC_MAX_B` has its real value 3, so that all
patterns of two drafts occur, and `--spec` goes beyond it. Prompts longer than
a chunk (3 instead of 8) take several batches, with and without a shorter last
one. Contexts of 2, 4 and 7 make the batch end before, at and after the
context's end, and make the prompt truncated or not. The budget is spent in
the middle of a cycle, at its end and never; the history is smaller than
prompt plus budget. The models prefer different tokens after different
histories of the same length, so that a wrong state is a wrong token. In the
pool, four threads let one worker be released while another sleeps and a third
is late; three calls let the slot be overwritten twice. In the server two
chats suffice for every race of the code, since a handler touches only its own
child, the current one and the one it captured; a pipe of one line makes both
full and empty pipes common. Products of 1 to 3 matrices with fewer, as many
and more rows than threads include empty matrices, parts that are empty, and
parts that reach over three matrices. The sampler's array has
three levels, so that sifts take several exchanges in both directions; `top_k`
lies below, at and beyond the array and the vocabulary, and the history is
longer than the window. The tokenizer's hash functions send most names to two
neighbouring slots at the end of a table of 18, so that searches cross foreign
entries and wrap round; buffers of 8 are overrun by the longest merges, an
output of 2 tokens by most texts. A buffer of 6 for the lines of the merges is
overrun behind a character, within one, behind the second of three words and at
the blank; other lines have one word, or three. In `hash_table` the fifth insertion
finds a table of 4 slots full. Every order of the keys in which the tokens
precede the merges is tried with files that are followed to the vocabulary;
`Followed` names the three files with which the program is followed to the end
of the decoding, as the tokenizer depends on a file only through its
vocabulary.

Deadlock is checked in every run but `pool_calls` and `pool_partial`: when
`pool_create` fails with `p->threads` allocated, at the allocation of `p->wctx` or
at a `pthread_create`, the program really stops at a barrier, which is what
`pool_partial` reports. `WholePoolEnds` covers the other shutdowns: of a pool with
all its workers, and of one without `p->threads`.

Runs that end in a violation, each of a statement of the repository:

* `generate_eos`: the comment "Lossless: output stream exactly matches
  backbone greedy decode" (`main.c:160`). Only the first candidate of a cycle is
  compared with the end token; an accepted draft that is the end token is
  emitted, and so is what follows it.
* `generate_stop`: the same comment. The test for a full context looks at
  `pos` before the rejected drafts are taken back, so the loop may leave while
  the text is still shorter than the context.
* `generate_tinyctx`: "never write KV entries beyond n_ctx-1" (`main.c:170`).
  A context size of 0 or 1 is raised to 2 after the rows were allocated.
* `pool_partial`: "sûr même partiellement initialisé" (`threadpool.c:71`).
  When `pool_create` fails with `p->threads` allocated, `pool_destroy` waits at a
  barrier that counts threads that do not exist. In TLC's trace, the shortest, no
  worker was created (the allocation of `p->wctx` failed, `threadpool.c:51`); a
  failed `pthread_create` ends in the same place.
* `server_own`: "Thread-safe subprocess handling" (`README.md:64`).
  `current_process` is read back outside the lock (`server.py:94`): a handler
  overtaken by another chat streams, and steals lines from, the other's output.
* `client`: "immediate cancellation support via `/api/stop`" (`README.md:64`). Neither the
  stop button nor New Chat waits for its request (`app.js:201`), and the request
  names no chat: it may arrive after the next chat has begun and end that one.

Other observations, which no run reports: the line of statistics after the
text (`main.c:253`) passes the filter of `server.py:117` and is streamed as a
token; the expression at `tokenizer.c:129` takes a space before a word where
the code takes any single blank; `tokenizer_encode` leaves its loop at the best
pair when its result is too long or no token, whatever the other pairs are; a
token with byte 255 decodes to two bytes.

### Fairness

`Generate`: weak fairness of the whole next-state relation; `main` is one
thread that nothing blocks. Every cycle emits or leaves, which is what
`Terminates` checks. `ThreadPool`: weak fairness of each thread, as the
operating system schedules them; tasks end by themselves. `Sampler`: weak fairness
of its steps; `HashTable`: of the rounds of its loops, sequential code that nothing
blocks. `Prompt` and `Tokenizer` need none. `ChatServer`: weak
fairness of each handler thread and each child process. Nothing obliges a
browser to send, stay, leave or stop. Strong fairness is not used: the lock of
the server is contended by finitely many chats, and a stop holds it for one
step.

## Proofs

All theorems hold for every value of the constants allowed by the `ASSUME`s of
the modules (which TLC evaluates on each run). They are safety properties;
each follows from an inductive invariant whose parts TLC confirmed on the
instances. Every invariant and every action property of the passing runs is
stated by a theorem, and so is the refinement of both abstract specifications.

**`ThreadPoolProofs`** (`PoolAssumption`: at least two threads). `Invariance`
proves the invariant from which the rest follows. What the runs check is not
inductive: that a task is current when it is run depends on the slot not being
written meanwhile, which depends on where every worker is. `IInv` therefore ties the
location of the caller to those of the workers (`PhaseInv`), the waiting sets
to the locations (`WaitingInv`), the number of created workers to both
(`CreatedInv`), and the slot, the tasks and the histories to the current call
(`TaskInv`, `RanInv`). A barrier that opens moves all threads at once, so the
proof of `ArriveStart` and `ArriveEnd` shows that the waiting set is complete
exactly when the caller is in it. Theorems: `TypeCorrect`,
`EveryCallComplete`, `EveryTaskCurrent`, `SlotNeverRaces`, `PoolFreedAlone`,
`PoolImplementsForkJoin`.

**`GenerateProofs`** (`EngineAssumption`, `GenerateAssumption`: buffers at
least as large as the code's relations between them, positions below 2^32).
`FrontierConsistent` speaks of the start of a cycle only. `IInv` says at every
place of the driver which text each state describes: during the prefill a
prefix of the prompt; while drafting, that the MTP layer is ahead by the drafts
and the backbone is not (`DraftInv`); after the verification, that row `b` of
the logits, hidden states and checkpoints describes the text up to candidate
`b` (`VerifiedInv`), accepted or not; after the rollback, that all of them are
back at the same frontier (`AnchorInv`). The first lemmas say what a batch
does to rows, checkpoints and prefixes; then one lemma per action carries the
invariant over it. Theorems: `TypeCorrect`, `FrontierCorrect`,
`AnchorCorrect`, `ContextCorrect`, `HistoryCorrect`, `StopCorrect`,
`EosCorrect`, the action property `RowsStayCorrect`, and `Refinement`: each
step of the driver is a step of the greedy decode or leaves the text alone,
for every model, every draft and every acceptance.

**`ChatServerProofs`** (`ChatAssumption`; `OutputAssumption`: the marker is
printed before generated text, as `main.c:125` does). `IInv` adds to the
properties that the lock is held exactly by the handler that starts a child,
and that then every running child was told to end (`LockInv`); what each
location says of child and captured process (`HandlerInv`, `ChildInv`); and,
for a handler that is alone on its own pipe, that everything it has read of
the generated text has been passed on (`StreamInv`). The last part needs
`OutputAssumption`: a generated line skipped while looking for the marker
would be lost. Theorems: `TypeCorrect`, `AlwaysCancellable`, `StrayHarmless`,
`StreamsCorrect`.

**`GemvProofs`** (`PoolAssumption`, `JobsAssumption`). `RowsSplit`: for any list of matrices and number of threads,
each row of each matrix lies in the part of exactly one thread. The bounds `total * t / n` are monotone and run
from 0 to `total`, so a global row has a last bound at or below it; monotonicity
excludes every other part, and the translation to a matrix is a shift with two
clamps. `EveryProductComplete` joins this with `EveryCallComplete` of the pool:
since every thread has run call `c` once, the executions that computed a row
are in bijection with the threads whose part contains it.

**`SamplerProofs`** (`SamplerAssumption`; `WeightAssumption`: `expf` is not
negative and the best token has a weight). The heap order holds with one
exception while an entry is sifted, so `IInv` says in `up` that only the pair of
`cur` and its parent may be out of order and that the parent is still below the
children of `cur`, and in `down` the same with the roles exchanged. That the
root is then least (`RootIsLeast`) follows along the ancestors of an entry, by
the well-founded order of the indices: a least index with a smaller key than
the root would have a parent that has one too. `DrawsFromNucleus` needs two more
invariants: `OrderInv`, that what the sort has listed are kept tokens, each once,
from the best one on, and `ArgmaxChosen`, that the argmax is only taken when it was
asked for. The property speaks of sums over sets of tokens and the code adds
along the sorted array: a sum over a finite set is shown to be defined
(`SumExists`; a smallest set without a sum would have one element too many), to
grow with the set (`SumGrows`) and to be the accumulated one (`MassFacts`). The
tokens better than a drawn one stand before it in the array (`BetterAreBefore`),
where the accumulated mass is still short of `top_p` (`DrawnIsNucleus`). The argmax
loop has an invariant of its own, `BestOf`: what it has kept is the first of the
best among the tokens before its counter.
Theorems: `Invariance`, `TypeCorrect`, `HeapKeepsTopK`,
`GreedyChoosesFirstBest`, `PenaltyOnlyLowers`, `DrawsFromNucleus`.

**`TokenizerProofs`** (`TokenizerAssumption`: fewer names than slots,
and the text of a line begins its search at a slot;
`LookupAssumption`: so does whatever else is looked up; `CategoryAssumption`: a space is a blank
and an apostrophe is none). Six inductive invariants, each resting on those
before it:

* `TablesInv` says that no entry stands in two slots and that every search of an
  inserted name ends at its first entry. A table that holds each of fewer entries
  than slots once has an empty slot (by pigeonholes), so every search ends
  (`SearchEnds`); an insertion fills one empty slot, which is on nobody's way to a
  slot that was found (`InsertionKeeps`), and a new name is found where it was
  inserted (`InsertionFinds`). `TablesCorrect` is the checked property.
* `ChunkInv`: each round appends pieces that begin at `i` and end within the text,
  whatever category the bytes have, so that there are never more chunks than
  bytes. `ChunksCoverTheText` follows; `ChunksAreMatches` adds to it (`FollowInv`)
  that each piece is a match of the expression. For each of the branches of the
  loop the lemmas `MatchContraction`, `MatchWord` and `MatchBlanks` compute the
  longest match of the first alternative that has one: a run of one category is
  maximal, alternatives of other categories are empty at its first byte, and
  blanks before a word give up their last one. `SpacesBeforeWords` is used at one
  place only, where a word takes its blank.
* `EncodeInv`: the symbols of a chunk are ids of the vocabulary or `UnkId`, at most
  as many as the chunk has bytes (a merge makes two of them one), and the tokens
  at most `maxTokens`; it needs the tables to find only what they hold.
  `TypeCorrect` is the checked type invariant with the bounds of the arrays.
* `SpellInv`: positions in the text (`Spells`) divide it so that each token and
  each symbol is what stands between two of them; a merge removes one of the
  positions (`MergeSpells`), the end of a chunk moves those of its symbols over to
  the tokens (`AppendSpells`). `DecodingIsLossless` needs no assumption on the
  merges: whatever they are, the text of two symbols is the text of their merge.
* `PairsInv`: the pair read for a line is what its cut line names (`PairOf`), at the
  rank of its place in the file. `MergesAreRead`: for a line that fits the buffer
  that is the pair of its two texts, neither cut nor joined with what follows.
* `MergingInv`: the code takes the pair of the lowest rank, wherever it stands, one
  at a time; the format defines the merges rule by rule, each over the whole
  chunk. `Stage(cur, m, b)` joins them: none of the first `m` rules has a pair left in
  the symbols, and the rules after `m` still make of the symbols what they make of
  the bytes. It holds of the bytes with `m = 0`. Merging the first pair of the
  next rule beforehand does not change what that rule makes (`FirstPairReplaced`,
  the case of runs such as `aaa` included); a rule without a pair changes nothing
  (`NoPairKeeps`), so the stage moves on to the rule of the best pair
  (`StageReaches`); and what a rule makes is no half of an earlier rule's pair
  (`MadeLater`), so that no earlier pair comes back. When no pair is left the
  symbols are what all rules together make (`MergesFollowRules`). Only
  `MadeLater` and the tables' answers need `WellFormed` (each line fits its buffer and its texts are
  tokens, merges follow those that make their halves): without it the two do
  disagree, as a merge listed before those that make its halves shows.

**`HashTableProofs`** (`HashTableAssumption`: any number of slots, any names). The
invariant says of a search under way that it has come from its hash to `h` and that
no slot it left behind would have ended it (`Passed`). In a full table a loop goes
round for ever, so `h` alone does not tell the number of rounds: `Passed` counts
modulo the size of the table, and the slot at which a loop does end is then the
first that could have ended it (`ProbeIs`). `LoopsAreProbes` is the checked property.

**`GgufProofs`** (`FileAssumption`: a file has as many entries as its header
says, a number is one, an array carries its length and the tokenizer's lists are
arrays; it may end at any cell). `EndOf` says where the k-th entry or tensor ends
in the layout; that the layout is cumulative (`ListedTo`) makes an entry lie
between two such ends (`EntryLies`), also in a file that is cut. `FileInv` says in
each phase that the cursor is the end of as many entries as the loop has behind it
(`CursorInv`), what is held (`ResourcesInv`) and that the configuration is a
function (`MetaInv`). `FileTypeCorrect` and `OpenOrRelease` follow. `LoadInv` adds
for each pass what the entries up to the cursor give: the architecture after
`pass1`, the fields after `pass2`, the vocabulary after the tokenizer's reading;
an entry either is a later value of the key or leaves the last one where it was.
`LoadsWhatWasWritten` is the checked property: the architecture may be named
behind the fields that carry its name. These theorems and those of
`TokenizerProofs` are about `FileSpec` and `Spec`; `PartsKeepToTheirSpecs` shows that
every behaviour of the composition `Prompt`, which the run checks, is one of both, so
they hold of it; `LoaderInProgram` states it for the loader's three.

Only model-checked:

* the liveness properties `Terminates`, `CallsReturn`, `WholePoolEnds`,
  `HandlersEnd`, `Returns` and `SearchesEnd`: liveness under fairness is beyond the
  prover;
* the violations.

## Not modelled

* Floating point, SIMD and the quantised formats: no control to model; the
  repository's own tests compare them with reference results.
* Sampler: the rounding of floats, infinities, a penalty below 1 and the
  generator of random numbers (the draw takes any number).
* A thread pool of one thread, which has no barrier and no worker: its calls run
  the task in the caller (`threadpool.c:76-79`).
* GGUF: nested arrays, names longer than their buffer, tensor types and byte
  sizes, and 64-bit offsets or counts that overflow.
* Tokenizer: scores, the ids of special tokens and the optional beginning-of-text
  token, failing allocations, and a file whose merges come before its tokens: the
  hash table is not there yet when they are looked up; the writers of model files
  put the tokens first. Lines of the merges that the buffer cuts are modelled, and
  `TablesFind`, `ChunksFollowExpression` and `RoundTrip` hold with them;
  `MergedByRules` speaks of files whose lines fit, as a cut line is no longer the
  rule that the file gives.
* The steps after an opened file and before the first forward pass
  (`model_init`): the initial state of `Generate`. Its failure ends the program.
* The rendering of the web page, and more than one page.
* `stderr` of the child, which the server never reads (`server.py:85`):
  how much is written there is not modelled.
* Test and debug programs, benchmarks, style sheet and page.

## Plan

1. `Checkpoints`: the layout of checkpoints in `gdn_layer_batch`
   (`model.c:872-918`) in array indices, shown to implement `Engine`'s slots.
2. An abstract tokenizer, which encodes a text in one step by the expression and
   the rules, with `Tokenizer` shown to implement it: `ChunksFollowExpression`,
   `MergedByRules` and the bounds of the arrays as one refinement.
3. Which chats a page can lose in the composition of `WebClient` and `ChatServer`,
   beyond the misdirected stop: the invariants of the composed system.
