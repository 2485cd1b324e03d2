# A verification project for zgate

zgate is an AI gateway: a Next.js application with accounts, e-mail
verification, rate limits and a catalogue of provider models on PostgreSQL and
Redis; a library of provider adapters and format translators (`open-sse`) that
turns every provider's API into the OpenAI "pivot" and back; and a Rust token
saver (`rtk`). This directory holds TLA+ modules for the parts whose correctness
depends on order, concurrency, failure or many steps, the TLC configurations
that check them, and TLAPS proofs for every value of the parameters.

`PROJECT.json` is the index: components, runs, the code lines behind every
definition, the defects each property was shown to catch, hazards, theorems.
Paths there begin with `src/`, the root of the repository, so that
`src/lib/otp.ts` is `src/src/lib/otp.ts`. Below they are relative to the root.

## 1. Inventory

| component | state it keeps | operations | hard behaviour | correct means |
|---|---|---|---|---|
| one-time codes, `src/lib/otp.ts` | three Redis keys per account and type: code and attempt count, cooldown, suspension | `issueOtp`, `canResend`, `verifyOtp`, `clearOtp` | every command is an await: verifications, issues and expiry interleave; a command may fail or be applied twice | used codes stay used, codes expire, nobody is suspended early, three wrong guesses suspend |
| sign-up routes, `src/app/api/auth/{register,resend-otp,verify-otp}` | the `User` row; the keys above | one handler each: look up, issue, mail, mark verified, set the cookie | partial failure between database, Redis and mail; stale look-ups; single sign-on meanwhile | a session only for a verified account; every failure leaves a way to sign up |
| single sign-on, `.../oidc/*` | `oidc:flow:{state}`, ten minutes | start, callback | replayed or late callbacks | the flow state works once |
| log-in, log-out, me, `src/proxy.ts`, `src/lib/apiKey.ts` | none of their own | check a password, a cookie, a key | - | the right answer for one request |
| rate limiter, `src/lib/rateLimit.ts` | one sorted set per bucket | `checkRateLimit` | five commands per check; a clock read once; expiry between commands; fails open | no more than the limit in a window |
| model cache, `src/lib/modelCache.ts` | two columns per connection, a Redis lock and job list | `getModelsForConnection`, background refresh, `invalidateCache` | lost jobs, lock without job, refreshes racing edits | gets back to the current live list |
| refresh worker, `src/lib/modelRefreshWorker.ts` | running flag, blocking client | start, stop, loop | crash in a job; restart while a job runs | one loop, no job lost for good |
| model resolvers, `open-sse/services` | a five-minute cache for Kiro | fetch a live list or fall back | an outage replaces a good list | never throws |
| stream decoders, `open-sse/translator/response/*-to-openai.ts` | per stream: call indices, usage | `push`, `end` for ten formats | fragments, interleaved calls, cut streams | the pivot says what the provider said |
| stream encoders, `.../openai-to-{claude,gemini,antigravity}.ts` | per stream: the open block, buffered calls | `push`, `end` | one block open at a time; calls only whole | well-formed events, nothing lost or repeated |
| assembler, `open-sse/translator/streaming.ts` | accumulators per call index | `assembleChunks`, `parseSSE` | fragments without id or name | equals the non-streaming answer |
| request translators, `open-sse/translator/{request,helpers}` | none; the client keeps the conversation | client to pivot, pivot to provider: messages, results, parameters | results that must find their calls over several rounds and providers | the next provider hears the whole conversation, in order, in a legal request, with what was asked for |
| whole answers, the same files as the stream translators | none | `decodeResponse`, `encodeResponse` | reasons and usage in other words | the client gets the whole answer, its reason and its cost |
| executors, `open-sse/executors` | none | build a request, time it out, classify errors, retry once | timeout against a caller that gives up | a request in flight ends |
| RTK engine, `rtk/src` | none | detect, filter, truncate, walk a request | twelve filters that rewrite what a model will read | a reader learns the same; never empty, never longer; only results change, errors excepted |
| RTK wrapper, `src/lib/rtk.ts` | a child process per request | spawn, write, read, kill | timer against exit | always an answer, and never half of one; no child left |
| mail, websocket publishing, tokenizer, tables, pages, schema, scripts | none that matters here | | | |

How they interact: the routes call the one-time codes and the mailer and share
the `User` row; register and log-in pass the rate limiter first; readers of the
model cache reach the worker through a Redis list and both write the same row;
decoder, pivot and encoder are a pipeline with one instance of each per stream.
A request passes the client's decoder, the pivot, the RTK wrapper with its
engine, the provider's encoder and an executor; its answer comes back through
the provider's decoder and the client's encoder, and is part of the next
request.
The chat handler that will drive these steps (`open-sse/handlers`), the
fallback engine, the token refresh and the websocket server are described in
the documents and are not in the repository: nothing is modelled of them.

## 2. Modules

| module | models | composed with |
|---|---|---|
| `Otp` | the three keys and the functions on them, one Redis command per action | |
| `OtpProofs` | theorems about `Otp` | extends `Otp` |
| `Signup` | the three routes and the single sign-on upsert, one await per action | instantiates `Otp` |
| `PatientUser` | a person who reads every answer and follows it | extends `Signup` |
| `SignupProofs` | theorems about `Signup` and `PatientUser` | extends `PatientUser`, instantiates `OtpProofs` |
| `RateLimit` | one bucket, one Redis command per action, a clock | |
| `RateLimitProofs` | theorems about `RateLimit` | extends `RateLimit` |
| `ModelCache` | cache, lock, job list, worker loop, invalidation | |
| `ModelCacheProofs` | theorems about `ModelCache` | extends `ModelCache` |
| `Pivot` | the chunk format and `assembleChunks` | |
| `StreamDecoders` | `push` and `end` of every decoder, and the registry | extends `Pivot` |
| `StreamEncoders` | `push` and `end` of the Claude and Gemini encoders | extends `Pivot` |
| `StreamClients` | external: a strict Anthropic reader, a Gemini reader | extends `StreamEncoders` |
| `Stream` | a provider, the pipeline and the clients | extends the four above |
| `FoldLaws` | laws of `FoldLeft`, for the loops of the source | instantiated by `StreamProofs` for each loop |
| `StreamProofs` | theorems about `Stream` | extends `Stream` |
| `RtkFilters` | lines, the detector and the twelve filters, `compress_block` | |
| `RtkTexts` | the texts tools print and what a reader learns from a text | extends `RtkFilters` |
| `Rtk` | `compress_request`; the wrapper and its child process | extends `RtkTexts` |
| `Executor` | one call of an executor: signals, timeout, status, retry | |
| `Gateway` | a tool's text through the wrapper, then to a provider | extends `Rtk`, `Executor` |
| `GatewayProofs` | theorems about `Gateway` | extends `Gateway` |
| `Turns` | requests of every format in one shape, and the pivot's message | |
| `RequestDecoders` | `decodeRequest` of the four client formats | extends `Turns` |
| `RequestEncoders` | `encodeRequest` of the provider formats | extends `Turns` |
| `Parameters` | limits, sampling, thinking, effort, tools: both directions | |
| `Answers` | `decodeResponse` and `encodeResponse` | extends `RequestDecoders` |
| `Conversation` | a client, its history, any sequence of providers | extends `Answers`, `RequestEncoders`, `Parameters` |
| `ConversationProofs` | theorems about `Conversation`: the parameters of requests, answers | extends `Conversation` |
| `MC*` | the instances TLC checks | |

### One-time codes: `Otp`

`verifyOtp` is `ReadSuspension` (TTL of the suspension), `ReadCode` (HGETALL and
the decision), then one of `Consume` (DEL), `Suspend` (MULTI) followed by
`MirrorSuspendToDb`, or `Count` (HSET). `pc` says where a call is and `seen` what
it read, so a decision is taken on what was read and not on what is there now.
`issueOtp` and `clearOtp` are one command each. A code is the number of its
issue; a guess is any of these numbers or 0. `hash` and `ttl` are the key: HSET
on a missing key creates one without a TTL, as Redis does. The expiry actions
may fire at any moment, which covers every timing. `TTL` is the command of that
name: negative for a key that is missing or never expires. `RedisFails` is a command
that never ran, `Redelivered` one that ran and is sent again because the reply
was lost (`maxRetriesPerRequest`, `src/lib/redis.ts`); one that ran and was then
given up is the two in a row. `retired`, `deadAtStart`, `judged`, `counted` and
`overlap` are history, read by properties only.

### Sign-up: `Signup`, `PatientUser`

`at[x]` is the await a request is at, `snap[x]` the row as it read it, `reply[x]`
the status. `Fails(x)` is the catch of each route: any awaited call may reject,
nothing done before is undone. `Signup` drives the actions of `Otp`; that it does
so only in the ways `Otp` describes is the refinement `UsesOtp == O!Spec`, so
that what is proved of `Otp` holds of the routes. `PatientUser` adds the person:
she sends one request at a time, types the code of the latest mail, and goes
where an answer sends her.

### Rate limiter: `RateLimit`

`Arrive` captures `now`; `Trim`, `Card`, `ReadOldest`, `Add`, `Refresh` are
ZREMRANGEBYSCORE, ZCARD, ZRANGE, ZADD, EXPIRE. `FailOpen` is the catch. The clock
`now` has `TicksPerSecond` ticks, so that rounding to seconds matters. `peak` and
`covered` are history: the largest overlap so far, and the requests whose
EXPIRE found their member.

### Model cache: `ModelCache`

A list is the version of the row it was fetched for and `live` or `static`. A
reader is `ServeFresh`, `ServeStale` (then, detached, `TakeLock` and `Push`) or
`FetchCold`; the worker is `Pop`, `Find`, `Fetch`, `Save`. `Invalidate` is two
awaits after the edit of the row. Lock and freshness both last five minutes, so
a lock older than a list is gone before the list is stale: this is the lock
value `older`, the only timing the model keeps.

### Streams: `Pivot`, `StreamDecoders`, `StreamEncoders`, `StreamClients`, `Stream`

A transformer is a record of its state and an operator from a state and an
event to the next state and the output, one per `push`. Text is the sequence of
the fragments it was sent in, an id or a name is a number, and a negative
fragment closes the arguments of a call, so that arguments cut in the middle do
not parse. `Stream` chooses a provider format and a client, and the provider
says text, reasoning and calls in any order its format allows, one event per
action, with a `Finish` or a `Cut` at any point. Every event goes through the
decoder, the chunks through the assembler and the encoder, the output through
the client's reader, in that step, as the code does it (`push` does not await).
`said` keeps what the provider said; the properties compare it with what the
readers saw. Vertex and Antigravity reuse the Gemini code, CommandCode the
Claude decoder, and add no behaviour. The role in the first delta, the
time stamps and the model name are left out.

### Token saver: `RtkFilters`, `RtkTexts`, `Rtk`

A line is its kind, the file or section it names with the file's directory, the
words the filters and a reader tell apart, and a count; the regular expressions of the code decide the kind, so a text that
merely looks like a kind is a line with the same words. Every filter is one
operator over sequences of lines, written with folds where the code has a loop
with state. `detect` is the order of the code's tests. `Width` stands for
bytes: a line of a verbose form is longer than the line it becomes, and each
word and directory adds one. `compress_block` is filter, escalation to
`smart_truncate`, caveman, and the fallback to the raw text when nothing was won.

Caveman's three passes rewrite words. Of the words of the texts `round_decimals`
changes two, a duration with four decimals and an address whose parts look like
a decimal; `collapse_whitespace` drops blank lines and squeezes the indentation
of a quoted line of code; `shorten_paths` counts the directories of two segments
and more that lines show, and replaces the most frequent by `@1` under a legend
when that is shorter. Which of several prefixes that are equally frequent and
long it takes depends on the order of a HashMap; the texts have one at most that
is worth a legend.

`RtkTexts` generates, per tool, the texts it prints (with the lines that filters
treat differently among them), and `Learns` is what a reader knows after a text,
raw or compressed: the changed lines under their file, the entries in their
section, commits, matches, paths, numbered lines, warnings, whether the build
succeeded, and of a log or a document which line comes before which and how
often. A reader undoes the legend (`Expanded`), and of a text that went through
caveman white space and long decimals are compared as caveman means to leave
them (`Plain`), addresses as they were. `Learns` is written from what the raw and the compressed forms say,
and is the specification the filters are measured against.

`Rtk` adds `walk` and `compress_request` and the wrapper: `Spawn`, `SpawnFails`,
`EngineFinishes`, `EngineDies`, `TimerFires`, `PipeFails`, `Collect` (the two
reads and the exit, then the verdict). The engine counts bytes and the wrapper
UTF-16 units, so how the lengths of two different bodies compare is open
(`Lengths`).

### Executors: `Executor`, `Gateway`

`setup` is what a call brings (a signal) and finds (`AbortSignal.any`, a templated
endpoint, a base URL). `Execute` is `execute` up to the fetch, `ProviderAnswers`
its status with `mapError`, `BodyEnds`, `ConnectionBreaks`, `TimeoutElapses`,
`CallerAborts` and `SignalEnds` the ways on. `RetryOnce` is the caller's side of
`shouldRetrySameConnection`, as its comment asks. `Gateway` puts the wrapper
before the executor, as `docs/RTK.md` section 1 does; a caller may leave while the
engine runs.

### Conversations: `Turns`, `RequestDecoders`, `RequestEncoders`, `Parameters`, `Answers`, `Conversation`

A request of any format is a system text and a sequence of turns of blocks; the
pivot keeps content, reasoning and calls apart, as `types.ts` does. A text is
the sequence of its words and the i-th fact of the conversation is the word i,
so whatever a chain of translators did to it can be read back. `decodeRequest`
and `encodeRequest` choose the translator; each translator is an operator with
the name it has in the code, and helpers that two share are shared here.

`Parameters` keeps numbers where they are compared (limits, ceilings, budgets)
and presence where a value is only passed on. A model is the set of patterns
its name contains, which is all that `maxTokensHelper.ts` and
`claudeModelCaps.ts` look at.

`Conversation`: the user speaks (`UserSays`, `UserSpeaks`), the whole history is
sent to some provider with some parameters (`Send`), which fails
(`ProviderFails`, and the same history goes to another one) or answers
(`ProviderAnswers`, decoded and encoded in that step, as the code does without an
await); the client runs the functions it is asked to and reports the results in
either order, with or without a comment (`ToolsRun`). `ledger` is the truth:
who said what, and which call a result answers. `Heard` reads a request as a
provider would. Clients and providers are external; a Responses client is
answered with a chat completion (`index.ts:246`), and is assumed to go on.

## 3. Runs

| run | instance | question |
|---|---|---|
| `otp` | 3 verifications, threshold 2, 2 codes, `clearOtp` on, symmetric | every overlap of three calls: `DeadCodeNeverAccepted`, `CodeAlwaysExpires`, `NoSpuriousSuspension`, `SerialCountIsExact` |
| `signup` | 1 registration, 2 resends, 1 verification, 2 codes | `SessionImpliesVerified`, `LateResendRefused`, refinement of `Otp` |
| `patient_user` | up to 3 faults, as many requests as she can need | `SignupSucceeds` (liveness), `HonestNeverSuspended` |
| `rate_limit` | 3 checks, limit 1, a window of 2 s of 2 ticks, 6 ticks | `OverAdmissionBounded`, `CoveredIsRemembered`, `AdmissionsBounded`, `RetryAfterSuffices` |
| `model_cache` | 1 connection, 2 readers, 1 edit, 2 faults | `LockHasJob`, `CacheConverges` (liveness) |
| `stream` | 8 formats, 2 clients, up to 6 events, 3 calls | `AnthropicGrammar`, `AssembledIsWhole`, `ClientSeesWhole`, `NothingInvented`, `OutcomeReported` |
| `gateway` | 10626 starts: every text of 12 tools with caveman on and off, every shape of a block, every set-up of a call; 6 statuses, 2 sends | `SafeBody`, `FaithfulText`, `CompressAnswers` and `SendSettles` (liveness) |
| `conversation` | 4 client formats, 8 provider formats, 2 answers, up to 2 calls in each; 35 sets of parameters, 6 kinds of model | `ProviderHearsAll`, `HeardInOrder`, `ResultsFindTheirCalls`, `RequestIsLegal`, `ParametersHeard`, `ClientGetsAnswer` |

Why these bounds are enough. In `otp` a suspension needs two wrong guesses, and
a third call can lie before, between or after them; two codes give a stale read
of the first during the second. In `patient_user` the sets of requests are so
large that she never runs out of them with three faults, which the liveness
property itself would show. In `rate_limit` three checks can overlap pairwise,
and the clock outlasts a window by half. In `model_cache` two readers meet at
the lock, one edit races one refresh, and two faults can hit a lock and the
repair of it. In `stream` six events are two interleaved calls with two
fragments each; the translators keep no state that a seventh event would meet
for the first time. In `gateway` the sizes are small on purpose: a block of 6
units is compressed, one of more than 9 is cut to its ends, so that both
thresholds lie inside the texts; lists have up to three entries of six, enough
for a group, a group and a rest, and a repeated text; one list of four in a deep
directory, and the deep directory of diffs and matches, are worth a legend; logs
of five lines are long enough to be cut. Blocks are rewritten one
by one, so one block beside the user's text is enough. In `conversation` two
answers are two rounds of calls, the least with results of an earlier round in
the history; two calls in an answer are the least that can be confused, of one
function or of two. Only the first request varies in media, parameters and
model: translators keep nothing between requests. The limits stand on both
sides of the least budget (1024) and of every model's ceiling.

`CHECK_DEADLOCK FALSE` stands where every request has run (`signup`,
`rate_limit`), the stream is over (`stream`), she is home (`patient_user`), the
request has ended (`gateway`), or
the bounds on edits and faults are used up (`model_cache`).

Fairness. Safety runs have none. In `PatientUser` every await settles (Redis,
Prisma and the mailer have timeouts), Redis expires keys, and she does not give
up; faults are never obliged to happen and are bounded. In `ModelCache` clients
keep asking, every await settles, time passes, the worker's loop runs; edits and
faults are not obliged. All of it is weak fairness: no step needs to be chosen
again and again against a competitor. In `Gateway` the timers of the wrapper and
the executor fire, a killed child dies and a settled promise is noticed; neither
the engine nor the provider ever has to answer, and the caller never has to
leave.

### What the documents say and the code does not do

Four runs check one statement of a document or comment each, and TLC finds the
behaviour that contradicts it.

| run | statement | behaviour |
|---|---|---|
| `otp_lost_count` | three wrong guesses suspend (`docs/ARCHITECTURE.md:195`) | three overlapping guesses read the same count and write the same next one |
| `model_cache_invalidate` | the next request refetches (`src/lib/modelCache.ts:89`) | a refresh begun before the edit saves after the invalidation |
| `stream_interleaved` | interleaved deltas become ordered blocks (`openai-to-claude.ts:6`) | a resumed call becomes a second, nameless block |
| `conversation_gemini` | results are mapped symmetrically and survive a change of provider (`types.ts:4`, `toolCallHelper.ts:11`) | Gemini is sent the result of a function under the id of its call |

Races that the models contain and no run is spent on: two resends both pass the
cooldown check before either arms it (`resend-otp/route.ts:19`); overlapping
checks of a bucket count before either adds, and are all admitted
(`docs/api/API.md:75`). `OverAdmissionBounded`, `AdmissionsBounded`,
`LateResendRefused` state what remains true beside them.

Other statements that the code contradicts. The models contain each of these
behaviours, so the statement itself fails in them; the properties that pass state
what is true beside it, with the case named as an exception.

| statement | what the code does |
|---|---|
| "We drop entries older than the window, count what remains" (`rateLimit.ts:8-9`) | the TTL may run out between ZADD and EXPIRE (`rateLimit.ts:68-69`) and takes a new entry with it: its request was admitted and is not counted |
| "Never throws" (`modelCache.ts:57`) | on a cold cache (`modelCache.ts:70`) a failed save (line 121) is thrown at the reader |
| "Blocks marked `is_error` are skipped" (`compress.rs:6`, `lib.rs:15`) | the output of a Responses call is compressed whatever its flag (`compress.rs:56`) |
| "only ever touches `tool_result` blocks" (`rtk.ts:10-11`, `compress.rs:3-5`) | the walk (`compress.rs:78`) rewrites an object in a call's arguments that has the form of a tool message |
| the child has a timeout of two seconds (`docs/RTK.md:401`) | when a pipe fails the timer is cleared and the child left running (`rtk.ts:124`) |
| "fall back to the timeout" (`base.ts:236`) | without `AbortSignal.any` it falls back to the caller's signal (`base.ts:240`), and nothing else ends the request |
| RTK packs a text "without dropping information the model relies on" (`lib.rs:6-8`), a wrong guess is safe (`autodetect.rs:4-6`) | a document that quotes a diff or a status, or a log that names webpack, is given to the wrong filter (`autodetect.rs:72-105`) and loses the lines it does not keep |
| "Decimals with 3+ fractional digits" are rounded (`caveman.rs:14`, `docs/RTK.md:303`) | so are two parts of an IP address: 192.168.1.1 becomes 192.17.1.1 (`caveman.rs:21`) |
| the result of a build is kept (`build_output.rs:1-2`) | "Compiled successfully" and then "Failed to compile." gets the summary OK (`build_output.rs:76`) |
| what changed is kept (`git_diff.rs:4-6`) | a removed line whose text begins with `-- ` is taken for a header (`git_diff.rs:34`) |
| "Anthropic requires budget < max_tokens" (`openai-to-claude.ts:75`) | the budget is 1024 at least, whatever the limit (`openai-to-claude.ts:77`) |

### What properties that pass leave out

Each exception is named in the property or its comment, and the property fails
without it.

Streams. The formats that cannot say how an answer ended (`OutcomeReported`);
arguments cut short by the token limit for a Gemini client (`ClientSeesWhole`);
grok, whose final message repeats its text.

Token saver (`KnownLoss`, `KnownInvention`).
- git diff: a removed line that begins with `-- ` or an added one with `++ ` is
  taken for a header and dropped; a file without hunks disappears.
- git status: unmerged entries, "diverged" and a detached HEAD are dropped; git's
  closing remark becomes an untracked file.
- git log: bodies, commits without a subject, and dates that do not parse.
- find and search lists: paths with white space; of a search list also bare names.
- build output: the lines of detail below an error; the success of a build whose
  command the text does not tell; and the success of one step is told beside the
  failure of a later one ("next build: OK" above "Failed to compile.").
- logs and documents that the detector takes for the output of a tool: exactly the
  lines of kinds the guessed filter does not keep (`Keeps`), and the summary line
  of what is taken for a build.
- logs: an address, under caveman only.
- what `smart_truncate` cut out of the middle of a long text.

Executor. With a caller's signal and no `AbortSignal.any` there is no timeout at
all (`SendSettles`), see above.

Conversations (`KnownLoss`, `Misreported`, and the comments of each property).
- thoughts reach no provider but Gemini; images do not reach Kiro, Cursor and the
  web front ends, nor addresses of images Ollama; audio reaches OpenAI only; the
  web front ends hear no calls.
- arguments that were cut off become `{}` wherever arguments are objects.
- Gemini's calls are given `call_<name>` as an id: two calls of one function
  share it, and results that come in another order than their calls are then
  confused, as with Ollama, which gets no id back.
- Kiro gets the results of all rounds with the last user turn, and the system
  text in it.
- the parallel calls of a Responses client become messages of their own, and
  OpenAI requires each to be answered before the next.
- a turn of which nothing is left goes out empty to OpenAI and Gemini.
- Gemini's STOP after calls is "stop" for other clients; Responses, Ollama, Kiro
  and Cursor do not report the token limit or a refusal; a refusal is a null
  reason for a Claude client.
- parameters: the choice of a function is lost from Gemini and Responses clients,
  and to Responses, Ollama, Kiro, Cursor and web; a Gemini client's thinking is
  not read; thinking with a limit of 1024 or less gets a budget that is not below
  the limit, see above; the effort "xhigh"
  does not turn on thinking for Claude, where "high" does.

## 4. Proofs

TLAPS proves for every value of the constants what the runs show on small ones:
any number of requests, calls and events, any threshold, limit, window and
clock. `PROJECT.json` lists the theorems; each is named here with the inductive
invariant it rests on and why that is needed.

`OtpProofs`. The types, `CodesExpire` and `AttemptsRemain` are one inductive
invariant, `TypeInv`: the types alone are not inductive, because a call at
`count` writes one more than it read, and only `CountBelow` (what it read is at
least two below the threshold, or it would suspend) keeps the stored count
below the threshold. `DeadCodesStayDead` needs `DeadInv`: the stored code is
never a retired one, no code beyond the last issue is retired or stored, and a
call about to consume holds a code that was alive when it began.
`SuspensionIsEarned` needs `ChargeInv`: there are at least as many wrong guesses
as the count any call is about to write, because that call is itself one of
them, and at least the threshold for a call about to suspend. `SerialCounting`
needs `SerialInv`: while nothing has overlapped one call runs at a time, and the
count it holds is the count stored under the code it read, less its own guess.

`SignupProofs`. `ImplementsOtp` is the refinement `UsesOtp`: one step per await of
a route is one step of `Otp` or none of its variables. It is proved from the
actions alone, without an invariant, and carries the theorems of `OtpProofs` over
to the routes (`RoutesKeepOtpSafe`). `SessionsAreVerified` needs `VerifiedInv`: a
verification that found the row verified, or has verified it, is right about it,
because nothing unverifies a row. `CooldownHolds` needs `WindowInv`: a resend
about to issue made its check in this window of the cooldown or before, and not
in this one if it is armed. `ImplementsSignup` makes the person of `PatientUser`
one of the users of `Signup`, and `HonestIsNeverSuspended` needs `HonestInv`: what
she is told to type has been mailed, and is the code in force or no code is.
That is where the order of `issueOtp` and the mail matters: a code that
overtakes its mail would be typed and judged wrong.

`RateLimitProofs`. `OverAdmission` rests on `SlotInv`: it bounds not the bucket but
the slots taken (members, and requests admitted that have not added theirs), and
that bound is inductive. `NothingForgotten` and `Admissions` rest on `MemoryInv`:
the key lives to the end of the window of every covered member in it.
`RetryAfterHonest` is arithmetic (`SecondsCover`): rounding up, for any number of
ticks per second.

`ModelCacheProofs`. `LocksHaveJobs` needs `QuietInv`: while nothing fails every
connection is active, so that the worker drops no job on the way.

`GatewayProofs`. `BodiesAreSafe` rests on `ChildInv` and `AnswerInv`: in every state of the child an exit with 0 means that
it has read the body and printed its whole answer, and the wrapper's answer is
the caller's body or such an answer, whichever of timer, exit and broken pipe
comes first. The twelve filters need no case each: `compress_block` falls back to
the text itself. That a body does not grow (`NotLonger`) is stated in the engine's
measure, with the rest of the body that is not text, because the wrapper compares
lengths in another unit.

`ConversationProofs`. `RequestsAreHeard` and `ClaudeAcceptsRequests` are about the
parameters; the second says when a thinking budget is below the limit (when the
limit exceeds 1024, and not otherwise) and which word of effort a model knows.
`RequestInv` says where they came from, and the rest is arithmetic
over all limits, ceilings and budgets (not the 35 sets of the run) and a case
for each client, provider and kind of model. `ConversationTypes` needs `TypeInv`:
when a client is to run functions, it was told no more calls than the ledger has
(`ToolsInv`), so that the call of each result is there (`RankExists`), and a turn's
number is below the length of the ledger (`LedgerInv`). That in turn rests on
what the translators do with the blocks of an answer. `AnswersArrive` says it in
full, for an answer of any length from any provider to any client: the blocks of
a type are those at some places of the answer's shape (`AtPlaces`), the pivot
keeps the words at these places (`Decoded`), the client's encoder puts them in its
own blocks (`EncodeBlocks`), and the ledger has its facts at the same places
(`FactsAre`). Endings and costs are a case for each format (`EndingTold`,
`CostTold`).

`StreamProofs` and `FoldLaws`. The longest argument: for all nine formats, both
clients, any number of events and calls and any interleaving of their fragments,
what a provider says arrives. It has four layers.
1. `FoldLaws`: a fold over an empty sequence, one element, a concatenation, and
   that it keeps what its body keeps. These need induction over a sequence's
   length; `SetInduction` takes the induction predicate as a set of numbers, so
   that no operator is needed. A loop of the source takes the laws with
   `INSTANCE FoldLaws WITH op <- ` its body.
2. `Sync(encoder, reader)`: the reader of a Claude stream is where the encoder
   thinks it is. Every operation of `openai-to-claude.ts` keeps it, and `end`
   brings the reader to `message_stop` (`EncodeKeeps`, `EndCloses`).
3. `Carried(state, message)`: the chunks so far assemble to the message, the
   Claude reader is in step and has seen it, and a Gemini client has its text
   and its encoder the calls. Each kind of chunk changes the message by what it
   says (`DeliverText`, `DeliverArgs`, ...), and each decoder emits, for each event
   it is sent, chunks that deliver what the event said and nothing else
   (`TextRelayed`, `CallRelayed`, `ArgsRelayed`, `WholeRelayed`, `FinalRelayed`).
4. `StreamInv`: while the answer streams, what was said is carried, the decoder
   knows the calls by their numbers (a Claude decoder: the block that is open),
   and a Claude client is at the call whose arguments come (`TellingInv`). The
   first alone is not inductive: arguments arrive under an index, an item or a
   block, and reach their own call, and its block, only because of the others.
What a Claude client has seen is a fold over its blocks (`ClaudeSaw`); `Tells` says
that it is the message, until the provider resumes a call: from then on the
calls come in more pieces, and only the text, the reasoning and the openness of
a call that was told are promised. `GrammarHolds`, `AssembledWhole`, `OutcomeHolds`,
`ClientWhole` and `NothingIsInvented` follow. `InOrder`, the sort by index in
`assembleChunks`, is stated by rank, so that one can reason about it.
`AssembledWhole`, `ClientWhole` and `NothingIsInvented` leave out grok, which repeats
its text at the end; the runs leave it out as a provider.

Assumptions. The theorems assume only the named assumptions of the modules, which
TLC evaluates on every run: numbers are numbers, sets of calls finite and
disjoint, `Nobody` is not a request, there is a connection, statuses are HTTP's,
blocks have the fields a block has (`BlockAssumption`), parameters those of a
client's request (`AskShape`), answers are sequences of texts, thoughts and calls
(`Shapes`). `Signup` has no other caller of `clearOtp`
(`OtherFlows` is FALSE there), and its theorems say nothing of one.

Theorems of no run: `AttemptsRemain` (an answer "invalid" leaves an attempt),
`AnswersWhole` and `TextsKept` (the parts of `SafeBody` that no other conjunct
repeats), `ClaudeAcceptsRequests` (the first part of `RequestIsLegal`),
`ImplementsSignup`, `RoutesKeepOtpSafe`, and `Invariance` of `StreamProofs`.

Model-checked only.
- Liveness (`SignupSucceeds`, `CacheConverges`, `CompressAnswers`, `SendSettles`):
  it needs ENABLED, which the prover does not have.
- `FaithfulText`: what twelve filters make of every text, for texts of any length.
- `Conversation`'s `ProviderHearsAll`, `HeardInOrder`, `ResultsFindTheirCalls` and
  the rest of `RequestIsLegal`: they fold over histories of any length through two
  translators, and compare with what was said at the beginning.
No module declares a RECURSIVE operator.

## 5. Plan

1. Done: the modules above and the theorems of section 4.
2. Proofs: the parts of `RequestIsLegal` that hold turn by turn, then what a
   provider hears of one turn of the history.
3. `Rtk`: `compress_request` leaves what `walk` does not reach; the laws of the
   filters that are one pass over the lines.

## 6. Not modelled

Pages, e-mail templates, the database schema, deployment scripts and provider
tables (`config`, the URLs and headers of single executors) have no behaviour to
check. Log-in, log-out, `me` and the request guards read once and answer.
Cryptography and password hashing are taken as working; of single sign-on only
the upsert of the account is modelled, because its flow state is taken with
GETDEL, in one command. The HTTP of the live model resolvers appears as its
outcome. `parseSSE` splits bytes. Of a tool's definition the requests carry
whether there is one, not its schema. `extractUsage` of the executors and the
token refresh hook have no caller in the repository. Stopping and restarting
the refresh worker is not modelled, because nothing in the repository does it.
Rates (how often clients ask, how long answers take) are not modelled.
