# A TLA+ model of wa-voicenote-triage

The program is a WhatsApp bot. A user sends a voice note; the bot transcodes
and stages it, and asks for context. The next text (or `skip`) has the note
processed by a speech model and answered with a transcript, a summary and a
suggested reply. A second voice note replaces the first.

Paths below are relative to `src/wa_voicenote/` unless they start with `docs/`,
`infra/`, `tests/` or `.github/`.

## 1. The system

```
Twilio --POST--> main.py route --await--> WebhookHandler.handle
                                             |-- StateRepo   (convstate table: one row per phone)
                                             |-- BlobRepo    (audio-staging container)  <-- lifecycle rule, 24 h
                                             |-- media fetch, ffmpeg
                                             |-- AoaiClient  (one model call, one stricter retry)
                                             '-- TwilioClient (sends, <= 3 attempts)
```

| Part | State | Operations | What makes it correct |
|---|---|---|---|
| `StateRepo` (`state_repo.py`) | one entity per phone: state, blob URL, start of the wait, ring of recent MessageSids | `get_state`, `set_state`, `check_and_record_sid`; the last two read, await, and write back | a row awaits context iff it has a note and a start time; the ring is bounded and repeats nothing; a replay is absorbed |
| `WebhookHandler` (`handlers.py`) | none of its own; the stack of each request | allowlist, SID gate, passive timeout, four transitions, try/except/finally around the model call | every accepted message is answered; a note is answered once; no row is left pointing to nothing; no blob is left that nobody points to |
| `BlobRepo` (`blob_repo.py`) | the container | upload under a fresh name, download, delete (404 absorbed) | a blob goes only by a request that read it in the row, or by age |
| lifecycle rule (`infra/main.bicep`) | - | delete after a day | cleans what the code leaves |
| route, lifespan (`main.py`) | `app.state`: four shared clients | startup, signature and form, `await handle`, 200 whatever happens; client disconnect; shutdown | Twilio is asked to retry exactly what was not handled; no client is closed under a request; every client is closed |
| signature (`twilio_signing.py`) | - | reconstruct the public URL, compare | what Twilio signed is taken wherever the proxies announce what they changed |
| `/diag` (`diag.py`) | - | bearer, token, three pings in turn | an outage or a refusal is a verdict, true of the service, and not a failure of the endpoint |
| `AoaiClient` | - | post, parse, at most one stricter retry | at most two calls; HTTP errors are not retried |
| `TwilioClient` | - | post, retry on 429 and 5xx | at most three posts per chunk |
| `transcode_to_wav` | one subprocess | communicate with a timeout, kill, wait | no process is left behind; it ends |
| `_chunk_message` | - | split a body under the limit | pieces in order, within the limit, nothing but blanks lost, no word that fits a chunk broken |
| `config.py`, `observability.py` | cached settings; a run-once flag | validation, logging | - |
| deploy pipeline (`.github/workflows/deploy.yml`) | the live revision | capture, update, smoke, roll back | a failed smoke test ends on a revision that served before |

### What is hard

* **Unlocked read-modify-writes.** `set_state` and `check_and_record_sid` read
  the entity, await, and write all of it back without an ETag. A write between
  the two is lost: a SID, a staged note or a reset.
* **A long critical section without a lock.** From the dispatch of a text to
  the reset in the `finally` block minutes may pass (model call, sends); the
  row still says `awaiting_context`, and another webhook may act on it.
* **Faults between two services.** Table, container, model and Twilio share no
  transaction. A call may have had its effect although its answer is lost, and
  the process may die at any await.
* **Redelivery.** Twilio may deliver a MessageSid again, while the first
  delivery is still running or long after it left the ring.
* **A process that comes and goes.** The Container App scales to zero: startup
  builds nine things of which any may fail, and shutdown meets requests
  suspended on the clients it is about to close, and on subprocesses that may
  hang.
* **Time.** The passive timeout is only evaluated when a message arrives and
  only changes the record in memory; the lifecycle rule deletes behind it.

Each hazard is in `PROJECT.json` at its line, with the properties that would
catch it.

## 2. Modules

| Module | Models | Correspondence |
|---|---|---|
| `StateRepo` | pure half of `state_repo.py` | `BuildEntity`/`EntityToRecord`: the stored entity and the record, with `""` for `None`; `IsKnownSid`, `AppendSid`, `RecordedEntity`: `check_and_record_sid`; `SetStateEntity`: `set_state` |
| `Handler` | `handle` and every helper it awaits, over table and container | one request per delivery; `pc[r]` is the await it is suspended at; an action is the effect of the awaited call and the code up to the next await |
| `Conversation` | what a phone is promised | notes staged, replaced, released; messages taken up at most once per window |
| `TextReply` (with `Parts`) | `_handle_awaiting_text` again, one HTTP exchange at a time: `aoai_client.py`'s `process`, `twilio_client.py`'s `send_text`, `_send_chunked`, `except` and `finally` | `pc` is the exchange awaited; `part` the chunk being sent, `attempt` the loop variable of `send_text`, `error` the exception on its way |
| `Answer` | what the user may see of it | the messages in order, copies bounded; or the apology |
| `Chunker` | `_chunk_message`, a turn of its loop at a time, and the marker of `_send_chunked` | a body is a sequence of kinds of character; `remaining`, `chunks` are the code's variables |
| `Transcoder` | `transcode_to_wav` and its ffmpeg, any number of calls at once | `call[c]` is the await, `process[c]` the subprocess |
| `Service` (with `Transcoder`) | one process: `main.py`'s lifespan and route, `twilio_signing.py`, `diag.py` | `phase` is how far uvicorn has the process, `session` the shared clients, `at[r]` the await of a request |
| `MCHandler`, `MCChunker`, `MCService` | constants for TLC | phones of the messages; the bodies; the ways from Twilio to the app |
| `StateRepoProofs`, `HandlerProofs`, `NoteProofs`, `SerialProofs`, `SerialNoteProofs` (each extends the one before), `TextReplyProofs`, `ServiceProofs`, `ChunkerProofs` | lemmas, theorems | section 5 |

### How `Handler` reads the code

* asyncio switches only at an `await`, so the code between two awaits is one
  atomic step. The snapshot a read-modify-write works on (`snap`), the note of
  the dispatch (`work`) and the instant of the dispatch (`now`) are the locals
  that live across an await. The text of a message, its audio and the results
  are not told apart.
* `CheckSid`/`RecordSid`, `NoteRead`/`NoteWrite` and `ResetRead`/`ResetWrite`
  are the two halves of the three read-modify-writes; `LoadState` is
  `get_state`.
* An awaited call may raise before its effect (`CallLost`) or after it
  (`Return`'s second disjunct). Inside the `try` of `_handle_awaiting_text`
  (`TryBlock`) an exception goes on to the `finally` block with `pending` set;
  elsewhere, and in the `finally` block itself, it ends the request, as the
  route logs it and answers 200. Only `AoaiError` is apologised for
  (`ProcessRaisesAoaiError`, `Apologise`); `BlobNotFoundError`
  (`DownloadFindsNothing`) and transport errors are not.
* `Crash` ends a request without its `finally` block. `Deliver` posts any
  message at any time, again or for the first time.
* A blob is named after the request that uploads it: the code's name, the
  phone's hash and the microsecond of the upload, is the request's own. Hence
  `Requests == Notes`. The row keeps the blob's URL, from which the handler
  recovers the name; the two are one here.
* `sent` records the kinds of message sent in full. How a result is sent in
  chunks, and how a send or a model call is retried, is one step here and the
  subject of `TextReply`.
* The `else` branch of `handle` (an unknown state) cannot be reached:
  `set_state` rejects unknown states. Its parser, and the asserts that
  narrow types, are left out.

### How `TextReply` reads the code

`Handler` shows one text request among others; `TextReply` shows one alone, but
each of its exchanges with every outcome the clients tell apart, without a bound
on how many go wrong. The model call ends in an answer, in an `AoaiParseError`
(once more with the stricter prompt, then raised), in an `AoaiHttpError`
(raised), or in an exception that is no `AoaiError` (a body that is not JSON, the
transport). A post to Twilio is accepted, is refused for good (`SendFails`: 4xx,
an unreadable body, no answer), or is to be repeated (`SendBusy`: 429, 5xx); in
the last two cases Twilio may have taken the message all the same. What
reaches the user is `seen` and `copies`; `Answer` says what they may be.

### How `Service` and `Transcoder` read the code

* `Service` leaves the handler's own doings to `Handler`. What it keeps of them
  is that a webhook may transcode (`Transcodes`), and that it ends in a return
  or an exception at any time, the latter for certain if the transcoder raised.
* uvicorn is external: it starts the lifespan before the first request, takes
  no request after SIGTERM (`Terminated`), lets those under way finish
  (`Drained`; the deployment sets no limit on that wait) and only then ends the
  lifespan. A kill needs no action: it is a behaviour that goes no further, and
  no property but `ShutdownEnds` asks for more.
* `Build` lists what the lifespan constructs, in order; each may raise, and
  `StartFails` leaves what was built before it as it is. Whether a client that
  was built already holds a socket is up to its library: "open" means built and
  not closed. `Closes` is one `close` of the `finally` block, which may raise
  and so skip the rest.
* A path is one way from Twilio to the app: the URL that Twilio posts to and
  signs, the URL the app sees, and the `X-Forwarded-Proto` and `-Host` it sees,
  if any. `AllPaths` has every combination of two schemes and two hosts, also
  those in which a header lies or is missing: what the proxies do is not up to
  the code. `PublicUrl` is `_reconstruct_public_url` with its fallback to
  `request.url`, because of which a webhook whose URL a proxy changed without
  an `X-Forwarded-Proto` is refused, as `tests/test_twilio_signing.py:252-266`
  asserts. `GenuineVerdict` says both: what is taken, where the proxies announce
  what they changed (`Announced`), and what is not. A signature is missing, not
  ASCII, someone else's, or Twilio's over the public URL.
* A ping meets one of four things (`Encounters`): the service serves, refuses
  (400 to 499), fails (500 and above, or no answer), or the call raises what
  `diag.py:78`, `105` and `122` do not catch, which are `httpx.HTTPError` and
  `AzureError` only. `PingsService` is any of the three pings in the first three
  cases; the verdict is `Ok`, by which a refusal of the model endpoint is a sign
  of life and one of the storage is not. `PingStrays` is the fourth: nobody
  catches it and FastAPI answers 500, as it does in `GetsToken`. `met` is not in
  the code: it records what each ping met, so that `OutagesReported` can say that
  the verdicts are true.
* ffmpeg ends when it likes, or never (`FfmpegExits` is under no fairness). A
  timeout may fire although ffmpeg has just exited; asyncio then ignores the
  `kill()`, or raises `ProcessLookupError` in place of the timeout. In either
  case the call raises.

### How `Chunker` reads the code

* Characters are told apart as far as the code does: sentence-ending
  punctuation, space, newline, another blank (stripped, but no place to split),
  the rest.
* Positions count from 1, and `LastOf` is 0 where `rfind` is -1; a cut at
  Python's position 0 or -1 is `last <= 1` and becomes a hard cut.
* Every body starts with a label of the settings (`handlers.py:350`), hence
  with a character that is no blank (`BodiesAssumption`; a label set to blanks
  only would void it, and an empty chunk could then be sent).
* `starts` is not in the code: it records where in the body each chunk begins,
  so that `NothingLost` and `WordsKept` can say which part of the body a chunk is
  and what lies between two of them. `WordsKept` looks at each chunk on its own:
  the next one is divided from it by a space or newline (`Spaced`), or it begins
  with a run longer than a chunk (`StartsTooLong`).
* `". "`, `"? "` and `"! "` never decide a cut: the space after the stop is
  itself a separator, one position further right. They are kept as in the code.

## 3. Runs

| Run | Question | Checked |
|---|---|---|
| `handler_concurrent` | What survives any overlap of two requests of a phone, with one fault? | `TypeOK`, `RowCoherent`, `RingSound`, `NoteProvenance`, `DeletedOnlyByReader` |
| `handler_serial` | What holds while a phone has one request at a time, with one fault, the timeout and the sweep? | `ReplayAbsorbed`, `NoteAnsweredOnce`, `DanglingOnlyByReplacement`, `OrphanOnlyByTimeout`, `NotesNotDropped`, `RefinesConversation` |
| `handler_live` | Does every delivery end, and every accepted message get an answer? | `AcceptedIsAnswered`, `DeliveryEnds` |
| `text_reply` | What does the user see of an answer, whatever fails? | `TypeOK`, `AnswerComplete`, `AoaiErrorIsTold`, `RefinesAnswer`, `Terminates` |
| `chunker` | Is every text split into messages that Twilio takes, nothing lost, and no word torn that fits? | `MessagesFit`, `NothingLost`, `WordsKept`, `NoEmptyChunk`, `LoopShrinks` |
| `service` | Do requests, probes, subprocesses and the life of the process keep out of each other's way? | `TypeOK`, `NoUseAfterClose`, `StopsClosed`, `AnswerMatchesHandling`, `GenuineVerdict`, `OutagesReported`, `NoProcessLeft`, `ShutdownEnds` |
| `doc_non_json` | Is a non-JSON response of the model retried, as `aoai_client.py:5` says? | violated: `NonJsonIsRetried` |
| `doc_retry_race` | Does the ring absorb an overlapping retry, as `docs/PLAN.md:618` says? | violated: `ReplayAbsorbed` |
| `doc_discard_error` | Is an error from the discard non-fatal, as `handlers.py:314` says? | violated: `DiscardErrorsAreNotFatal` |
| `doc_transcode_error` | Is the user told of a transcoding error, as `docs/PLAN.md:636` says? | violated: `TranscodeErrorIsTold` |
| `doc_paragraphs` | Are paragraph breaks preferred, as `handlers.py:109` says? | violated: `ParagraphsFirst` |
| `doc_partial_start` | Does a startup that fails close what it built, as `main.py:52` says? | violated: `PartialStartReleases` |

The split between the first two runs is the point of the model. `state_repo.py:23`
concedes that concurrent messages of one phone race and relies on one user at a
time. Every property of `handler_serial` is indeed violated with
`MaxInFlight = 2` and no fault, whereas those of `handler_concurrent` hold at
any overlap: what the code needs serial use for, and what it does not.

### Bounds

| Bound | Value | Enough for |
|---|---|---|
| `MaxInFlight` | 2; 1 in the serial runs | a read-modify-write of one request inside another's; three would add no new pair of reader and writer |
| `Notes` (deliveries) | 3; 4 serial | a message, its replay and two others between: with a ring of 2, the eviction and the acceptance of an evicted SID; a note, its replacement, a text and a replay of it |
| `Messages` | two voice notes, one or two texts, one of a second user, one of a phone not on the allowlist | both kinds in both states, a note asked about twice, isolation of phones, the gate |
| symmetry | messages of one phone and kind | sound: no definition orders them or names one; not used for liveness |
| `RingSize` | 1 and 2 | a full ring, eviction |
| `MaxFaults` | 1; 0 in the retry race | every await, before and after its effect, and every crash point |
| `MaxChunks` | 2 | results of one chunk and of several; the theorems hold for any number |
| `MaxRetries` | 2 | the code's own default |
| `MaxLength` | 6 | all texts of up to six characters over the five kinds: every pattern of separators and blanks around one cut, at limits 1 to 3 (no reserve) also around several |
| `Period`, `LongLength` | 4, 45 | the limits around the reserve: 16 (a budget of 16), 17 (1), 18 (2) and 21 (5); 45 characters make over nine chunks and thus two-digit markers |
| `Calls`, `Probes` | 2, 1 | two webhooks at different points, both transcoding, and a probe between them; what one request does to another goes through `phase` and `session` only. The theorems hold for any number |
| `Paths` | five of the 144 | one for each branch of the reconstruction: the Container Apps ingress (`X-Forwarded-Proto`, the host is the public one), a proxy that sends both headers, and three whose changes it cannot undo: only `X-Forwarded-Proto`, only `X-Forwarded-Host`, none. `SignatureJudged` is for any of the 144 |
| `MaxTime`, `ContextTimeout`, `BlobTTL` | 2, 1, 1; no time in the concurrent runs | `elapsed > timeout` and the sweep, before and after each other |

A request is in a quiet final state after at most a dozen steps, so no bound on
steps is needed; deadlock is checked, with `Finished` for the state in which
every delivery has ended.

### Fairness

`FairSpec` assumes weak fairness of each request's own next step. The event
loop resumes every task whose call returned, and calls do return: httpx and
ffmpeg carry timeouts, and the Azure SDK has its own. `TextReply` assumes
the same of its one request. `Service` assumes it of each webhook and each
probe once it is received, and of uvicorn's shutdown. For a request suspended on
ffmpeg this is the timer of `wait_for` (30 s) and, after the kill, the kernel's
reaping; ffmpeg itself owes nothing. For a request at `form` the code has no
timer: `await request.form()` ends when the body has arrived or the connection
is gone, so that fairness there rests on the client and on the ingress, which
does not hold a stalled connection open for ever. `ShutdownEnds` is to be read
with that. `Chunker` needs no fairness: `LoopShrinks`
bounds the loop by the length of the text. Nothing is assumed of deliveries, faults, time or the sweep.

`AcceptedIsAnswered` excuses a missing answer by a fault from the moment the gate
let the message through, not by an earlier one, since a failed call really leaves
the user without an answer; or by the note asked about being gone (`NoteGone`), in
which case the code is silent.

## 4. Where code and documents part

Six are runs (section 3) and listed under `findings`. Others were met and are
not worth a run:

* `docs/PLAN.md:725` has the passive timeout reset the row and discard the
  blob; the code does neither, and its tests assert what the code does.
* `main.py:195` says that the ring absorbs the retry after a client disconnect;
  at that point no SID is recorded, so the retry is handled as new - which is
  what is wanted.
* `blob_repo.py:97` says that a retry overwrites the same name; the name holds
  the instant of the upload and differs.
* `config.py`'s message for a timed-out note is never sent.
* `twilio_signing.py:100` says that any failure raises a 403; a signature header
  with a non-ASCII character raises `UnicodeEncodeError`, hence 500, and a body
  that is no form is answered with 400.
* `handlers.py:116` says that each chunk leaves room for the marker; with a limit
  of 16 or less it leaves none. Settings accept such a limit; the default is far
  above.
* `/diag` answers 500 if the token for the model cannot be had: the outage of the
  identity endpoint is the one it does not report. It also does if a ping raises
  anything but an `httpx.HTTPError` or an `AzureError` (a URL that httpx cannot
  parse, say), whatever the pings before it found.
* A genuine webhook behind a proxy that changes the URL and sends no
  `X-Forwarded-Proto` is refused. This is no divergence: the docstring of
  `_reconstruct_public_url` gives the fallback for local use, and
  `tests/test_twilio_signing.py:252-266` asserts the 403.

## 5. Proofs

`HandlerProofs` proves, for any messages, phones, ring size, overlap, faults
and clock (assumptions: `RingSizeAssumption`, `AbsentAssumption`,
`NoneAssumption`, `HandlerAssumption`, which say that the ring has room for an
entry, that `""` and `None` are no values, and that the constants have their
types):

| Theorem | States |
|---|---|
| `TypeCorrect` | `Spec => []TypeOK` |
| `RowsCoherent` | `Spec => []RowCoherent` |
| `RingsSound` | `Spec => []RingSound` |

*Why an invariant is needed.* A row is written from a snapshot that may be
stale, so that the table is sound says nothing of the next write. `RowInv` says
it of the snapshots too: every entity in the table **or in a request's hands**
is coherent and has a sound ring, and a request about to record its SID read a
ring without it. The last conjunct is what keeps an append from repeating a
SID; it holds because the check and the append work on the same snapshot,
however old. `StateRepoProofs` has the facts about the pure operators: the
exchange of `""` and `None` round-trips (`BuildThenParse`), the ring after an
append is bounded and injective (`AppendSidRing`), and what the two entity
builders keep. `HandlerProofs` has one step per action, most of which only move
control (`QuietStep`), take a new snapshot (`ReadStep`) or write one back
(`WriteStep`).

`NoteProofs` adds, from the same assumptions and still for any overlap:

| Theorem | States |
|---|---|
| `NotesAreTheirPhones` | `Spec => []NoteProvenance` |
| `OnlyReadersDelete` | `Spec => []DeletedOnlyByReader` |

The note in a row comes from a request's snapshot or is its own upload, and what a
request deletes comes from its snapshot, so `NoteInv` must speak of all
three. `NotesOwned`: a note in a row, in a snapshot or in a request's hands was
staged by its phone. `StagesOK`: what a request may hold at which await, in
particular never its own upload as the note to discard. `OwnNoteUnstaged`: a
note is staged only by its `NoteWrite`, so that nobody has read it before.
`DeletionInv` follows a blob from its upload: it is stored, past its retention,
or in the hands of a request - the sweep deletes by the age of the blob, which is
no older than the dispatch the retention is counted from. `Effect`
says what a step of a request does to table, snapshot, container and note in
hand (`StepEffect`, action by action); `EffectOwned`, `EffectStages` and
`EffectHeld` draw the conclusions.

`SerialProofs` proves, from the same assumptions and `MaxInFlight = 1`:

| Theorem | States |
|---|---|
| `ReplaysAbsorbed` | `Spec => []ReplayAbsorbed` |
| `HandlerImplementsConversation` | `Spec => RefinesConversation` |

`MaxInFlight = 1` is a real hypothesis: `doc_retry_race` violates
`ReplayAbsorbed` without it. From it follows `OneAtATime`, the first part of the
invariant `SerialInv`. The others say what one request at a time buys: the
snapshot a request is about to write back is the row it will replace
(`SnapshotsCurrent`); the ring of a row is the newest part of what its phone had
taken up (`RingsRecent`), so that a SID the ring does not know was taken up at
least `RingSize` messages ago, or never; and a request has not staged its own
note before its `NoteWrite` (`OwnNoteUnstaged`), which makes that write a
staging or a replacement. Each action is then a step of `Conversation` or a
stutter, faults included.

`SerialNoteProofs` adds, for `MaxInFlight = 1` again:

| Theorem | States |
|---|---|
| `NotesAnsweredOnce` | `Spec => []NoteAnsweredOnce` |
| `DanglesOnlyReplaced` | `Spec => []DanglingOnlyByReplacement`, if `ContextTimeout <= BlobTTL` |
| `OrphansOnlyTimedOut` | `Spec => []OrphanOnlyByTimeout` |
| `NotesNeverDropped` | `Spec => NotesNotDropped` |

`SerialNoteInv` ties the request under way to the row and the container. Its
parts, and what fails without each:

* `FreshAtDispatch`, `HoldsRowNote`: the row dispatched on is still the phone's,
  and the note being answered or discarded still the row's until the reset; else
  the reset could drop a note nobody answered.
* `InOrder`: the request under way is its phone's latest, so that its note is
  later than the one it replaces.
* `SinceItsDispatch`: a row awaits context since the dispatch of its note; it
  links the passive timeout, which reads the row, with the retention, which
  counts from the upload. With `ContextTimeout <= BlobTTL` a row in time is one
  whose blob the sweep has spared. That is a hypothesis of `DanglesOnlyReplaced`
  and of no other theorem: the validators of `config.py` accept any positive
  timeout, while the container keeps blobs for a day. The default timeout is far
  below that.
* `ReplacesSpent`: a new note is staged over none, a deleted one or one past its
  timeout, so that a replacement leaves no orphan but by timeout.
* `NotesBacked`: the note of a row is stored, past its retention, or was taken by
  a voice note; any other deletion comes after the reset.
* `AnsweredLetsGo`: without faults, whoever sent the transcript is about to reset
  the row or the row has let go of the note; hence no second answer.
* `StoredAccounted`: without faults a stored blob is its row's, past its timeout,
  not yet staged by its own request, or about to be deleted.

TLC checked the whole invariant on the instance of `handler_serial` before it was
proved. A step is looked at twice: where it takes its request (`Way`, `FaultWay`)
and what it does to notes (`NoteEffect`); each part then follows from the two.

`TextReplyProofs` proves, for any number of chunks and retries:

| Theorem | States |
|---|---|
| `ReplyTypes` | `Spec => []TypeOK` |
| `ReplyImplementsAnswer` | `Spec => RefinesAnswer` |
| `CompleteAnswers`, `ErrorsTold` | `AnswerComplete`, `AoaiErrorIsTold` always |

Its invariant `ReplyInv` ties the message being sent to what the user has: it is
the first and the user has nothing, or the user has it already, no more often
than it was tried (`Tried`), or it follows what the user has. From it each post
is a step of `Answer` (`PostStep`).

`ServiceProofs` proves, for any number of webhooks and probes and any set of
ways to the app (assumptions: `ProbesAssumption`, webhooks and probes are
disjoint; `PathsAssumption`, the ways are among `AllPaths`):

| Theorem | States |
|---|---|
| `ServiceTypes` | `Spec => []TypeOK` |
| `ClientsOutliveRequests` | `Spec => []NoUseAfterClose` |
| `ShutdownCloses` | `Spec => []StopsClosed` |
| `AnswersMatch` | `Spec => []AnswerMatchesHandling` |
| `SignatureJudged` | `Spec => []GenuineVerdict` |
| `ReportsComplete` | `Spec => []OutagesReported` |
| `ProcessesEnd` | `Spec => []NoProcessLeft` |

`ServiceInv` has a part for each. `PhaseInv`: while the process serves or
drains, all clients are open; at any other time no request is under way.
Neither half is inductive alone, as the second one is what lets the lifespan
close a client. `ProcessInv`: a process runs only while its call is at
`communicate`, so that no other await can be left with one running.
`WebhookInv`: a webhook gets to the handler only if its signature is good for the
URL the code puts together, and one that is good is not answered with 403;
`UrlRestored` then says on which ways that URL is the public one. `ProbeInv`
counts the pings a probe has behind it, each with a true verdict as long as it
goes on. `LifespanStep`, `WebhookMoves`, `ProbeMoves` and `CallMoves` say
which part a step can disturb.

`ChunkerProofs` proves, for any bodies that start with a label and any positive
limits (`BodiesAssumption`, `LimitsAssumption`):

| Theorem | States |
|---|---|
| `LoopEnds` | `Spec => LoopShrinks` |
| `ChunksShowSomething` | `Spec => []NoEmptyChunk` |
| `TextIsKept` | `Spec => []NothingLost` |
| `WordsAreKept` | `Spec => []WordsKept` |
| `MessagesWithinLimit` | `Spec => []MessagesFit` for texts of less than a million characters |

The loop ends because a cut takes at least one character (`CutFacts`: a cut at
the first position becomes a hard cut), and a chunk is not blank because what
remains after `lstrip` starts with something to show, which `rstrip` then cannot
strip away. The bound of `MessagesWithinLimit` is exact: 16 characters of reserve
are `(i/N) ` with six digits twice.

For the text itself, `CutIsTurn` describes a turn by two positions of the body:
the chunk is what the body has from the first on, what remains is what it has from
the second on, and between the chunk's end and the second all is blank
(`RStripFacts`, `LStripFacts`). `PlacesInv` says of all chunks so far what
`NothingLost` says (`InPlace`, `InkKept`), and that the last one ends where the
remaining text begins or before. For words, `CutFacts` shows that a cut is at a
space or newline - the stop separators never decide it - or that the
window has none. In the latter case the next character is one, and is then among
the blanks that `lstrip` removes, or the chunk begins with a word too long for any
chunk, and the break is in that word.
`WordsInv` has to say so of the last chunk too, before there is a next one.

*Only model-checked:* liveness (`AcceptedIsAnswered`, `DeliveryEnds`,
`Terminates`, `ShutdownEnds`), which is beyond the prover. Every other property
of a passing run is a theorem; those of `handler_serial` have `MaxInFlight = 1`
as a hypothesis, as the run does.

## 6. Plan

In this order; all are done.

1. `StateRepo`, `Handler`, `MCHandler`: the row, its races, faults and time;
   `RowInv` proved.
2. `Conversation` and its refinement by `Handler`, by TLC.
3. `TextReply` and `Answer`: the text path at the granularity of HTTP calls,
   with the refinement proved.
4. Proof for `MaxInFlight = 1`: the serial invariant, hence `ReplayAbsorbed`
   and the step simulation of `Conversation`.
5. `Chunker`: `_chunk_message` at and below the reserve, with the end of its loop
   proved.
6. `Transcoder`: exit, timeout, kill and wait.
7. `Service`: startup, shutdown, signature, disconnect, the answer, `/diag`; its
   safety proved.
8. Proof of `NoteProvenance` and `DeletedOnlyByReader` for any overlap, and of
   `NoteAnsweredOnce`, `DanglingOnlyByReplacement`, `OrphanOnlyByTimeout` and
   `NotesNotDropped` for `MaxInFlight = 1`.
9. Proof of `NothingLost` and `WordsKept` for any text and limit.

What could be added: a bound on the steps of `TextReply` from which its
end follows without fairness of the network.

## 7. Not modelled

* The deploy pipeline. It is a sequence of `az` calls: what a revision list
  returns, when the old revision stops serving and what a traffic weight means
  depend on the Container App's revision mode, which Azure defines and the
  repository does not. A model would be one of the platform.
* Observability: logging and exporters. Its run-once flag has a single caller.
* Settings beyond the ranges that are the assumptions on the constants.
* The HMAC, JSON and Edm encodings, audio, prompt and reply texts, latencies,
  provisioning.

## 8. Running

```
tlc -workers 2 -config handler_serial.cfg MCHandler
tlc -workers 2 -config service.cfg MCService
tlapm HandlerProofs.tla
```
