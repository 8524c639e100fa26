# A verification project for smtc-suite-go

smtc-suite-go gives Go programs the System Media Transport Controls of Windows
(watch the media sessions of other programs, control them, publish one of your
own) and the audio loopback of WASAPI. Under its packages lie a COM and WinRT
runtime written by hand: reference counts in C memory, callbacks on threads of
Windows, asynchronous operations, and goroutines pinned to one thread. That is
where it can go wrong in ways that a test hardly reaches, and that is what this
directory models, model-checks with TLC and, for the parts all others stand on,
proves with TLAPS.

Paths below are relative to the repository. Line numbers in comments of the
modules are those of the file the module's header names.

## 1. The system

| Component | Source | State | Operations |
|---|---|---|---|
| MTA worker | `internal/winrt/apartment.go` | channels `jobs`, `closeCh`, `done`; the pinned goroutine; `closeOnce` | `NewMTAWorker`, `run`, `Do`, `Close` |
| Event handler | `internal/winrt/event.go` | COM object and its count, `token`, `source`, `closed`, `inflight` under `h.mu` | `Register`, `Unregister`, `Close`, `eventInvoke` |
| Async operations | `internal/winrt/async.go` | completion handler and its count, a one-slot channel | `WaitTimeout`, `handlerInvoke`, `Release` |
| Stream references | `internal/winrt/stream.go`, `storage.go` | only locals and deferred releases | `ReadRandomAccessStreamReference`, `RandomAccessStreamReferenceFromFile` |
| Monitor | `pkg/smtc/monitor/monitor.go` | `m.sessions`, `workCh`, `managerEvents`, `m.closed`, subscriptions | `New`, event loop, refresh, updates, `Sessions`, `CurrentSession`, `Close` |
| Controller | `pkg/smtc/control/control.go` | `c.session`, `c.closed` under `c.mu` | `New`, commands, `MediaInfo`, `Close` |
| Creator | `pkg/smtc/create/create.go` | COM fields, button handler, `c.closed` under `c.mu` | `New`, setters, `ButtonEvents`, `Close` |
| Capturer | `pkg/audio/loopback/capture.go` | command channel, `frames`, `errors`, `done`, `running` | `New`, `Start`, `Stop`, `Close`, the capture loop |
| WASAPI loopback | `internal/wasapi/loopback.go`, `device.go`, `audio_client.go`, `capture_client.go` | a chain of COM objects, the mix format's memory, the lent buffer | `OpenDefaultLoopback`, `Start`, `Stop`, `ReadPacket`, `Close` |
| COM initialization | `internal/winrt/init.go`, `internal/wasapi/com.go` | a map of counts per thread, one in each package | `InitMTA`, `UninitMTA`, `InitSTA`, `UninitSTA`, `Init`, `Uninit`, `RunOnLockedThread` |
| COM calls, activation, strings | `internal/winrt/com.go`, `activation.go`, `hstring.go` | none | one foreign call each |
| STA window thread | `pkg/smtc/create/window.go` | a global thread and its queue; nothing calls it | `getSTAThread`, `do`, `Shutdown` |
| Formats and samples | `pkg/audio/types.go`, `pcm.go`, `internal/wasapi/format.go` | none | pure conversions |
| SMTC types | `pkg/smtc/types.go` | none | types, ticks to durations |
| Tables, stubs, examples | `iids.go`, `internal/winrt/smtc`, `*_stub.go`, `examples/` | none | constants; builds without Windows; programs |

How they interact. Monitor, Controller and Creator each own one MTA worker and
run every call into WinRT as a job of it. Monitor and Creator hand event
handlers to Windows, whose threads call back into them; those callbacks only put
something into a channel without blocking. A job that starts an asynchronous
operation waits for it, five seconds at most, on the worker. The Capturer has a
pinned goroutine of its own, which alone touches the loopback's objects and is
driven by a command channel. Each of these goroutines enters COM on the thread it
locked and has to leave it before the thread goes back to Go's pool.

What is hard, and what makes each part correct:

- **MTA worker.** `Do` offers a job while the worker leaves its loop; two
  channels may be ready in one `select`. Correct: every call is answered with its
  own job's result, or refused and the job never ran; after `Close` nothing runs.
- **Event handler.** An event may be delivered while `Close` removes the
  subscription and drops the object. Correct: no callback after `Close`, no use of
  a freed object, and `Close` returns.
- **Async operations.** The timer and the completion race, and the operation may
  call the handler when the waiter is gone. Correct: the outcome is the operation's
  own, the handler lives as long as anyone may call it and is freed.
- **Monitor.** Changes arrive while they are being read; the queue of work is
  bounded and drops; a refresh leaves its critical section half way. Correct: when
  all is quiet it knows what Windows has, references balance, `Close` leaves
  nothing and never sends on a closed channel.
- **Controller and Creator.** `Close` comes between the check of a method and its
  job; a timed-out command may still be carried out; `New` may fail at any of
  twenty calls. Correct: objects are used while held, results say what is known,
  nothing leaks.
- **Capturer and loopback.** Commands meet the end of the worker; any call into
  the device may fail. Correct: every command is answered, packets are read in
  order from a started device, and failures are noticed.
- **COM initialization.** A thread is counted in a map of the process and serves one
  goroutine after the other. Correct: it goes back as it came, with no entry and no
  initialization left; a goroutine is where it initialized.
- **Conversions.** Container and valid bits of a sample differ, times overflow.
  Correct: what is converted is what it is said to be, and times survive.

## 2. The modules

    MTAWorker  --implements-->  SerialExecutor  <--uses--  Controller, Creator
    EventHandler --implements--> CallbackGate   <--uses--  Creator

    CaptureStack = Capturer        + LoopbackCapture          (sound)
    StreamStack  = StreamReference + AsyncWait + AsyncWait    (thumbnails)
    Conversions  = Formats         + Ticks                    (pure functions)

In the two stacks what one module leaves open is decided by the other: the device of
`Capturer` is the chain of objects of `LoopbackCapture`, and a chain of
`StreamReference` that has an operation goes on when the `WaitTimeout` of an
`AsyncWait` has returned. Both modules keep all their actions; a stack says which of
them are one step together, and leaves no other choice.

| Module | Models | State and actions |
|---|---|---|
| `SerialExecutor` | what a caller of `MTAWorker` may rely on | `status`, `outcome`, `answer`, `stopped`; `Submit`, `Start`, `Finish`, `Answer`, `Refuse`, `Stop` |
| `MTAWorker` | `apartment.go` | one pc for the goroutine, for each `Do` and each `Close`; each channel operation and each `select` case is an action, `sync.Once` is taken and passed in two |
| `CallbackGate` | what the owner of an `EventHandler` may rely on | `active`, `over`, `phase` |
| `EventHandler_proofs` | | the proofs of section 5 |
| `EventHandler` | `event.go` | a pc per call and per delivery; the count `refs`; `h.mu` is a variable because `Register` holds it over `add_X`, all other critical sections are one step |
| `AsyncWait` | `async.go` | the waiter, the timer, the calls of `Invoke`, the count; the operation is external |
| `StreamStack` | `stream.go`, `storage.go` over `async.go` | `StreamReference` and two instances of `AsyncWait`, the first for the stream or the file, the second for the bytes; an operation may outlast its chain |
| `Capturer` | `capture.go` | the worker with its loop, a pc per caller, the two buffered channels as counts |
| `LoopbackCapture` | `loopback.go` and the files under it | one thread; `held` is the chain of objects, `mixFormat` the memory not freed, `lent` the buffer; an engine records packets |
| `CaptureStack` | `capture.go` over `loopback.go` | the two modules composed: each call into the device is carried out call by call while callers and the audio engine go on |
| `Audio_proofs`, `Monitor_proofs`, `Controller_proofs`, `Creator_proofs` | | the proofs of section 5; `Audio_proofs` is about `CaptureStack` and `Conversions` |
| `StreamReference` | `stream.go`, `storage.go` | the chains of calls as sequences (`Read`, `File`, `Uri`), walked by one set of actions that get, ask, fail, and unwind the deferred releases function by function |
| `Monitor` | `monitor.go` | Windows and its delivering threads, `enqueue`, the event loop, the job on the worker with its steps (refresh, update, current session, init, close), the owner in `New` and `Close` |
| `Controller` | `control.go` | `New` call by call; a pc per method call; the function that runs on the worker has `step`; `locked` is `c.mu` held by it |
| `Creator` | `create.go` | each function on the worker is a script of the calls it makes, abandoned at the first that fails; what has been put and what is shown are two variables, since the display changes only with `Update` |
| `ComThreads` | `init.go`, `wasapi/com.go`, and how `apartment.go`, `capture.go`, `window.go` enter COM | goroutines on threads (the specification is `ComSpec`), the maps `refs` and `entry`, COM's own count and apartment, other code that uses the same threads |
| `Threads_proofs` | | the proofs of section 5 about `MTAWorker` and `ComThreads` |
| `AsyncWait_proofs`, `StreamStack_proofs` | | the proofs of section 5 |
| `Formats` | `wasapi/format.go`, `audio/pcm.go`, `audio/types.go` | operators: parsing a `WAVEFORMATEX`, which formats are converted, the integers and classes of floats of samples |
| `Ticks` | `smtc/types.go`, `durationToReferenceTime` | operators on integers whose width is a parameter |
| `Conversions` | the same | a function is given a value and makes another |
| `MC*` | | instances for TLC |

The operators `...Forgotten`, `...Unchecked` and the like, under the heading
"Slips" of each module, are single steps with a plausible mistake in them. They
are not part of any specification; each one replaced for the step it resembles
makes TLC report the property it is listed with in `PROJECT.json`, which shows
that the property depends on that step.

What is abstracted. A session is an object, an id and a version per event; media
information and the bytes of thumbnails are left out, as is logging. A COM
call is a step that succeeds or fails; an `HRESULT` is not looked at further. A
mutex section that blocks on nothing is one step, because no other goroutine can
see its middle. `Monitor` uses the serial executor in the simpler form of one job
at a time, since its event loop is the only one that submits before `Close`. In
it Windows raises an event only when a thread is free to deliver it, so that the
number of `Threads` bounds the deliveries under way at once.

## 3. The runs

All runs use TLC's breadth-first search over the full state space, no constraint
and no symmetry. Deadlock checking is off everywhere: each program stops when all
its calls have returned, and what must not be left waiting is stated as liveness.

| Run | Instance | States | Shows |
|---|---|---|---|
| `worker` | 3 `Do`, 2 `Close`, 2 outcomes | 18 505 | answers, apartment, quiet after `Close`, everything returns, `SerialExecutor` implemented |
| `event` | 2 `Register`, 1 `Unregister`, 2 `Close`, 3 deliveries, `remove_X` may fail | 143 984 | counts, no use after free, no callback after `Close`, `Close` returns, `CallbackGate` implemented |
| `capture` | 2 `Start` or `Stop`, 2 `Close`, 2 packets, channels of one, any call of the device may fail | 640 267 | reads come from an open stream, packets in order, nothing left, failures noticed, every call returns |
| `stream` | a thumbnail of 0 to 2 bytes with a cap of 1, or a file, or its URI; 1 and 2 calls of the two handlers | 262 306 | handlers live while they may be called and are freed, true outcomes, nothing leaked or used after release, the reading ends |
| `stream_partial` (violation) | `StreamReference` alone, sizes 0 to 4, cap 3 | | finding 2 below |
| `com` | 2 threads; 2 workers, 1 capturer, 1 window, 1 caller of `InitSTA`, calls nested twice | 15 221 | threads go back as they came, goroutines are in an apartment |
| `conversions` | 7 bit depths, 5 bytes, integers of 12 bits | 27 093 | formats, samples and times are converted rightly |
| `monitor` | 2 programs, 1 thread, queue of one, cap of two sessions, 2 changes, 1 change of the current session, 1 failed call | 3 473 546 | references, closed channel, convergence of sessions and of their properties |
| `monitor_restart` | 3 objects, two of them with one id, 1 thread, cap of one session, no failed call | 524 018 | the same for a restarted player and for more sessions than the cap, `Close` returns, the work runs out |
| `monitor_init` (violation) | 1 session | | finding 1 below |
| `controller` | 1 command, 1 query, 2 `Close`, 3 sessions of which the scan sees 2 | 711 421 | section 1, and every call returns |
| `creator` | `SetMediaInfo`, `SetThumbnailFromFile`, 2 `Close`, 2 presses, buffer of one | 473 076 | section 1, and every call returns |

The properties of a run are those of its `.cfg`; each is stated in words above its
definition. A module's type invariant is the first conjunct of its accounting
invariant (`CloseQuiesces`, `RefsAccounted`, `NothingLeft`, `NothingLeaked`,
`CloseReleases`, `ThreadsGoBackClean`, `FormatsTruthful`).

### Bounds, and why they are enough

- *Calls.* Three jobs are one that runs, one that waits in the `select` and one
  that arrives late; two calls of `Close` are the one that does the work and one
  that meets it. In `capture` two commands allow start and stop in both orders, and
  the loop's own end between them. No code compares more than two calls with each
  other.
- *Deliveries.* Three: inside the callback, before it, and after `Close`.
- *Channels* of capacity one are full as soon as possible and drop soonest.
  `WorkCap`, `EventCap`, `FrameCap`, `ErrorCap` and `ButtonCap` are configuration
  values in the code.
- `Objects`: two or three sessions in a run. `Monitor_proofs` is for any finite number of
  them: a run of the program meets finitely many.
- `MaxChanges`, `MaxCurrent`: how often sessions change a property, or the current
  session changes. `MaxFailures`: how many calls of the monitor fail. One change or
  failure at every possible moment meets every step of the refresh.
- `MaxSessions` is 50 in the code: with one and with two, more sessions than that
  come and go.
- `MaxDepth`: how deep calls of `InitMTA` and `Init` nest. Two threads are the one a
  goroutine is on and the one it is moved to.
- `NumEvents` stands for the three events of a session, which the code treats
  alike; with one, a partial registration is a session with no subscription.
- `NumPackets` bounds what the engine records; the code keeps nothing between
  packets.
- `MaxList` and `ScanCap` stand for the number of sessions and for the 50 that
  `findSession` looks at: three and two, so that one lies beyond the cap.
- `MaxThumbnailBytes` is 16 MiB in the code; sizes go from none to one too many.
- `Bits`, `Byte`, `MaxInt`: the depths that occur and some that do not, bytes on both
  sides of the sign, 12 bits instead of 64. `Audio_proofs` has no such bound.
- `Configs`: a Config with none and one with all of its optional parts.

### Fairness

Every specification assumes that a goroutine which can run is run, that a mutex
or channel handed on reaches a waiter (Go's runtime queues both), and that a call
into COM returns or, where the code sets a time limit, that its timer fires.
Callbacks that have begun end, since those of this program only send to a channel
with a `default`. Nothing is assumed of Windows (it need not change anything,
answer a command or complete an operation), of the audio device, or of the
program: nobody need call a method, close, or receive from a channel. That last
point is what makes "every call returns" worth checking. Where a property says
`<>[]`, the calls are finitely many and none is made twice, so that it says the
same as an answer for each of them and is cheaper to check.

## 4. What was found

1. `monitor_init`: `init` enumerates the sessions before it registers
   `SessionsChanged` (`monitor.go:83-116`). A session that starts in between stays
   unknown until some other change raises the event, while `Sessions` is documented
   as a snapshot of all current sessions (`monitor.go:118`).
2. `stream_partial`: `ReadRandomAccessStreamReference` "reads all bytes"
   (`stream.go:25`) with one `ReadAsync` and `inputStreamOptionsPartial`, which may
   complete early; the thumbnail is then cut short without an error.

Other behaviours met while modelling, which the models contain and no property
contradicts:

- `MTAWorker.run` may start a job that waits in `Do` after `Close` signalled: its
  `select` chooses freely (`apartment.go:59`).
- `EventHandler.Close` forgets the registration when `remove_X` fails
  (`event.go:157`); the object then lives as long as the source, and `RefsAccounted`
  shows that nothing worse happens. A failed `Unregister` can overwrite a newer
  registration in `restoreRegistration` (`event.go:334`); nothing in the repository
  calls `Unregister`.
- `Capturer.Stop` that fails leaves `running` FALSE and the device started, and the
  next `Stop` is told nil (`capture.go:212-228`, also after a failed `ReadPacket`),
  while the comment has it that `Stop` stops capture (`capture.go:128`).
  `ReadsOpenStream` shows that nothing is read from such a stream.
- A second `Close` of Capturer, Monitor, Controller or Creator returns at once,
  while the first is at work. `CloseReleases`, `NothingLeft` and
  `NothingLeftAfterClose` therefore speak of the call that does the work.
- `Monitor` drops a refresh when `workCh` is full and nothing repeats it
  (`monitor.go:269`); that is why `SessionsConverge` speaks of runs in which none
  was dropped (`missed`). In the middle of a refresh that subscribes to a new
  session, `Sessions` may return a set that never existed (`monitor.go:408`). An
  object that replaces another under the same id is released, and the entry stays
  subscribed to the old one (`monitor.go:400`).
- An extensible stream of 32 bits that `parseWaveFormat` does not recognize, such as
  integers of 20 valid bits, is taken for floats (`format.go:59`); `FormatsTruthful`
  excepts it.
- A refresh sees `MaxSessions` sessions and sweeps those it knew that lie beyond
  (`monitor.go:360`); `SessionsConverge` speaks of these only when they are few enough.
- After a `SetMediaInfo` that failed between title and `Update`, the next `Update`
  publishes a mixture; `MetadataWhole` is claimed while no setter has failed.

## 5. What is proved

`Threads_proofs` proves of `MTAWorker`, for every set of jobs, closers and outcomes:

- `TypeCorrect`: `Spec => []TypeOK`;
- `AnswersAreSound`: `Spec => []AnswerMatchesRun`;
- `CloseIsQuiet`: `Spec => []CloseQuiesces`, which also says that jobs run one at a
  time, on a thread that `InitMTA` has initialized and `UninitMTA` has not left;
- `Implements`: `Spec => ImplementsExecutor`, the refinement of `SerialExecutor`.

The assumptions are those that `MTAWorker` states about its constants: `NoJob` is
no job, and `Refused` and `Nothing` are no outcomes of a job.

None of the invariants is inductive alone. `IInv` adds what each place in the code
implies: `ThreadInv` ties the thread's pc to COM, to `w.done` and to the job at
hand; `CallInv` says for each call of `Do` what its place means for its channel,
its answer and how often its job ran (in particular, a call that waits for its
answer has its job running or its error in the channel, never both); `QuietInv`
says that whoever came out of `closeOnce` has seen `w.done`. `InitIInv` and the
lemmas on `[Next]_vars`, one per conjunct with one case per action, make it
inductive (`Inductive`), and each invariant follows from it without a further step.

For the refinement the status of a job is read off its caller's pc and `current`,
its outcome from the channel and then from the answer. Every step is one step of
`SerialExecutor` or a stutter: `TakeJob` is `Start`, `FinishJob` is `Finish`,
`LeaveLoop` is `Stop`, the return of `Do` is `Answer`, the two refusals are
`Refuse`. The proof needs `IInv` where the detailed guard must give the abstract
one, e.g. that a refused job has no error in its channel.

Because `SerialExecutor` is what `Controller` and `Creator` are built on, these
proofs carry over to any number of their calls.

`EventHandler_proofs` proves, for every set of calls of `Register`, `Unregister` and
`Close` and every finite set of deliveries, whether or not `remove_X` may fail:

- `RefsAreAccounted`: `Spec => []RefsAccounted`, type correctness included;
- `SourceRefsAreAccounted`: `Spec => []SourceRefsAccounted`;
- `NoCallbackAfter`: `Spec => []NoCallbackAfterClose`;
- `Implements`: `Spec => ImplementsGate`, the refinement of `CallbackGate`.

It assumes what `EventHandler` states of its constants: finitely many registrars and
deliveries, no call that is both an `Unregister` and a `Close`, and that `NoToken`
and `NoThread` are no registrars. `IInv` adds four things to the counts. `LockInv`:
`h.mu` is held exactly by the `Register` inside `add_X`, and what it checked (open,
unregistered, object there) stays true, so that its reference to the object is one
more. `CloseInv`: one `Close` at most is past `if h.closed`, it alone drops `h.obj`,
and after it drained nothing is in flight; without it two calls could both release
the handler's own reference. `InflightInv`: `h.inflight` is the number of callbacks.
`TokenInv`: a registration has one owner, the handler or one call, and is in the
source's list, so that a release of the source is matched by an `AddRef`. The
counting itself is in the lemmas on one element added to or taken from a finite set;
each action has its lemma for the object's count and one for the source's.

`Threads_proofs` proves of `ComThreads`, for every set of threads and of goroutines and every
depth of nesting:

- `ThreadsReturnClean`: `ComSpec => []ThreadsGoBackClean`, type correctness included;
- `UsersInApartment`: `ComSpec => []InApartment`.

It assumes that the four kinds of goroutine are different and that `NoThread` is no
thread. `ComInv` says for each goroutine what its place means (`PlaceInv`), what the
maps say of its thread (`EntryInv`: an entry under a goroutine's thread is its own
package's), and that COM counts on its thread the other code's initializations and at
most one more, which is there exactly if the goroutine owes it: by what it keeps
itself, between the map and COM, or by the entry (`Owes`). The entry alone would not
do, because `InitMTA` and `UninitMTA` leave the map's lock before they call COM.
`Alone` says that no two goroutines are on one thread. With it the lemma `Frame`
reduces every step of a goroutine to what it does to itself and to its own thread;
the lemmas that follow show this for each action, and `HostKeeps` for other code.

`StreamStack_proofs` proves, for every size of the stream and every finite set of
calls of `Invoke`:

- `HandlersAccounted`: `StackSpec => []RefsAccounted`, type correctness of both waits
  included;
- `OutcomesAreTrue`: `StackSpec => []OutcomeIsTrue`;
- `ChainsLeakNothing`: `StackSpec => []NothingLeaked`, type correctness of the chain included;
- `OperationsHeld`: `StackSpec => []HeldWhileUsed`.

It assumes that the calls are finitely many, that `NoStatus` is no status and that the cap
of a thumbnail is positive. The wait
itself is the matter of `AsyncWait_proofs`, whose `WaitIsSound` says the same of a wait
alone. Its `IInv` adds to the two properties that nobody has called a handler that was
not put (`BeforePut`), so that the waiter's is then the only reference; where an
outcome can be known (`OutcomePlace`), so that no step follows on an object that was
never made; and that the channel and the waiter have the operation's one status
(`StatusInv`), which the outcome repeats. A call of `Invoke` counts for two while it is
in the handler; `CallMoves` counts for a call that goes on, `InvokeKeeps` does the rest
once for all five steps. `StreamStack_proofs` takes `AsyncWait_proofs` twice, under the
substitutions of `Open` and `Bytes`: every step of the composition is a step of each
wait or leaves it alone (`StepsOfOpen`, `StepsOfBytes`). An outcome that is there stays
(`OutcomeStays`), and the chain gets a stream, a file or bytes only by going on after
the outcome "result", which is what `OutcomeIsTrue` adds.

The last two are about the chain. `ChainInv` says that before a call the chain holds just
what is `Due`: what earlier calls got in functions that have not returned since; and while it
unwinds, a part of that. The lemma `DueNext` says how `Due` goes on from one call to the
next, `OnIsDue` that the object of a call is due before it: both are facts about the scripts,
proved call by call. The rest of `ChainInv` says what the failures, the size and the bytes
are at a place, so that the outcome follows at the end. `HeldInv` joins it to the waits: an
operation is there until its wait has returned, and from when the wait begins until then the
chain stands before a call that comes after it, with the operation in its hands.

`Audio_proofs` proves, for every set of callers, every number of packets and
every capacity of the two channels:

- `Reads`: `StackSpec => []ReadsOpenStream`;
- `Releases`: `StackSpec => []CloseReleases`, type correctness of the capturer included;
- `LeavesNothing`: `StackSpec => []NothingLeft`, type correctness of the chain included;
- `InOrder`: `StackSpec => []PacketsInOrder`;
- `EndsNoticed`: `StackSpec => CaptureEndsNoticed`, an action property;
- `StackImplements`: every step of the stack is a step of `Capturer` or leaves it alone,
  and likewise of `LoopbackCapture`. It follows that the stack adds nothing of its own.

It assumes that a call is not both a command and a `Close`, that `NoSender` is neither,
and that the channels have room for at least one item. `IInv` has three parts.
`CapturerInv` is an invariant of any `Capturer`: what each place of the worker says of
its channels, of COM and of `running`, and that a call which waits has an answer unless
it is the one at hand. `LoopbackInv` is one of any `LoopbackCapture`: which objects are
held at each place of the chain, and what the packets returned, dropped and reported
have to do with the one being read; without the latter, `PacketsInOrder` says nothing
about a packet whose buffer is lent. `Coupled` ties the two: where the chain is while
the worker opens, reads or closes, and that the engine streams exactly while the
capturer's device is started. The first two are each kept by the steps of their own
module, the steps of the stack being steps of both; only `Coupled` needs the
composition, with one case for each way in which the two move together.

`Audio_proofs` also proves, by lemmas about the functions of `Formats` and `Ticks`:

- `FormatsAreTruthful`: `ConversionSpec => []FormatsTruthful`, for every set of bit depths and
  of bytes;
- `TicksAreExact`: `ConversionSpec => []TicksExact`, for integers of every width that holds a
  hundred.

The second rests on Go's division truncating toward zero: the quotient times 100
lies between the number and 0, less than 100 from it, so that a time that fits does
not wrap. The first goes through the tags of a format and the bytes of a
sample, the sign taken from the highest.

`Monitor_proofs` proves, for every finite set of sessions, every set of ids and of
delivering threads, and every value of the bounds (queues, cap, number of changes and of
failed calls):

- `Accounted`: `Spec => []RefsAccounted`, type correctness included;
- `LeavesNothing`: `Spec => []NothingLeftAfterClose`;
- `Converges`: `Spec => []SessionsConverge`;
- `InfoConverges`: `Spec => []UpdatesConverge`.

It assumes that every object has one id for life, that the bounds are numbers and those
of queues and cap positive, and that `NoEntry`, a key's absence, is no entry. There are
two invariants, both of which TLC checked first on instances of the runs' size.

`IInv` is about what the monitor holds. `PlaceInv` and `WorkInv` say where `New`,
`Close`, `eventLoop` and the job on the worker are, seen from each other. That is how the
code excludes that two jobs overlap, and nothing in one of the four shows it alone.
`LocalInv` says that what a job keeps in locals (enumerated sessions, removed entries, the
session being updated) is gone when it ends. `EntryInv`: there is one entry for an id, in
`m.sessions` or on its way out, and a refresh reads an object once; otherwise a merge could
release a reference twice. `RefsInv` and `SubsInv` then count the references and the open
handlers of each object, `ManagerInv` those of the manager, and `GateInv` says that a
delivery inside the monitor came through a handler that is still open, so that `Close`,
which waits for it, leaves none.

`ConvInv` is about what it knows, while it is open. It has to say for every state, and not
only for the quiet ones, where the difference between Windows and `m.sessions` is.
`CoverInv`: unless something is on record in `missed`, a refresh is coming (in a delivery,
in `workCh`, or at hand before it enumerates), or the sessions that the job at hand will
leave behind (`Target`) are those it saw of what is live now. `SeenInv` says that
an id a refresh saw is known or will be, `BornInv` that it only has sessions that were. `InfoInv`: the
properties of a session that has its id to itself and is not in `lost` are current up to
events whose update is still coming, in the entry or in the hands of the job that is about
to write it. When all is quiet nothing is coming and no job is at hand, which gives both
theorems. That a refresh enumerates at most `MaxSessions` sessions is where finite sets
and their cardinalities come in.

`Controller_proofs` proves, for every set of commands, queries and calls of `Close`, every
set of ids and every number of sessions:

- `SessionHeld`: `Spec => []SessionUsedWhileHeld`;
- `OutcomesAreTrue`: `Spec => []OutcomeIsTrue`;
- `LeavesNothing`: `Spec => []NothingLeft`, type correctness included.

It assumes that a call is of one kind and that the cap of `findSession` is positive. Of the
worker it uses what `SerialExecutor` promises (`ExecutorInv`, kept by every step of an
executor; `StepOfExecutor` says that the controller takes no other), so that with
`Implements` of `Threads_proofs` it is about the controller on the real worker. `IInv`
says where a method is and where its function is (`PlaceInv`); that a function which holds
`c.mu` found the controller open and that it stays open, and that only a submitted `Close`
has closed it (`LockInv`): this is why a command, which `do` let in when `c.closed` was not
set, does not meet the session after `Close` took it. `HeldInv` gives the references at
each place of `New` and of a function, `EffectInv` what a function has done to Windows so
far: a timed-out request may still be decided, but one that was refused or found the
controller closed was never sent, whatever comes later.

`Creator_proofs` proves, for any setters of any kinds, any calls of `Close`, any presses,
every sequence of button properties and every capacity of the channel of buttons:

- `LeavesNothing`: `Spec => []NothingLeft`, type correctness included;
- `NilShown`: `Spec => []NilMeansShown`;
- `ShownWhole`: `Spec => []MetadataWhole`.

It assumes that the calls are finitely many and of one kind each, that `Nobody` is no
writer, and that there is a button and room for a press. It uses of the worker what
`SerialExecutor` promises and of the handler what `CallbackGate` promises, so that with the
two theorems `Implements` it is about the creator on the real worker and the real handler.
There are two invariants; TLC checked both on the instance of the run.

`LeftInv` is about what the creator holds. `ExecutorInv`, `PlaceInv`, `StepInv` and `LockInv`
say which function runs, what `New` and each method know of theirs, where it is, and that
whoever holds `c.mu` found the creator open and that it stays open. `FieldInv` says where
every object is: in a field, in the copies that `closeWinRT` took, or local to the function
that runs; `New` has filled the fields up to its place in the script, a function of `Close`
that is through has emptied them. `GateInv`: a callback runs only while the handler is
registered, and a registered handler is in a field, in the copies, or closed. Without it
the fields could be empty while a press is still handled. `StopInv` adds that whoever
returns has seen the worker stop.

`ShownInv` is about what the display shows. `TurnInv`: the function that runs started last,
which counts the functions that started and is why their sets must be finite. `PutInv`: a
function has put everything before its place in the script, and what a setter that returned
nil has put may since have been put again only by one that started later, in what is put
as well as in what is shown; both are needed, since an `Update` shows what others have put.
`MetadataInv`: the type, title and artist put are of one call, except while a function that
puts them is at it. What the proofs need of the scripts is stated once, call by call, in
`SetterScripts`, `MakerScript` and `Prepared`: what a setter leaves for `Update` to show it
shows with its last call, and only `New` and `SetMediaInfo` put metadata.

## 5.1 What is only model-checked

- Liveness (`CallsAnswered`, `CloseAnswered`, `EventuallyQuiet`, `ReadEnds` and the like),
  which is out of the proof system's reach, and with it `ENABLED`.

Every safety invariant that a passing run checks is stated by a theorem of section 5, and so
are the action property and the two refinements.

## 6. What is not modelled

- The STA window thread's command channel and message loop (`window.go`): nothing
  in the repository calls `getSTAThread`. How it enters and leaves COM is in
  `ComThreads`.
- The rounding of floats, 32-bit integer samples (their own value) and the text of a
  file URI.
- `QueryInterface`'s choice of interface ids, allocation failures in C, vtable
  slots and interface ids: no state that the properties could tell apart.
- `ReadPacketsFor`, which repeats `ReadPacket` and has no caller; `CurrentSession`,
  which changes nothing.
- `com.go`, `activation.go`, `hstring.go`: one foreign call each, which appear in the
  models as calls that may fail.
- Stubs and examples.

## 7. Plan

All modules of section 2 are written, and what the runs check as a safety property is
proved (section 5). What could follow, in order of what matters most:

1. `window.go`'s command channel and message loop, once something calls `getSTAThread`.
2. `findSession` and `refresh` share how a list of sessions is read; a common module would
   let `Controller_proofs` and `Monitor_proofs` share their lemmas on it.
