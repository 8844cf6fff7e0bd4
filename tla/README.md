# govka: models, checks and proofs

govka is a Go client for a VK user account: it signs in through VK ID, keeps
the session, calls the API, polls the user Long Poll and hands events to
handlers. This directory has TLA+ modules for the parts where order,
concurrency and failure decide whether it is right, configurations that
model-check them on small instances, and proofs for every size of instance.

Every definition is translated from the Go source; `PROJECT.json` names the
lines of each (`map`), the hazards at the lines where they bite, the runs, and
for each checked property a fault that breaks it. The definitions commented
`\* Fault:` are those faults: a version of the definition that follows, wrong
in a way the code could plausibly be. No specification uses them.

## The system

| component | state | operations | what makes it correct |
|---|---|---|---|
| life cycle (`govka.go` 209-330) | `connected`, the slot `cancel`/`done`, `loggedOut`; contexts and done channels of loops | `Connect`, `Disconnect`, `Logout`, `run` | one loop at a time; a loop can always be stopped; Disconnect is final and waits; `IsConnected` is true exactly while a loop runs |
| token refresh (`govka.go` 332-381, 429-458, `vkid.RefreshSession`) | `sess`, the singleflight's `wait` and `err`, the Storage, the newest pair at the server | `Token`, `tryRefresh`, `singleflight.do`, `session.Save`/`Load` | one refresh at a time; a used refresh token is not used again; the Storage keeps up; every caller is answered |
| long poll loop (`longpoll/poller.go`) | `server`, `ts` | `Run`, `ensureServer`, `refreshServer`, `poll`, `handleFailed`, `retryRefresh` | updates once, in order, no gap that the server did not cause; cancellation ends it |
| decoding and intake (`longpoll/decode.go`, `govka.go` 383-415) | the update at hand, the session's user id | `Decode`, `handleUpdate`, `hydrate` | reads the documented layout; a short update is raw or still about its subject; never a wrong sender |
| handlers (`govka.go` 157-206) | `handlers`, `nextID` | add, remove, clear, `dispatch` | every handler that stays gets every event once, in order; handlers may change the registry |
| API client (`api/client.go`, `execute.go`, `limiter.go`, `errors.go`) | the limiter's `next`; per call the attempt, the token, the slot | `Call`, `CallRaw`, `Execute`, `do`, `wait` | one message per `random_id`; no success for what was not done; spaced slots; every call ends |
| file storage (`session/storage.go`) | the file, temporary files, the mutex | `StoreSession`, `LoadSession` | an atomic register across errors and crashes |
| memory storage (`session/storage.go`) | one copy under a mutex | `StoreSession`, `LoadSession` | an atomic register by itself |
| login (`vkid/login.go`, `Flow.Exchange`) | the result channel, the context with its timer, the HTTP server | callback handler, `Login` | takes only a callback of its flow; a page that says failure belongs to a login that was denied; always returns |
| example (`examples/echo/main.go`) | the session file, the context of signals, its client with the renewals of its tokens | `main`, `loadOrLogin` | what it goes on from is in the file; a signal or LoggedOut ends it |
| parameters, PKCE, authorize URL, `Logout`, `Revoke`, `UserInfo`, API objects | none or trivial | | not modelled, see below |

How they interact: `run` calls `Poller.Run`, which calls `Decode` and, through
`handleUpdate`, the handlers on its own goroutine; `Poller` and every helper
call the API client; the API client asks `Client.Token` for the token of each
attempt, which may refresh it and dispatch `TokenRefreshed`; `run` refreshes
after an authorization failure; a refresh saves to the Storage. Handlers may
call anything of the client, `Disconnect` included. `connMu`, `sessMu`,
`handlersMu`, `singleflight.mu`, `limiter.mu`, `Poller.mu` and `File.mu` are all
held for short sections and never across a callback or a request. What goroutines
do wait for is each other: a `Disconnect` for a loop, a follower for the leader
of a flight, a handler for whatever it calls. `Client` composes these waits.

What is hard: the window between clearing `connected` and closing `done`; the
window between a loop's refresh and its reconnect; handlers that re-enter the
client, inside a flight too; a flight that runs under the context of one of
those who wait for it; a server that rotates refresh tokens while answers get lost, saves fail
and processes die; the moment at which the `ts` moves; a `select` with several
ready cases; system calls that fail half way.

## Modules

| module | models | abstract counterpart |
|---|---|---|
| `Lifecycle` (+ `MCLifecycle`, `LifecycleProofs`) | life cycle | `SingleLoop`: one loop, one handle, waiters |
| `TokenRefresh` (+ `TokenRefreshProofs`) | token refresh, with the VK ID server | `Flights`: one flight, everybody else waits for it |
| `Client` (+ `ClientProofs`) | the composition of `Lifecycle` and `Flights` | `Lifecycle`, which it implements |
| `Poller` (+ `PollerProofs`) | long poll loop, with the VK long poll server | `UpdateFeed`: each update once, in order |
| `Decode`, `WireFormat`, `Intake` (+ `MCIntake`, `IntakeProofs`) | decoding and intake; `WireFormat` is the server's layout, from the table in `docs/research` | `WireFormat` is the reference for `Decode` |
| `HandlerRegistry` (+ `HandlerRegistryProofs`) | handlers | |
| `ApiCall` (+ `ApiCallProofs`) | API client, scripts and limiter | |
| `FileStorage` (+ `MCFileStorage`, `SessionProofs`) | file storage | `AtomicRegister`, which is the memory storage too |
| `Login`, `Echo` (+ `SessionProofs`) | login; the example around it | |

### How state and actions correspond to the code

*Lifecycle.* One step is one critical section of `connMu`, one operation on a
context or a channel, or the run of something outside the module. A loop is one
execution of `run` with its context and done channel, so `slot` stands for
`cancel` and `done` together, `l \in cancelled` for its context, and
`lpc[l] = "done"` for the closed channel. Identities are reused once nothing
refers to them, which makes the state space finite without a bound on how often
the client reconnects. `held[g]` is the loop a `Disconnect` on goroutine `g`
took. Between the start and the end of a dispatch a handler may call
`Disconnect` on that goroutine (`HandlersDisconnect`); a goroutine that calls the API
may get there from any call, since `Token` dispatches TokenRefreshed. Actions: `ConnectCheck`,
`ConnectVerify`, `ConnectClaim`/`ConnectRefused`, `ConnectSpawn`; `CallDisconnect`,
`Cancel`, `Await`, `DisconnectReturns`; `CallLogout`, `LogoutFlag`,
`LogoutRevoke`, `LogoutReturns`; `StopPolling`, `Refreshed`, `Reclaim`/`Bereft`,
`GiveUp`, `LoopEnds`. The context passed to `Connect` and `Logout` only decides
how their network calls end, which is left open. A configured VK ID is assumed
where a refresh may succeed; without one, `Refreshed` takes `giveUp` only.

*TokenRefresh.* A pair of access and refresh token is the number of its rotation.
The server accepts the newest pair and rotates it (`Rotate`); the answer may get
lost (`ReplyLost`) or miss the refresh token (`Reply`); a save may fail
(`SaveFails`); the process may restart from the Storage (`Restart`). `faults`
remembers which of these happened, so that a property can say what it holds
against; no action reads it.
`copy[p]` is the clone in the flight, one object with `sess` after `Install`.
`Lead`, `Join`, `Finish`, `Wake`, `Told` are the critical sections of
`singleflight.do`; `Clone` to `Notify` the function in flight.

`Flights` keeps of this who leads, who waits for whom and with what result: `Phase`
maps each place of `Token` and `tryRefresh` to a phase of `Flights`.

*Client.* `Lifecycle` and `Flights` as instances, over the same goroutines: the
callers and the loops. Whoever calls the API (the application, `users.get` of a
Connect, the poller, a handler) may ask for a token that has to be refreshed, and
leads or joins a flight; a loop that lost its authorization does so too, and what
`do` returns to it (`Result`) decides whether it reconnects or gives up. A flight
fails when the session is lost, when the context of its leader may end (that of a
loop when it was cancelled, that of a caller at any time), or when the network or
VK ID fails it in passing (`offline`): no connection, a timeout, an answer 5xx. The
handlers of
TokenRefreshed run inside the flight and may call `Disconnect` or the API.
`TokenRefresh` is shown to implement `Flights`, so that `Client` need not repeat
the pairs, the Storage and the server. A goroutine is in at most one call at a
time, but for a handler's. `Logout` is left out here: it differs from `Disconnect`
in a flag and a request, and `Lifecycle` has it.

*Poller.* The `ts` is a position in the server's history. The server publishes,
cuts its history, lets keys expire and forgets the client at any time, and
answers as the protocol says (`Answers`); code 5 stands for every unknown
`failed`. `Top`, `Answer`/`PollFails`, `Updates`, `Deliver`, `Delivered`,
`HistoryOutdated`, `ServerOutdated`, `BadVersion`, `FetchServer`, `RestoreTS`,
`FetchFails`, `Resume` follow `Run` and the functions it calls. Pauses have no
length. `pts` is left out: nothing in the client reads it but its getter.

*Decode, WireFormat, Intake.* An update is a function from positions to fields;
a field is its kind and what the decoder can read from it. Text is its kind
only. `Complete` says when the code decodes, `decode` to what, and `DecodeUpdate` what
comes out. The elements of a list that are no numbers are left out by counting
(`Place`), since the definitions of the sequence modules that filter are out of
the provers' reach. `Documented` says what the server may mean, `Wire` how it is
laid out; both are written from the table, not from the decoder.
`Intake` has a server that means something, lays it out as documented, perhaps
cuts it short, and a client that decodes, names the sender, hydrates and
dispatches. An event is a record; `Declared` says that it is a value of one of the
structs of `events.go`, with the fields and the ranges of that struct, and the
type invariant of `Intake` that only such values reach a handler. The constants are
assumed to be `Parameters`: what the server means is documented, and it sends out
what the user of the account wrote.

*HandlerRegistry.* A handler is the number of its registration, a dispatch a frame
with the handlers still to be called. Frames stack: a handler may make its
goroutine dispatch again. `kept` and `called` record history for the properties.

*ApiCall.* Time is relative, in ticks; a slot is a number of ticks from now. A
caller sends messages or, in `Scripts`, runs scripts. `posts[c]` counts what the
server made of a call: it knows the `random_id` of a message, drawn once per call
or given again with `WithRandomID`, and nothing of a script. `done` has the calls
it carried out whole. `Served` is what may come back: an envelope with a response,
with `execute_errors` or with both (`Envelope`), one with neither, an API error, a
transport error before or after the work was done. `Outcomes` is what `Call`,
`CallRaw` and `Execute` make of it. `Retries` is the default that `New` fills in.
`Backoff` is the pause in seconds with the width of a `time.Duration`, which `Decide`
sets as a timer of `Second` ticks each: `pause` is what is left of it, `rested` how long
it has lasted. `Refresh` is the token source, `NoToken` one that fails, which that of
`Client` never does.

*FileStorage.* The calls of `StoreSession` are steps that may fail each for itself
(`CreateTemp` with `MkdirAll`, Chmod, a write in two, Close, Rename), and so may the read
of `LoadSession` and the Remove of `cleanup` (`RemoveFails`). `disk` has the temporary
files by name. `Crash` kills the goroutines of one process: the names they had are
forgotten, the files stay on the disk.

*Login, Echo.* The handler of each request runs on its own (`Arrive`, `Hand`);
`TakeResult`, `TakeServerError` and `TakeDone` are the cases of the `select`;
`Exchange` looks at the callback again, posts the code and builds the session.
`Login` has no next-state relation of its own: `Echo`, the program, calls it from
`loadOrLogin`. `stored` is the session file, `aborted` the context of the signals,
which the handler of LoggedOut ends (`Stop`), `loop` the client as far as the
program sees it. Its client renews the tokens while it connects and polls (`Ask` to
`SaveRenewal`): VK ID gives a new pair (`issued`), and the client takes it and writes the
same file; the answer or the save may get lost (`mislaid`). One renewal is under way
at a time, as `TokenRefresh` has it. `Restart` kills the program at any time and
starts it again.

## Runs

Runs that pass:

| configuration | instance | shows |
|---|---|---|
| `LifecycleSafety` | 2 callers, 3 loops, handlers disconnect, symmetry | `OneLoop`, `ConnectedMeansLive`, `Stoppable`, `DisconnectIsFinal`, `ImplementsSingleLoop` |
| `Client` | 1 caller, 2 loops, handlers disconnect and ask for tokens | `DeadlockNeedsHandler`, `WaitEnds`, `GivesUpForItsFlight` |
| `TokenRefresh` | 2 goroutines, 4 pairs, every fault | `OneFlight`, `CurrentPairSent`, `NeverReuse`, `StorageKeepsUp`, `NeverBack`, `RefreshReturns`, `ImplementsFlights` |
| `Poller` | 4 updates, 2 faults | `NeverAskedTwice`, `ImplementsUpdateFeed`, `CancelStops`, `KeepsUp` |
| `FileStorage` | 3 goroutines, 2 `File`s, 2 sessions, 2 names of temporary files, crashes | `NoLeftovers`, `ImplementsRegister`, `CallsReturn` |
| `ApiCall` | a sender and a script, 2 retries, 1 refresh | `SentOnce`, `OkMeansDone`, `PausesDouble`, `SlotsSpaced`, `CallReturns` |
| `Login` (module `Echo`) | 2 requests with any callback, 2 renewals | `OnlyOurCallback`, `PageAgrees`, `KeptBeforeUse`, `LoginReturns`, `HandlersReturn`, `ProgramEnds` |
| `Intake` | every event type, whole and cut, 2 updates | `TypeOK`, `NeverMisattributed`, `ReadAsDocumented`, `NothingMadeUp` |
| `HandlerRegistry` | 2 goroutines, 3 registrations, depth 2 | `InOrderOnce`, `NobodyMissed`, `ChangesReturn` |

`WaitEnds` replaces a property for each kind of wait: a Disconnect comes back, a
follower wakes, a loop that was claimed starts, unless goroutines wait for each
other in a circle, and then, says `DeadlockNeedsHandler`, one of them called
`Disconnect` or the API from a handler. The two excuse the circles that a handler
makes, which are real: `LifecycleReentrant` shows one. `GivesUpForItsFlight` says that a
loop gives its session up for what its flight came to and for nothing else. That need
not be a lost session: a network failure of its own flight, or the cancelled context of
a caller whose flight it followed, gives a good one up too (`LoggedOutOnlyWhenLost`, below).

`NoLeftovers` is about the steps of a store: none leaves a temporary file without an
owner. What a process has when it dies stays, and so does what cannot be removed.
`KeptBeforeUse` says what of a session is in the file once the client uses it, and
between renewals that it is the session of the client and the newest pair of VK ID;
that ends where an answer of VK ID or a save was lost, or the program was killed
between the two, until the file has the newest pair again. `NothingMadeUp` names the three ids (the peer of
changed flags, the call of a `Call`, the info of a `ChatInfo`) that are 0 in a short update.

Of the type invariants only the one of `Intake` is in a run, because it says
something of `Decode`. The others hold in the runs of their modules; those of
`Lifecycle`, `TokenRefresh`, `Client`, `Poller`, `FileStorage`, `ApiCall` and `Intake` are
proved, and the inductive invariants for `Echo` and `HandlerRegistry` begin with the
part of theirs that the proofs need. The conjuncts of each inductive invariant were
checked by TLC before they were proved.

`CHECK_DEADLOCK FALSE` is set in `LifecycleSafety`, `LifecycleReentrant` and `Client`,
where a handler may wait for itself.

Why the bounds are enough. `MaxHead`, `MaxFaults`, `MaxPair`, `MaxToken`, `MaxAhead`,
`MaxAdds`, `MaxDepth` and `MaxUpdates` are the bounds in guards. Lifecycle: a conflict needs two goroutines at the slot
and a loop that is going; a loop is itself a goroutine that calls `Disconnect`
from its handlers, and three loops let one end while another is claimed and a
third runs. TokenRefresh: two goroutines are leader and follower of one flight and
change places in the next; 4 pairs allow three rotations, one more than the stale
reads need. Client: the caller and
two loops are three goroutines, enough for a circle of two with a third outside,
for a leader with two followers, and for a loop that follows another loop or a
caller; loops are reused, so there is no bound on how many there have been. Poller: 2
faults let each kind follow another, 4 updates allow cut history before, inside
and after a batch. HandlerRegistry: 3 handlers allow the removal of the first,
middle or last of a snapshot. Handler ids are 32-bit in the code; the instance has
more ids than additions, so the wrap is outside it. `InOrderOnce` does not hold beyond
it, and its theorem says so (`MaxAdds < Width`); `NobodyMissed` is proved with the wrap. ApiCall: a slot is at most
`MaxAhead` ticks ahead, which leaves room for the slot of a call that gave up; two
retries and one refresh make every pair of attempts and tokens meet. Two retries are two
pauses, the second twice the first; the cap and the attempts up to 33 are in the theorem
`PausesGrow`, and at 34 the shift of a second first reaches the sign bit and the pause
is none (`RetriedWithBackoff`). FileStorage: two names are enough for a file that a dead
process left and a store under way; when both are taken, `CreateTemp` can only fail.
Login: of two
callbacks one can be taken while the other comes before, at the same time or
after, and a program that is started again meets what is left of both; of two
renewals (`MaxPair` of `Echo`) the first can be lost and the second refused, or both be given
and one of them not saved.

### Fairness

The Go scheduler runs every goroutine that can go on: weak fairness of the steps
of calls in progress. `sync.Mutex` starves nobody (it hands over after a
millisecond): strong fairness of taking one. Network requests end because a
context or a timeout of the HTTP client ends them. Handlers are assumed to
return. In the Poller, requests that are made again and again get through again
and again (strong fairness of `Answer` and `FetchServer`); without it no client
keeps up. Nothing is assumed about the application making a call, a healthy loop
failing, or the server publishing. In Login time passes; nobody has to call back,
to send a signal, to renew tokens or to start the program again, but a renewal under
way ends (a request has a context and a timeout). In Client a goroutine may be
kept from its next step by asking for tokens; calls, handlers and a cancelled
`Run` ask for boundedly many, so that the steps that asking interrupts are
strongly fair, and entering a flight is a mutex. In ApiCall the mutex is the
limiter's (`Reserve`). A loop that polls goes on for ever unless it is cancelled.

### Where the documentation says otherwise

Each module ends with statements that a comment or the design makes and the code
does not keep. Three of them have a run that finds a counterexample;
`PROJECT.json` quotes the line.

| configuration | statement | what the code does |
|---|---|---|
| `LifecycleReentrant` | `SafeWhenNotConnected`: safe when not connected | Disconnect in a handler of Disconnected never returns |
| `TokenRefreshFollower` | `FollowerTold`: concurrent calls are coalesced | a late follower reads another flight's result |
| `PollerTimeout` | `TimeoutRetried`: everything else is retried | a timeout of getLongPollServer ends Run |

The others are kept without a run. TLC refutes each of them within a minute when
it replaces the properties of the configuration named here.

| statement | configuration | what the code does |
|---|---|---|
| `LoggedOutIsLast`: the client stops after LoggedOut | `LifecycleReentrant` | a Connect that was verifying starts a loop |
| `DisconnectWaits`: Disconnect waits for the loop | `LifecycleReentrant` | the second of two does not |
| `EveryStopReported`: Disconnected when the loop stops | `LifecycleReentrant` | a loop that lost its slot in a refresh says nothing |
| `HandlersSerial`: handlers run on the poll goroutine | `LifecycleReentrant` | two goroutines can be in handlers |
| `ConnectedLoopRuns`: Connect starts the loop | `LifecycleReentrant` | Disconnect in a handler of Connected blocks Connect for ever |
| `LoggedOutOnlyWhenLost`: the session was found invalid | `Client` | a loop whose refresh the network fails, or whose flight a caller's context ends, logs a good session out |
| `OnlyWhenSoon`: renewed shortly before expiry | `TokenRefresh` | a stale check renews a fresh token |
| `PersistedWhenTold`: already persisted | `TokenRefresh` | the event comes after a failed save too |
| `UserKept`: the current user when known | `TokenRefresh` | a refresh drops the id that Connect stored |
| `NoRace`: clean under the race detector | `TokenRefresh` | an unlocked read against a write |
| `TSNeverBack`: the last acknowledged ts | `Poller` | another ts for a moment |
| `StaleTokenRetried`: error 5 refreshes and retries | `ApiCall` | a call with a stale token fails |
| `RetriedWithBackoff`: retried with backoff up to MaxRetries times | `ApiCall` with 1 caller, 36 retries | from attempt 34 on there is no pause |
| `FailuresReported`: with failed inner calls the error is ExecuteErrors | `ApiCall` | a response that does not decode hides them |
| `TimeoutBoundsWaitOnly`: bounds the wait for the callback | `Login` | cuts off the exchange too |
| `OneCallPerCycle`: one call per poll cycle | `Intake` | one per message |
| `ShortComesOutRaw`: raw when the layout does not match | `Intake` | a Call or ChatInfo that was cut comes out with the id 0 |
| `PeerMeansExtra`: Peer # 0 means the extra fields are there | `Intake` | a peer alone gives Peer # 0 |

`vkid.go` 297 says never to reuse an old refresh token. `NeverReuse` holds until an
answer is lost or the process restarts for the first time, and says nothing from then
on. Both exceptions are real: after a lost answer, and after a restart between
rotation and save, the client has nothing but the old token and sends it at every
refresh. A restart at another time does no harm by itself; the property leaves it out
too.

`UserKept` and `NoRace` are what other code and the design rely on rather than what
a comment of the function says.

## Proofs

`LifecycleProofs` proves about `Lifecycle`, for any sets of callers and loops and
with or without handlers that disconnect, from the three assumptions that
`Lifecycle` states of its constants (`None` is no goroutine, callers are no loops,
`HandlersDisconnect` is a Boolean):

| theorem | property |
|---|---|
| `TypeCorrect` | `TypeOK` |
| `NeverTwoLoops` | `OneLoop` |
| `ConnectedIsTrue` | `ConnectedMeansLive` |
| `NoOrphanLoop` | `Stoppable` |
| `DisconnectHolds` | `DisconnectIsFinal` |
| `Refinement` | `ImplementsSingleLoop` |

The inductive invariant `Inv` joins `TypeOK`, `OneLoop` and `ConnectedMeansLive`
with three facts they need:

- `ConnectOwnsLoop`: a Connect that dispatches Connected owns a loop that is
  claimed and not started, and there is one such Connect. Without it
  `ConnectSpawn` might start a loop that another one owns.
- `Reachable`: a live loop is in the slot, or the slot is empty and a Disconnect
  holds the loop. It strengthens `Stoppable` and makes `Reclaim` safe: a loop
  that still has the slot knows that no other loop is live.
- `TakenIsGone`: a loop somebody took is not in the slot, so a loop that still
  finds itself there has not been disconnected.

A step is one of three kinds: it leaves everything about loops alone
(`QuietStep`), takes the slot (`TakeStep`), or starts or ends a loop (`StartStep`
and the cases of `InvStep`). `DisconnectHolds` and the safety theorems follow from
`Inv`; `Refinement` maps the set of live loops, the slot and `held` to the
variables of `SingleLoop` and shows each step to be one of its steps or a stutter.

`TokenRefreshProofs` proves about `TokenRefresh`, for any set of goroutines and
any number of rotations, with every fault, from the assumptions that `None` is no
goroutine and `MaxPair` a positive number:

| theorem | property |
|---|---|
| `TypeCorrect` | `TypeOK` |
| `NeverTwoFlights` | `OneFlight` |
| `RequestIsCurrent` | `CurrentPairSent` |
| `UsedPairsStay` | `NeverReuse` |
| `StorageIsClose` | `StorageKeepsUp` |
| `NoWayBack` | `NeverBack` |
| `FlightsRefined` | `ImplementsFlights` |

Its `Inv` joins `TypeOK`, `OneFlight` and `CurrentPairSent` with what a flight
knows on its way: `CopyIsNewest` (after the answer the leader has the server's
newest pair), `SavingIsShared` (while it saves, so has the client), `NoneAhead`
(nobody has a pair the server did not issue), `InStep` and `StoredInStep` (only a
flight between rotation and save has the three out of step, as long as the faults
that separate them for good did not happen). `OneFlight` carries the argument:
whoever is in the flight is there alone (`Alone`), so no other leader can change a
pair between the steps of one. A step changes nothing of that (`QuietStep`), leaves
the flight's work (`EndStep`), or is one of the few that move a pair.

`FlightsRefined` needs no more than `TypeOK`: each action is a step of `Flights`,
or leaves the phase of its goroutine alone and with it everything `Flights` sees
(`PhaseKept`). It is why `Client` may put `Flights` in the place of the refresh. What
`Client` adds is the reason a flight fails for: a lost session, the context of its
leader, or the network.

### The client

`ClientProofs` proves about `Client`, for any sets of callers and loops, whatever
handlers call, from assumptions like those of `Lifecycle`:

| theorem | property |
|---|---|
| `TypeCorrect` | types of the client and its flights |
| `NoOtherDeadlock` | `DeadlockNeedsHandler` |
| `GivesUpForCause` | `GivesUpForItsFlight` |
| `LifecycleKept` | `Spec => L!Spec`: the client implements `Lifecycle` |

`Inv` ties what a goroutine waits for to where it is. `AsksWhere`: whoever is in a
flight is in an API call, in `users.get`, in the poller or in the refresh of a loop.
`CaughtTelling` and `HoldsWhere`: who is caught in a flight, or holds a loop, is in a
handler, or is a caller in its own Disconnect. `JoinedFlies`: a follower joined a
flight whose leader has not returned. `ReadyClaimed`: a claimed loop has its Connect.
`FailedWhy`: a flight that a loop led failed because the session is lost, the network or
VK ID failed it, or that loop was stopped.

`CycleHasHandler` follows whom each goroutine of a circle waits for. Without a
handler in it nobody is caught, and who holds a loop is a caller in Disconnect; a
follower waits for a leader, who waits for nobody; a claimed loop waits for a Connect
in its dispatch, who is no follower and holds nothing. So everybody in the circle
would hold a loop and no loop does: there is no circle.

`GivesUpForCause` rests on `FailedWhy`: a loop that led its flight and was stopped
takes the branch of the cancelled context, so what it gives up for is one of the other
two. That it gives up for a lost session only is false of the code. `LifecycleKept` shows that every step of the client is one of `Lifecycle` or
leaves its variables alone; it needs `AsksWhere` for the handlers of TokenRefreshed.
With it the theorems of `LifecycleProofs` are true of a client that refreshes tokens.

### The poller

`PollerProofs` proves about `Poller`, for any number of updates and of faults
(`MaxHead`, `MaxFaults` any naturals, `Unset` no integer, `Fatal` a Boolean):

| theorem | property |
|---|---|
| `TypeCorrect` | `TypeOK` |
| `NothingTwice` | `NeverAskedTwice` |
| `Refinement` | `ImplementsUpdateFeed` |

An answer is looked at after the server has moved on. `AnswerHolds` is what stays true
of it: its `ts` is between the request's and the head, history that was cut stays
cut, a forgotten client stays forgotten. `Asking` says why `Run` asks for a server:
for the first time, for a key with the `ts` put aside, or for a new `ts` because it was
forgotten. `BatchInStep` has the `ts` of a batch at its end, and `InHistory` has
what was handed out not beyond the `ts`, nor the `ts` beyond the head. `AnswersTrue`
shows each answer the server may give to have these properties when it is given,
`ServerStep` that no step of the server takes them away.

### The storage

`SessionProofs` proves about `FileStorage`, for any goroutines, any `File` values
in any processes on the path and any sessions (each goroutine has a `File`; a missing
and a torn file are no session):

| theorem | property |
|---|---|
| `TypeCorrect` | `TypeOK` |
| `NothingLeft` | `NoLeftovers` |
| `MutualExclusion` | `OneInside`: goroutines of one `File` exclude each other |
| `Refinement` | `ImplementsRegister` |

`NamesOwn`: a goroutine has a temporary file from its creation to its end, and no other
goroutine has the same. So a step that ends a goroutine's hold of a file (`LitterStep`)
renames or removes it, fails to remove it, or is the death of the process.
The refinement rests on `WholeWhenRenamed`: a temporary file that is about to be
renamed has the whole session of its goroutine, and the path changes at a rename
only. `Exclusion` ties the mutex of a `File` to the goroutine inside; the register does
not need it, since every store has a temporary file of its own.

### API calls

`ApiCallProofs` proves about `ApiCall`, for any callers of whom any run scripts, any
`MaxRetries`, negative ones too, any interval, any length of a second and any bounds:

| theorem | property |
|---|---|
| `TypeCorrect` | `TypeOK` |
| `MadeOnce` | `SentOnce` |
| `OkEarned` | `OkMeansDone` |
| `EvenlySpaced` | `SlotsSpaced` |
| `PausesGrow` | `PausesDouble` |

`MessageOnce`: a message is counted as made exactly when the server knows it.
`RunsPerAttempt` counts a script's runs by its posted attempts, for which `RetryLeft`
keeps the attempts in bounds. `AnswerEarned`: an answer with a response stands for a
call that was carried out whole, also when that was an earlier attempt. `SlotsBehind`:
every slot is an interval before the next free one, which `Tick` keeps because both
grow older together, down to where neither matters. `RestsTrue`: what a pause
has lasted and what is left of it make up its length, and an attempt begins when all of
it is over, so the pause before an attempt is known when the next one is set. `Pauses`
evaluates the length for each attempt below 34, where no shift has reached the sign of
64 bits.

### Login and the example

`SessionProofs` has, after the storage, the program that stores the session: it
extends `FileStorage` and `Echo`, and proves about `Echo` and the `Login` in it for any
requests with any callbacks and any number of renewals, from what the two assume of
their constants (`None` is no request and no session, `Unreadable` neither, `MaxPair` a
natural). For that the names the two modules
would share have a prefix in `Echo` (`EchoInit`, `EchoNext`, `EchoSpec`, `echoVars`)
and the place of the login is `at`.

| theorem | property |
|---|---|
| `TakesOurs` | `OnlyOurCallback` |
| `ShownTrue` | `PageAgrees` |
| `Kept` | `KeptBeforeUse` |

`CallbacksLetIn`: a callback that is being handed over, lies in the channel or was
taken has passed the handler's test, and its page is written. `ResultEarned`: what
Login returns comes from the callback it took. The page is written before the code is
exchanged: it says signed in also when VK ID then refuses the code, names no device or
takes too long, and `ShownTrue` says just that. `SessionsWhole`: a session with a
refresh token has what a refresh needs, whether it was just signed in, renewed, saved or
loaded. `RenewalsOwn`: only the session in the file is renewed, while a client connects or
polls. `PairsKept`: unless something was lost, the file has the client's session and
VK ID's newest pair until the next is given, and a client that saves has the newest.

### Handlers

`HandlerRegistryProofs` proves about `HandlerRegistry`, for any finite set of
goroutines, any width of the counter, any number of additions and depth:

| theorem | property |
|---|---|
| `InOrder`, if `MaxAdds < Width` | `InOrderOnce` |
| `AllCalled` | `NobodyMissed` |

The hypothesis of `InOrder` is where the code stands: below 2^32 additions the ids
grow with them (`InStep`), beyond that they do not, and the property fails. For each
dispatch under way, `AllSound` says that the handlers it has called and those it still
has to call contain all that it must call, in ascending order. `QueueSorts` is the
fact about the snapshot that this needs: a finite set of ids has an ascending
sequence. It goes by the least set size without one, which well-foundedness of `<`
gives (`LeastElement`), since induction itself is not available to these provers.

### Decoding and intake

`IntakeProofs` proves about `Intake`, for any set of documented meanings (any ids,
flags, times, texts, lists and objects that the table has room for), any user of the
account and any number of updates:

| theorem | property |
|---|---|
| `Typed` | `TypeOK` |
| `SenderTrue` | `NeverMisattributed` |
| `ReadRight` | `ReadAsDocumented` |
| `NothingInvented` | `NothingMadeUp` |

`NothingInvented` allows what `LeftOpen` names: three ids that the decoder reads as 0 where
the update ends before them. First the decoder. An update that arrives is `Part` of what the table lays out, so
each of its positions is read as the number, text or object meant for it, or is not
there (`Number`, `Text`, `Map`). With that `Readable` reduces an event to the case in
which all required fields are there, and there is a lemma for each group of event
codes (`PeerRead` to `MessageRead`), each over all values; `AllRead` joins them.
`ListAt` shows that a list of numbers of any length comes out as it is.

Then the way to the handlers. `Inv` is `Course`, which counts updates and calls and ties
`Full` to a named sender, and `AtHand`: whatever is hydrated or dispatched is
`Understood`, which is what `AllRead` says of it and who its sender may be. Naming the
sender is the only change on the way, and it takes nothing of that away (`Renamed`):
the session's user id is used for what is outgoing only, and that the user sent
(`Parameters`). `TakeStep` has this for whatever id the session has at that moment, so
that it may change at any time.

### Only model-checked

- Liveness: `WaitEnds`, `RefreshReturns`, `CancelStops`, `KeepsUp`, `CallsReturn`,
  `CallReturns`, `LoginReturns`, `HandlersReturn`, `ProgramEnds`, `ChangesReturn`. They
  need fairness and ENABLED, which these provers do not handle.
- The counterexamples to what the documentation says: a proof has nothing to add to
  a trace.

Every invariant and every action property that a run checks, and every refinement,
has a theorem.

## Not modelled

- Request formatting, URLs, headers, PKCE values and JSON: no control to get wrong.
  The type switch of `api/params.go` belongs here, and most of `messages.go`,
  whose helpers name a method and its parameters.
- `Logout`, `Revoke` and `UserInfo` of VK ID: single posts. What `Client.Logout` does
  around them is in `Lifecycle`.
- The API objects of `types/objects.go`: data with JSON tags. HTML unescaping and
  the accessors of peers.
- A machine that loses power: nothing is synced, so a renamed file may lack its
  data. `FileStorage` has processes that die.
- Lengths of time but for the slots and pauses of `ApiCall`. The wrap of handler ids is in
  `HandlerRegistry` and its proofs, but outside its instance.
- Handlers do nothing in `TokenRefresh` and `Poller` but return; `Lifecycle` has those
  that disconnect, `Client` those that call the API, `HandlerRegistry` those that
  change the registry or make their goroutine dispatch.

## Plan

Done: `Lifecycle` with its proofs first, since everything else runs inside a
loop; then the refresh, the poller, the storage, the API client, the login, the
intake and the handlers; then `Flights` with its refinement and `Client`, scripts and
pauses in `ApiCall`, the structs of events in `Decode`, and `Echo`.

Then proofs, module by module: the life cycle and the refresh, with their
refinements; the poller and the storage, with theirs; API calls and login; the
handlers; the client with its circles, which implements `Lifecycle`; and the decoder
with the intake.

What is left:

1. The liveness properties, where TLC has the last word: larger instances of `Poller`
   and `Client` when there is time for them.
2. The statements that the code does not keep (two Disconnects at once, a Connect that
   has looked at `loggedOut` before a logout, and the others of the list above): each
   becomes a property of its run once the code is changed.
