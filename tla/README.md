# hq_components: specifications, model checking and proofs

hq_components is the firmware library of a family of ESP32 devices: a machine
(the *server*, which opens a Wi-Fi access point) and its remote control (the
*client*, with buttons, a display and a battery).  Almost every component is a
FreeRTOS task with a static context `ctx` that other tasks write through
functions, mostly without a lock.  What is hard to get right is therefore not
in any one function, but in the order in which functions of different tasks
take effect, in time-outs that race with the answers they wait for, and in
memory that is shared across a queue.  That is what these specifications are
about.

## 1. Inventory

| component | state it keeps | who works on it | hard behaviour |
|---|---|---|---|
| Parameter store, `backend/parameters.c` | array of uint32 in RAM, one NVS blob | any task sets; a task saves; boot reads | a save copies the live array; power loss between set and commit; a failed read at boot |
| Command client, `backend/cmd_client.c` | `ctx`: state, socket, `start`, `disconnect_req` | its task; the request task; the keep-alive; the Wi-Fi driver; callers of try-connect and disconnect | five writers of `ctx` and no lock; the request task closes connections it does not own |
| Keep-alive, `drv/keepalive.c` | a table of entries: deadline, tries, active flag, error flag | its task; the two users | a count that is read and written back against a reset; errors reported for the connection before |
| Client requests, `backend/cmd_client_req.c`, `parse_cmd.c` | messages on the heap, queue, request number | callers; the request task; the server | addresses of messages in a queue; late answers; frames in pieces; wrapping time-outs |
| Command server, `backend/cmd_server.c` | `ctx`: state, two sockets, `is_connected` | its task; the keep-alive; the Wi-Fi driver | the state is written 10 ms after it was decided; requests to disconnect meant for the connection before |
| Wi-Fi driver, `backend/wifidrv.c` | `ctx`: state, requests, `connected`, attempts | its task; the ESP event task; the application; scans | events handled late; one counter for two states; requests cleared by other paths |
| HTTP parameter client, `mongoose_drv/http_parameters_client.c` | queue, `request_url`, `done`, `mutex` | callers; its task, which runs mongoose | requests on callers' stacks; one URL for all; memory freed by whoever comes last |
| HTTP server and API, `mongoose_drv/http_server.c`, `parameters_api.c` | token table, response buffer | its task | number formats; the far end of the above |
| Button repeater, `drv/fast_add.c` | list of values that move | its task; the application's tasks | the length of the list is read outside the lock; waits that are given up |
| Menu driver, `oled_ui/menu_drv.c` | state, stack of menus, requests, emergency flag, save request | its task; the button task | the menu task writes its state over the one the button task has just written; the stack at its limit; requests cleared behind the check that read them |
| Buttons, power, sleep (`drv/but.c`, `power_on.c`, `sleep.c`) | state per button; power state and timer | one task each; any button resets the power timer | check and write of one state by two tasks |
| Water flow sensor, `drv/water_flow_sensor.c` | state, counter, a one-shot timer | interrupt, timer task, application | interrupt, call and timer callback write one state; commands to the timer queue in any order, or lost |
| OTA, `drv/ota_drv.c` | state, percentage | its task | abort after a failed finish |
| Ring buffer, `drv/ringBuff.c` | head, tail, buffer | (unused) | one producer, one consumer, no lock |
| Others: device configuration, LED, PWM, buzzer, PCF8574, battery, ultrasonic sensor, error codes, display, fonts, `src/oled` (vendored) | - | - | nothing that interleaves |

How they interact: the Wi-Fi driver tells the command client and the command
server, through callbacks, that the network is up or down
(`cmdClientStart`/`cmdClientStop`, `cmdServerStart`/`cmdServerStop`).  Client
and server talk frames over one TCP connection; each gives its connection to
the keep-alive, which calls back to send a frame and to report an error.
Callers of `cmd_client_req.c` go through its queue to the request task, which
uses the client's send and read.  Frames read or set entries of the parameter
stores on both sides.  The HTTP pair does the same over mongoose.  Buttons
call menus, toggle the emergency stop and reset the power timer; menus ask for
parameters to be saved.  Nothing in the repository calls the repeater: it is for the
application's button handlers.

What makes each component correct: the store never holds a value a reader must
not see, and a boot brings back what was saved; the clients and the server own
their sockets and memory, say they are connected only when they are, and
return to service; a call returns, and what it returns is what the other side
had during the call; the Wi-Fi driver's picture of the station is true and its
callbacks alternate; the repeater changes only what is listed, within limits;
the menu shows the emergency while it lasts and comes back after it, and what
was set from it is saved; an idle device turns off; a buffer is a queue; missing
water is reported.

`PROJECT.json` lists, under "hazards", the places in the code where these can
go wrong and the properties that watch them.

## 2. Modules

| module | models | composition |
|---|---|---|
| `Parameters` | `parameters.c` | - |
| `CmdClient` | `cmd_client.c` + `keepalive.c` | the keep-alive's steps are interleaved with the client's |
| `CmdClientReq` | `cmd_client_req.c` + `parse_cmd.c` | callers, request task, stream, server; send and read reduced to the results `CmdClient` gives them |
| `CmdServer` | `cmd_server.c` + `keepalive.c` | as `CmdClient` |
| `WifiService` | what `wifidrv.c` promises | abstract specification |
| `WifiDrv` | `wifidrv.c` | implements `WifiService` (`INSTANCE ... WITH`) |
| `HttpParametersClient` | `http_parameters_client.c` + `parameters_api.c` | callers, task with mongoose, server |
| `FastAdd` | `fast_add.c` | callers and task |
| `MenuDrv` | `menu_drv.c` + the on/off button and a menu button of `but.c` | two tasks on one `ctx` |
| `MenuSave` | the delayed save of `menu_drv.c` (101-128, 725-728) | callback and `menu_task`, which saves only behind a menu it has shown; `parameters_save` in two steps |
| `PowerOn` | `power_on.c` | power task and button task |
| `WaterFlowSensor` | `water_flow_sensor.c` | interrupt, timer task with its queue, application |
| `BoundedQueue` | what `ringBuff.c` promises | abstract specification |
| `RingBuffer` | `ringBuff.c` | implements `BoundedQueue` |
| `MCDrivers` | the repeater and the last four drivers, one chosen at the start | `INSTANCE`s of `MenuSave`, `PowerOn`, `WaterFlowSensor`; extends `FastAdd` and `RingBuffer` |
| `MC*` | the small instances for TLC | |
| `*Proofs` | theorems and proofs | extend the component's module; `DrvProofs` those of `FastAdd` and of `RingBuffer` (whose `Init`, `Next` and `Spec` are called `RingInit` and so on, for `MCDrivers` and for this module) |

Conventions.  An action ends where another task can see, or undo, what it did:
a handler that writes two shared variables with anything in between is two
steps.  `pc` (or `task`, `call`, `fa`) says where each task is.  Operators carry
the names of the C functions and fields they translate.  A comment `Mutant:`
marks a variant of an operator that no specification uses: it is the operator
with a plausible bug, against which a property was tried to see that it
notices.

### Parameters
State: `value` is `parameters_value`; `flash`, `pending` are the blob as a boot
would read it and as it is set but not committed; `boot` and `save` are where
`parameters_init` and `parameters_save` are; `copied` and `blob` are what
`nvs_set_blob` has copied so far, entry by entry, while `SetValue` goes on;
`acked` is the last blob whose save returned true.  `PowerCycle` may happen at
any step, and each NVS call may fail (`BootRead`, `SaveFail`).  The initial
flash is *any* table: a blob of another firmware.

### CmdClient
Four tasks: the client's state machine (`Idle*`, `CreateSoc`, `ConnectServer`,
`Ready`, `CloseSoc*`, `CheckErrors`), the request task (`Send*`, `Read*`), the
keep-alive (`KeepAlive*`, also a sender) and the Wi-Fi callbacks.  `ctx` and
`keep` are the two records; `net` holds the descriptors lwIP has open and
whether the connection is up, silent or dead.  `keepAliveTry++` is a load and a
store, and `keepAliveStart` makes the entry active a step before it takes back the
tries and the deadline that the connection before has left.  A deadline is the
one bit *it has passed*.

### CmdClientReq
A caller allocates a message, numbers it, queues its address with no wait and
sleeps on its semaphore; the request task sends, reads until a whole frame with
the right number, the deadline or an error, and gives the semaphore.  Frames
arrive in two halves.  Memory is explicit (`heap`, `mem`), so that use after
free and leaks can be seen.  `halted`: an `assert` of `_prepare_msg` failed.
`raced`: an increment of `request_number` was lost, and two requests share a
number; the properties about answers are stated for runs where none was.
A set that `cmdClientSetValue` refuses itself, for a bad index or a value its own
table does not take, sends nothing and returns `false`, which is ERROR_CODE_OK
(`SetRefused`, `ReturnsRefused`).

### CmdServer
`_change_state` sleeps before it writes, so that each change is two steps
(`target`, then `ctx.state`).  Both sockets are explicit.  The keep-alive's
send asks for a disconnect when it fails (`SendFailed`), and its error callback
writes two variables one after the other.

### WifiService and WifiDrv
`WifiService` has two variables: which callbacks ran last, and whether a request
to connect is not settled.  It says: told up and told down alternate; a request
is settled only while told down; it *is* settled in the end, and a request that
comes while the network is up takes it down.  `WifiDrv` has the state machine
with its failure paths, the event queue between `esp_wifi` and the handlers,
and the scan, in both the access-point and the station role.

### HttpParametersClient
`mem` is indexed by addresses: a caller (its stack) or a block of the heap.
`conns` is mongoose's view of the connection opened for a request.  `halted`:
an assert failed, or `free` was given an address on a stack, which happens when
the queue stays full for ten ticks; such a run ends there.  `Half` is 2^31, from
which "%ld" prints a negative number that `str2int` reads as 0.  `out` is what a
get has written to the caller's `*value` (`Delivered`): nothing when it succeeds.

### FastAdd
`list`, `list_cnt`, `val` (what the addresses point to), the mutex, and where
each task is.  Any wait for the mutex may be given up while somebody holds it.
Both `max - 10` and `min + 10` wrap, as they do in a uint32; the only assumption
about the limits is that the lower one comes first.

### MenuDrv
`ctx` has the fields of the C struct; `tab` is `entered_menu_tab`; `active` is
the menu whose callbacks are on the buttons.  `mt` says where `menu_task` is: a
handler is dispatched (`Dispatch`), takes its decision (`IdleAdds`, `ExitStays`,
`CountEnds`, ...), and writes the state in a step of its own (`WriteState`), which
is where it can overwrite the button task.  `bt` is `gpio_task`: the on/off
button goes up, down, held, held for long, and each callback is split where it
writes the second field that the menu task reads.  `raced` is a history.  Its
`overwrote` says that a handler wrote the state although another task had
written the state, or the flag of the emergency, since the handler was
dispatched; or that a handler, dispatched before or since, wrote it while the
button task stood between its writes of state and flag, at the start or the end
of an emergency.  A timer of `ctx` is a choice.

### MenuSave, PowerOn, WaterFlowSensor
Three drivers of a few variables each, in which two tasks check and write the
same state.  The result of a check is kept in the program counter of the task
that made it, so that the other can come in between.  A deadline is *ahead* or
*passed*, and passed at once when the sum that computes it wraps.  In `MenuSave`,
`shown` says whether the state is MENU_STATE_PROCESS: it comes and goes as it
likes (`MenuDrv` has when), and only a round that has shown the menu goes on to
`save_process`.  In
`WaterFlowSensor` the commands to the timer travel through the queue of the
timer task; a full queue makes an `assert` fail (`failed`) or, in the interrupt
and in `StopMeasure`, loses the command.

### BoundedQueue and RingBuffer
`BoundedQueue` puts and gets in one step.  `RingBuffer` checks, copies an
element in two halves, and counts; producer and consumer interleave at each of
these.  The queue is read off the buffer (`contents`): the element of number i
is at `(tail + i) & (n_elem - 1)`.

## 3. What the runs check

All passing runs are exhaustive for their bounds.

| run | states | shows |
|---|---|---|
| `parameters` | 148,000 | `NeverAboveMax`: no boot and no save brings in a value above its maximum; `BootAdoptsSaved`: a boot that does not reset adopts the blob itself, never the zeros of a failed read |
| `parameters_reboot` | violation | `SavedSurvivesBoot` fails: a value below its minimum can be set and saved, and the next boot resets everything |
| `cmd_client` | 388,000 | `NoSocketLeak`, `ReadyHasSocket`, `NotWatchedAtRest`, `ErrorAfterFailedSend`; `DisconnectServed`, `DeadLinkDropped`, `Reconnects` |
| `cmd_client_req` | 1,280,000 | `NoDanglingMessage`, `GetIsFresh`, `SetIsApplied` with two callers |
| `cmd_client_req_live` | 40,000 | `EveryCallReturns`, unless the time-out wrapped around |
| `cmd_client_req_heap` | violation | `AssertMsg` fails: successful sets never free their message |
| `cmd_server` | 60,000 | `SocketsOwned`, `SilentClientDropped`, `NotWorkingInTheEnd`, `ServesAgain` |
| `wifi_drv` | 22,000 | `LinkKnown`, `IdleIsOffline`, `LossNoticed`, `DisconnectObeyed`, and `ServiceSpec`, the refinement with its liveness |
| `http_client` | 304,000 | `RequestsOwned`, `UrlIsOwn`, `SetIsApplied`, `GetIsFresh` with two callers; `EveryCallReturns`, unless the server fell silent |
| `http_client_get` | violation | `GetDelivers` fails: a get that succeeds does not give its caller the value |
| `menu_drv` | 1,014,000 | `EmergencyShown`: the emergency is on the display, and the menu's buttons dead, for as long as it lasts, unless a handler wrote the state over what the other task had written, or between its two writes; `OnlyFullTabCrashes`: a NULL menu is followed only when the table is full; `MenuComesBack`: with the buttons let go the menu is shown again and again |
| `drivers` | 850,000 | `NoNullEntry`, `ListedOnce`, `WithinLimits`, `OnlyListedMove` of the repeater; `QueueSpec`: the ring buffer implements `BoundedQueue`; `SavedInTheEnd`: if the menu is shown again and again, what was set last ends in the flash; `IdleSwitchesOff`: a device nobody uses turns off; `NoWaterReported`: water that has stopped is reported |

Each larger module has one `TypeOK`; where a counter or a queue has a limit that
the code must respect, the limit is in it.  The runs of `CmdClient` and `WifiDrv`
check it; elsewhere it is proved, or was checked by TLC without being a run of
its own.

### Bounds, and why they are enough
- `Params`: two or three entries, of which one has a minimum above 0 as
  `power_on_minutes` has; values are chosen below, at and above the limits.
- `Fds`: two or three descriptors for the client and the server, which use one
  and two: a number that was closed is given out again, which is what a stale
  descriptor needs.
- `TRY` is 2, as `KEEP_ALIVE_TRY`: below the limit, at it, and one increment
  lost.
- `cmd_client_req`: two callers, two blocks, a queue of one, two request
  numbers: the queue can be full, the heap can be exhausted, and the answer to
  the first request can arrive during the second.  `MaxCalls` bounds the
  numbers handed out; a run stops there, so deadlock is not checked.
- `wifi_drv` uses the real limits 3 and 30; `MaxEvents` bounds the event loop's
  queue, and the theorem about `TypeOK` shows that the room suffices for any
  bound of two or more.
- `http_client`: two waiting callers, one block, a queue of one: full queue,
  exhausted heap and two requests in turn.  Of the two parameters, one has a
  limit below the client's on the server.
- `menu_drv`: two menus, one without a process callback, so that the error path
  is taken; a table of three, which two calls to enter fill; `menuEnter` is given
  a menu or NULL.
- `drivers`, the repeater: a list of two for two values; one moves in all four
  ways between 0 and 3, the other up by one and down by ten between 6 and 7,
  where `min + 10` wraps; one task starts, it and another stop; one slow move
  instead of 15, steps of 2 instead of 10 and words of 3 bits instead of 32.
  (Without its exception for `min + 10`, TLC finds `WithinLimits` violated.)
- `drivers`, the others: ring buffers of 1, 2 and 4 elements (and 0, and 3, which
  `ring_buffer_init` refuses), counters of 3 bits, two values; a timer queue of
  three, which one call and one callback together fill.

Deadlock is checked except where a run may really stop: at an assert, at a NULL
menu, when the device is off, or at the bound on request numbers.  Symmetry is used only in runs without liveness.

### Fairness, and why the code justifies it
- The tasks are FreeRTOS tasks that sleep or block between steps: weak fairness
  of each task's step.  The steps of a call a caller has begun are weakly fair;
  beginning a call, changing a value, losing a link never are.
- Deadlines pass: weak fairness of `DeadlinePasses`.
- `Reconnects` and `ServesAgain` need `socket`, `connect` and `bind` to succeed
  now and then when tried again and again: strong fairness of these outcomes,
  and of no other.
- The Wi-Fi event loop handles what is posted: weak fairness of `Handle`.
- The HTTP server answers unless it has fallen silent; nothing makes it fall
  silent, and nothing makes it wake.
- `menu_drv` and `drivers`: the tasks of the firmware, the timer task and an
  interrupt that has begun are weakly fair, and so is the passing of time.
  Presses, pulses of water, the network and the calls of the application are
  not: nothing makes them come or stop, and a property that needs them to stop
  says so (`<>[](...)`).  Nor does anything make the menu be shown: a save needs
  `menu_task` in PROCESS, and `SavedInTheEnd` has `[]<>(saver = "process")` as its
  premise.  `MenuComesBack` says when `MenuDrv` grants it: with the buttons let
  go, no emergency and no power off.
- `Parameters`, `FastAdd` and `RingBuffer` have safety properties only, and no
  fairness.

## 4. What is proved

TLAPS checks these for every value of the constants, from the assumptions named
in the modules (what a table of parameters looks like, that the number of tries
is positive, that the event queue holds at least two, that there are finitely
many callers, that a name such as `"none"` or `"ping"` is not also the name of a
message).  Every invariant and every action property that a passing run checks
is proved.

- `ParametersProofs`: `TypeOK`, `NeverAboveMax`, `BootAdoptsSaved`.
  `NeverAboveMax` is not inductive: a commit makes a blob the saved one, so
  `SaveInv` says of a running save that what it has copied so far is within the
  maxima, and that what it commits is what it copied.  `BootAdoptsSaved` rests
  on `ZerosRefused`: some minimum is above 0, so the zeros never pass.
- `CmdClientProofs`: `TypeOK`, `NoSocketLeak`, `ReadyHasSocket`,
  `NotWatchedAtRest`.  The difficulty is that the request task may write
  CLOSE_SOC over the state between any two steps of the client task.
  `StateInv` therefore speaks of where the client task *is* and allows
  CLOSE_SOC wherever the request task can put it; `TriesInv` bounds the count
  that the keep-alive has loaded and not yet stored.  `ErrorAfterFailedSend` is
  proved for a `TRY` above 1 (`KEEP_ALIVE_TRY` is 2).  `FailInv`: after a send
  that succeeded the count is 0 until the keep-alive counts it, and at most 1
  then.  With a single try the property is false, as TLC shows: a send that
  succeeds makes the count 1, which is already the limit when the deadline
  next passes.
- `CmdClientReqProofs`: `TypeOK`, `NoDanglingMessage`, `GetIsFresh`,
  `SetIsApplied`, for any callers, messages, queue and parameters, and a
  connection that loses, closes and comes back at will.  `Ownership`: until it
  is freed a message has one owner; what is queued or being processed has an
  owner that sleeps and that nobody has woken.  `Answering` says what the number
  of a request is for, and holds until an increment of it is lost (`raced`): no two
  calls under way have one number and none has one that is still to be given
  (`Distinct`); a request in the stream that has the number of a call *is* its
  request (`GoodRequest`); an answer anywhere, be it in the stream, in the buffer
  or in a message, that has the number, kind and parameter of a call says
  something true of it (`GoodAnswer`, `GoodResults`).  A request that is answered
  after its call has returned does no harm, as its number is never a later call's.
  `Seeing` connects this with the server: a call has seen what the server has.
  `SetIsApplied` is about both ways to return ERROR_CODE_OK; the set that the
  client refused itself is an exception in its statement, not in the model.
  `LeaksAreSets` is about the leak of section 5: a message that is neither free
  nor in use is one with which `cmdClientSetValue` returned ERROR_CODE_OK
  (`OnlySetsLeak`), so that no failure, full queue or late answer loses one.
- `HttpParametersClientProofs`: `TypeOK`, `RequestsOwned`, `UrlIsOwn`,
  `SetIsApplied`, `GetIsFresh`, and that the task never waits for the mutex it has
  taken (`NeverStuckOnMutex`).  `Ownership` follows a request from the caller that
  is about to queue it to the connection that frees it: one that is about to be
  queued is not yet anywhere else and has no code (`Callings`, `Allocated`,
  `QueuedByOne`).  `Serving` holds because there is at most one connection
  (`OneConnection`): the URL is that of its request, what was sent is what the
  request says (`Sent`), and a positive answer, and then a positive code, mean that
  the caller has seen the value (`Answered`, `Answers`).  `GetIsFresh` is about
  the value that was fetched, which goes to the client's own table; that it does
  not go to the caller is section 5.
- `CmdServerProofs`: `TypeOK`, `SocketsOwned`.  As the state is written late,
  the invariant speaks of the state the task is heading for.
- `WifiDrvProofs`: `TypeOK`, `LinkKnown`, `IdleIsOffline`, and
  `ImplementsService`: every step of the driver is a step of `WifiService` or
  leaves its variables unchanged.  The inductive invariant says where calls
  stop half way (`CallInv`), how far the shared counter can be in each state
  (`CountInv`), that the event queue has room for all that the current attempt
  may still post (`RoomInv`), which states follow which callbacks (`ToldInv`)
  and that an idle station is offline even half way through stopping
  (`OfflineInv`).
- `DrvProofs`, the repeater: `TypeOK`, `NoNullEntry`, `OnlyListedMove`, `ListedOnce`,
  `WithinLimits`, the last for any limits of the word of which the lower one
  comes first: `StepsFit`, in its statement, excepts the values whose steps of
  ten wrap, and `SignInv` says that an entry moves its value only in ways its
  buttons have.  The task reads `list_cnt` without the mutex, so the count
  may shrink before the tick.  `PlacesInv` says that the places behind
  `list_cnt` are cleared, and a cleared entry lets a tick pass first: the task
  has read the count again before it could follow one.  `CallInv` says that the
  room a starting task found, before it took the mutex, is still there when it
  writes.  That needs `StartersAssumption`: one task starts, any number
  stop.  (With two, both may find the last place free, and the second write
  passes the list.)  The proof also assumes that a caller is neither `"free"`
  nor `"fast_add"` (`NamesAssumption`), the two other values the mutex's owner
  has.
- `MenuDrvProofs`: `TypeOK`, `OnlyFullTabCrashes`, `EmergencyShown`, for any
  menus, any table of two or more and any callbacks.  `Prefix` says that the
  entries of the table are a prefix and never none; from it `TabLen` computes the
  length without an induction over the table.  `EmergencyShown` is not inductive: a
  handler that was dispatched before the emergency still runs in it.  `Untouched`
  says that a handler nobody has touched since its dispatch was dispatched in
  the state that still holds, and that what it will write agrees with the
  emergency; `Dead` says that menu callbacks on the buttons during the
  emergency come from an ENTER that has been touched, and so will be seen as a
  race when it writes.
- `DrvProofs`, the ring buffer: `RingTypeOK`, the inductive invariant, and `ImplementsQueue`
  (`Spec => QueueSpec`), for any data, any word and any sizes that divide it.
  The invariant: the counters are never further apart than the size (`Counted`),
  the places between them hold whole elements (`Whole`), and what the two tasks
  have half done is at the places behind the last and at the first
  (`Writing`, `Reading`).  The lemmas in front are about remainders: adding one
  to a counter that wraps adds one to the difference, and numbers less than a
  size apart have different places.

Each proof has the same form: `Init => IInv`; one lemma per task or action for
`IInv /\ [Next]_vars => IInv'`; and the property from `IInv`.  Each `IInv` was
first checked by TLC.

Only model-checked: everything under fairness (the liveness properties of
`cmd_client`, `cmd_client_req_live`, `cmd_server`, `wifi_drv`, `http_client`,
`menu_drv` and `drivers`, and the liveness half of the refinement of `WifiService`),
which is out of the prover's reach, as is ENABLED.  `MenuSave`, `PowerOn` and
`WaterFlowSensor` have liveness properties only.

## 5. What the code does differently from what it says
- `parameters.h:72-73` promises that `parameters_save` stores the parameters;
  `parameters_setValue` lets through values below the minimum, which the next
  boot answers by resetting *all* parameters (`parameters_reboot`).
- `_prepare_msg` asserts that there is memory for a message;
  `cmdClientSetValue` leaks its message on success, so a long enough sequence
  of successful calls fails the assertion (`cmd_client_req_heap`).
- `http_parameters_client.h:37` describes `HTTPParamClient_GetU32Value` as "Get U32
  value."; the code writes `*value` under `if ( result && value != NULL )`
  (`http_parameters_client.c:355`), and ERROR_CODE_OK is 0: only a get that failed
  writes it.  `HTTPParamClient_GetStrValue` does the same (`http_client_get`).

Some properties hold only with an exception that the code makes necessary, and
name it: `DeadLinkDropped` (a report of the keep-alive withdrawn by
`cmdClientStart` or `cmdClientTryConnect`), `NotWorkingInTheEnd` (an error
raised during the accept), `EveryCallReturns` (a wait computed by unsigned
subtraction; a silent HTTP server), `GetIsFresh` and `SetIsApplied` (two
requests with one number; a number from 2^31 up; a set that the client refused
itself, which also returns ERROR_CODE_OK), `WithinLimits` (FP_PLUS_10 with a
maximum below ten, FP_MINUS_10 with a minimum within ten of 2^32),
`LossNoticed` (the station joined again before anyone looked), `EmergencyShown`
and `MenuComesBack` (a handler of the menu task wrote the state over what the
button task had written, or between its two writes: then the menu is shown
while the emergency is active, or its screen stays after it), `SavedInTheEnd`
(a request behind the copy of a running save, or a save that failed; and its
premise: in an emergency that lasts, or after a power off, nothing requested is
saved), `NoWaterReported` (an assert on a full timer queue).

Seen while reading, and not stated by any text the code could disagree with:
`cmdClientSetValue` returns `false` for a bad index and for a value its own table
refuses (`cmd_client_req.c:452`, `:458`), which its caller reads as ERROR_CODE_OK
although nothing was sent;
the hold of the on/off button writes POWER_OFF_COUNT before it sets the timer
(`menu_drv.c:240`), so that the menu task may compare the timer of an earlier
hold and turn the device off without the count; `fastProcessStart` checks for room
before it takes the mutex (`fast_add.c:15`); `cmdClientSetValueWithoutResp` and
`cmdClientGetValue` return a result they read from a message they have freed
(`cmd_client_req.c:273`, `:308`); `keepAliveInit` stores without a bound
(`keepalive.c:42`), which the two users of the repository do not reach.

## 6. Not modelled, and why
- External code is modelled from how it is used: lwIP sockets, NVS, `esp_wifi`
  and its event loop, mongoose, FreeRTOS queues and semaphores, `malloc`.
- String parameters: same control as the numeric ones, and not persistent.
- `cmd_server.c` 401-565, the server's own calls to its client: nothing in the
  repository calls `cmdServerAnswerData`, and `parse_cmd` refuses a CMD_ANSWER, so
  that a call that waits times out, and keeps the mutex; the keep-alive's send,
  which is such a call, is in `CmdServer` as one that fails.
- Wi-Fi credentials and their copy in NVS, callback registration, the count of
  clients of the access point, RSSI; `fastProcessDeInit`, which nothing calls.
- `sleep.c` (one function that configures the chip and sleeps), `ota_drv.c` (one
  task around `esp_https_ota`), `dev_config.c` (sequential NVS access under a
  mutex), LED, PWM, buzzer, PCF8574, battery and the ultrasonic sensor: they
  convert values or write registers, and one task uses each.
- The display, the fonts and the vendored display library `src/oled`: nothing
  interleaves there.  They are most of the repository: of its 40,900 lines
  about 32,000 are the library and the tables of the fonts, so that the share
  of all lines that the map covers stays small however much of the firmware's
  own code is modelled.

## 7. Plan
Done: sections 2 to 4.  What is left, most important first:

1. `CmdClient` under `WifiService`: start and stop in turn instead of at will.
2. `WifiDrv`: credentials and their copy in NVS, registration of callbacks
   after the network came up, the count of clients.
3. `ota_drv.c`: abort after a failed finish.
