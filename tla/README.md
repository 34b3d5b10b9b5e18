# Ferrokey: a TLA+ verification project

Ferrokey is an on-screen keyboard for Linux. An unprivileged UI turns touches
into key events and sends them, over a Unix socket and in a small binary
protocol (FK01, version 2), to the broker `ferrokeyd serve`. The broker owns
one pre-created uinput keyboard and is the only process that can make the
kernel believe a key is down. The UI can also host a terminal: a shell on a
PTY, an emulator for what it prints and an encoder for what is typed. This
directory holds a TLA+ model of the parts of that system whose correctness
depends on order, interleaving and failure, the TLC configurations that check it
on small instances, and proofs checked by TLAPS.

## 1. Inventory

| Component | Source | State | Operations | Modules |
|---|---|---|---|---|
| serve loop | `ferrokeyd/src/serve.rs`, `signals.rs` | session `Vec`, listener queue, per-slot reply queue and close flag, `STOP` | poll, accept, service, flush, remove, shut down | `Broker` |
| client session | `ferrokeyd/src/session.rs` | `hello_received`, `session_open`, `held` | one per protocol message | `Broker` |
| key device, ledger | `ferrokeyd/src/device.rs`, `ferrokey-uinput/src/*` | `HeldLedger.held`; in the kernel, the keys that are down | key_down, key_up, key_repeat, release_keys; create, verify, adopt | `Broker`, `Lifecycle` |
| rate limiter, wire codec | `ferrokeyd/src/rate_limit.rs`, `ferrokey-protocol/src/*` | tokens and last refill; bytes of a partial frame | allow; encode, push | `Wire` |
| keyboard state machine | `ferrokey-core/src/{state,modifier,keyset}.rs` | depressed keys, latches, locks, injected modifiers, tap tracks | press, release, release_all | `KeyboardState` |
| repeat, driver, link, router | `ferrokey-core/src/{repeat,action}.rs`, `src/{daemon,input}.rs` | held keys, sink, connection, destination | handle_action, tick_repeat, emergency_release, connect, send, switch | `UiKeyboard` |
| text mode | `ferrokey-core/src/{compose,layout}.rs`, `src/text.rs` | pending compose prefix | feed, find_char, key_down, type_text | `Compose`, `TextMode` |
| key encoder, sink | `ferrokey-terminal/src/{key_encoder,sink}.rs` | modifier and Caps Lock mirror | encode, send | `KeyEncoder`, `TermKeys`, `UiKeyboard` |
| adaptive geometry | `ferrokey-core/src/geometry.rs`, `src/views.rs` | statistics and hit ellipse per key | hit_test, record_hit, optimize | `Geometry` |
| surfaces | `ferrokey-surface/src/*` | size, place, visibility, configure state, touches | set_size, set_position, present, set_visible, poll_events | `Surface` |
| event loop, pointer bridge | `src/{main,pointer,term_input}.rs` | gesture, keys under each contact | press, move, release, cancel, tray, render | `FrontEnd`, `PointerRouting` |
| lifecycle, sandbox, configuration | `ferrokeyd/src/{main,bootstrap,init,phase,fds,security,sandbox,config,socket_path,session_scope}.rs` | three processes, privileges, descriptors, phase, the socket path | start, spawn, hand over, drop, verify, freeze, stop | `SeccompFilter`, `Lifecycle` |
| parser | `ferrokey-terminal/src/parser.rs` | state, parameters, UTF-8 and OSC buffers | advance | `VtParser` |
| screen | `ferrokey-terminal/src/{grid,terminal,scrollback,viewport,selection,modes,render}.rs` | grid, cursor, modes, history, viewport, selection, painted frame | one per control function, gesture and repaint | `TermGrid`, `Terminal` |
| shell session | `ferrokey-terminal/src/{terminal,child,pty,sink}.rs` | buffers towards the shell, child, PTY | poll, paste, restart, shutdown | `TermSession` |

How they interact: the display server's events reach the UI's event loop through
the surface; the loop hands them to window gestures, the terminal pane or the
pointer bridge; the bridge calls the driver, the driver calls the sink (the
daemon link or the terminal's), the link writes frames to the socket. The
broker's loop reads them, decodes and admits them, and runs the session state
machine, which calls the device, which changes the ledger and writes to the
uinput descriptor. Replies travel back through a bounded queue per slot. The
terminal's sink fills a buffer that `poll` writes to the PTY; what the shell
prints passes parser and grid and is painted. Everything inside one process is
single-threaded; what is concurrent is peers against the broker, the three
processes of a start against each other, the shell and the display server
against the UI, signals and time against all of them, and failure of any call.

What is hard, and what makes each part correct:

* *Broker.* Each key that is down belongs to exactly one session, and comes up
  when that session ends, however it ends. Writes to uinput fail after the ledger
  was changed. One pass of the loop can close several sessions.
* *Wire.* The stream is cut anywhere; nothing may be lost, invented or buffered
  without bound. The bucket's promise is about every window of time.
* *Keyboard and text.* The sink holds exactly what the state says, no modifier
  stays down that nothing accounts for, across failures between two events of one
  handler.
* *Lifecycle.* No client is served before every privilege is gone; a signal or a
  failure at any moment leaves neither process nor keyboard behind.
* *Terminal.* Cursor and margins stay inside the grid under any byte stream; the
  frame shows the cells; history, viewport and selection agree while output
  evicts lines; the shell gets every byte once and is always reaped.
* *Front end.* No contact leaves a key pressed; learning stays within its limits;
  what is on the screen is eventually what should be.

The full list of hazards, each at its source line and with the properties that
would catch it going wrong, is in `PROJECT.json`.

## 2. Modules and how they compose

    KeyOwnership <--implements-- Broker <-- BrokerProofs, MCBroker
    KeyboardState <- UiKeyboard
                     UiKeyboard + Compose <- TextMode <- MCTextMode
                     UiKeyboard + KeyEncoder <- TermKeys <- MCUiKeyboard
                     TextMode + TermKeys <- UiKeyboardProofs
    Geometry + Surface <- FrontEnd <- FrontEndProofs, MCFrontEnd
    TermGrid <- Terminal <- TerminalProofs, MCTerminal
    SeccompFilter <- Lifecycle <- LifecycleProofs, MCLifecycle
    Wire <- WireProofs, MCWire
    TermSession <- MCTermSession
    VtParser <- MCVtParser
    TermSession + VtParser <- ShellProofs
    PointerRouting <- MCPointerRouting
    Induction: induction and recursion over numbers, for WireProofs, LifecycleProofs,
        TerminalProofs, ShellProofs, FrontEndProofs

Operators announced as a seeded fault, or whose name extends another's
(`QueueFitsOffByOne` beside `QueueFits`), change the operator they precede the
way a plausible bug would; replacing the original by them must break the property
`PROJECT.json` names. No specification uses them.

The runs at a glance; each has a section below.

| Run | Module | Properties | Distinct states |
|---|---|---|---|
| `sessions` | `MCBroker` | `CleanShutdown`, `KeysOnlyAfterHandshake`, `Limits`, `OnlyMarkedRemoved`, `ClosingIsInert`, `ImplementsKeyOwnership` | 1.6 million |
| `default` | `MCBroker` | `Ownership`, `NeverPanics`, `ErrorFrameBeforeClose`, `StopEnds`, `DoomedSessionEnds` | 79 thousand |
| `link` | `MCUiKeyboard` | `NoStuckKey`, `InactiveHoldsNothing`, `RepeatOnlyHeld`, `TerminalKeyReadable` | 7.8 million |
| `sync` | `MCTextMode` | `KeyboardModeAccounted`, `BrokerAgrees`, `TypesWhatWasMeant`, `ChordNeverLatches` | 3.7 million |
| `wire` | `MCWire` | `DecodesExactly`, `HonestUnderstood`, `WindowBound` | 1.7 million |
| `freeze` | `MCLifecycle` | `FrozenWhileServing`, `FilterExact`, `ExitLeavesNothing`, `CleanStartServes`, `StopReachesBroker` | 249 thousand |
| `parser` | `MCVtParser` | `CancelRecovers`, `CsiMeansItsBytes` | 723 thousand |
| `screen` | `MCTerminal` | `FrameShowsCells`, `OutputNeverYanks`, `SelectionAnchored`, `MainScreenKept` | 1.2 million |
| `session` | `MCTermSession` | `EachTokenOnce`, `NoStray`, `ExitNoticed` | 193 thousand |
| `glass` | `MCFrontEnd` | `LiftedReleases`, `HitWithinLimits`, `PlacedOnOutput`, `Settles` | 1.7 million |
| `wrong_slot` | `MCBroker` | `OnlyMarkedRemoved` is violated | finding 1 |
| `ghost` | `MCPointerRouting` | `NoGhostHold` is violated | finding 2 |

A run of `MCX` uses the configuration `MCX_<name>.cfg` (`_stream` for `wire` and
`parser`) and takes at most a few minutes with two workers. Most specifications
also have a `TypeOK` (`ParserTypeOK`) that describes their state. Those the proofs start from are
theorems; the runs spend their time on the other properties.

## 3. The broker: `Broker.tla`

### State and code

`Conns` is the set of connections that are ever made; each connects at most
once, so the fields of a `SessionSlot` and its `ClientSession` are functions of
the connection (`hello`, `open`, `held`, `out`, `closing`) and `sessions` is
the order of the slots in `Runtime.sessions`. `toClose` is the vector of the
same name after its de-duplication, `polled` and `pollout` are what the poll at
the head of the pass reported, `pc` and `cursor` say where the pass is. `ledger`
is `HeldLedger.held`. `kernel` is what the kernel believes: it is external, and
changes as the writes to the descriptor say. `reason` is the string put beside
the slot in `to_close`; `failed` is a history variable, the keys one of whose
writes failed.

One pass of `serve_loop` is the sequence

    Poll -> Accept* AcceptDone -> Service(c)* ServiceDone
         -> Flush(c)* FlushDone -> RemoveSlot(c)* RemoveDone

with `Poll` replaced by `StopServing` when the flag is set. Peers and signals
act between any two of these steps. A read returns nothing, end of file
(`ReadEof`), malformed bytes (`ReadMalformed`), or a batch of messages
(`ReadBatch`), which `ProcessMessage` handles one at a time: one action per
message, with the checks in the code's order. What a message is, is chosen when
it is processed. `Reply`, `ReplyAndClose`, `Keep` and `CloseNow` are the four
outcomes as `service_client` treats them.

Abstractions:

* Replies are counted in frames, not bytes: `MaxPendingOut` stands for
  `MAX_PENDING_OUT`. A frame is `Reply`, `Refused` (an ERROR that names a fault
  of the peer) or `Internal`.
* The token bucket may refuse any message; when it does is in `Wire`.
* Authorization is a fixed set of connections.
* A failed write to uinput may have reached the kernel or not (`write_all` can
  fail between two records). `WriteFaults` switches such failures on.
* When the process ends its descriptor is closed and the kernel unregisters the
  keyboard, so every key comes up.

`KeyOwnership.tla` is the abstract promise: sessions own keys, a key that is
down has one owner, and a key comes up by its owner's hand, by the owner's
disappearance, or because the broker ends.

### Runs

`sessions`: three connections, one of them unauthorized, two slots, three keys, a
held limit of two, a reply queue of one frame and batches of two. `default`:
the default of one slot, two connections after each other, one key, a reply queue
of two frames, with failing writes and under fairness. `wrong_slot`: three slots.

Two sessions and a limit of two are the least that let one session want a key the
other holds while each holds one of its own, so that the ledger's owner check
decides and not its cap; the third key is one that nobody holds when the cap
refuses it. A batch of two puts a message behind one that closes the session and
overflows the queue; a queue of two frames, in `default`, puts a reply before the
ERROR frame. A second connection of `default` comes while the slot is taken; one
whose stream the broker drops is over, whatever its peer does after. Authorized
connections and keys are interchangeable, so the safety runs use symmetry. Removal order goes wrong only
with two slots marked in one pass: with two slots the result is a panic
(`sessions` allows it, `NeverPanics` is checked where it holds), with three the
wrong session is removed.

Together the properties say: a key is down exactly while one open session owns
it, through failed writes except for the keys those writes were about
(`Ownership`); shutting down leaves nothing in the ledger (`CleanShutdown`); no
key is accepted before HELLO and OPEN, no limit is exceeded; a session that is
to be told why it ends is told, unless its queue is full
(`ErrorFrameBeforeClose`); nothing is processed for a session that is closing
(`ClosingIsInert`); a session whose peer is gone, or that is refused, is removed,
and SIGTERM ends the process. `ImplementsKeyOwnership` is the refinement.

### Fairness

`WF(Broker)`: the loop is never blocked for longer than the 200 ms timeout of
poll, so it keeps stepping. `SF(ReadEof(c))`: a peer that has gone left finitely
many bytes behind, so one of the reads returns end of file. `SF(FlushAll(c))`: a
peer that stays drains its socket. The last is an assumption about the peer: the
broker has no timeout, and a peer that neither reads nor closes keeps its slot,
and its keys, for as long as it likes.

## 4. The UI's keyboard: `KeyboardState.tla` and `UiKeyboard.tla`

### State and code

`KeyboardState` is the struct of the same name as a record, with `press`,
`release` and `release_all` as operators on it (`Press`, `Release`,
`ReleaseAll`) and the events they return as sequences (`PressEvents`,
`ReleaseEvents`, `ReleaseAllEvents`). The three kinds of key, modifiers, locks
and all others, follow the code's branches. `injected[k]` is the entry of
`injected_mods` for `k`; `tracks` is `tap_track`, in order.

`UiKeyboard` puts the process around it. `st` and `repeating` are the driver's
state and its repeat engine, `dest` the router's destination, `client` the link
(`none`, `live`, `dead`: the broker has ended the session and the UI has not
noticed, or `absent`: the terminal workspace, which has no system sink), `session`
the keys the broker holds for this connection, `termMods` and `termCaps` the
terminal sink. `fingers` are the buttons being touched. `chorded` and `refused`
are history variables: the modifiers used in a chord, and why the broker of a
run without link faults first refused an event (`room` for a full session).

The process is single-threaded, but a handler is not atomic with respect to the
broker: it changes the state and then emits events one at a time, any of which
may fail. So a handler is an action that changes the state and fills `pending`,
followed by one sink action for each event, then `HandlerReturns`, or
`HandlerFails` if a sink returned an error. `cause` remembers which handler is
running, because what an error leads to differs: `handle_key` releases
everything, `type_text` and `tick_repeat` give up, the destination switch
switches all the same. No other handler starts meanwhile.

| Action | Code |
|---|---|
| `KeyPressed`, `KeyReleased` | `handle_key` with Down and Up; a rollover leads to `emergency_release` |
| `TypeChar`, `TypeNothing`, `TextAction` | text mode: `TextComposer::key_down`, the actions of `type_text` one by one |
| `TickRepeat` | `tick_repeat` |
| `SwitchDestination` | the destination badge |
| `TapTimeout` | time passing `tap_timeout` |
| `SendServed`, `SendLost`, `SendFails` | `DaemonLink::send_message` |
| `PollConnect`, `LinkLost` | `poll_connect`; `poll_server` and `ping` meeting a closed socket |
| `SessionEnds` | the broker's side (module `Broker`) |
| `SendTerminal`, `TerminalFull` | `TerminalKeySink`, `PtySink::send` |

Abstractions:

* Time is what the code asks of it: a track is older than `tap_timeout` or not
  (tracks are in the order of their presses, so the old ones are a prefix), and
  any set of tracked keys may be due to repeat.
* A broker session acts on a frame when it is written, and one that ends
  releases its keys at once; that the UI learns of it late is modelled. What
  the session refuses is what `Broker` refuses.
* In `UiKeyboard` alone, text may ask for any modifiers of `TextMods` that are not
  all in effect already, with any key; `TextMode` replaces this by the layout and
  the compose engine.
* The fixed arrays are a set and a sequence; a track past `Capacity` is dropped
  as in the code.
* The release on exit is left out; the backoff between two attempts to connect is
  any delay.

`TermKeys` adds the encoder of `key_encoder.rs` (`KeyEncoder`): which bytes a key
sends under the modifiers and modes the sink sees. It is a pure function;
`TerminalKeyReadable` compares it, in every reachable state of the keyboard and
for every terminal mode, with how a program reads an xterm's keys, and the sink's
modifiers with those that are held. It states two things the code does that a
reader may not expect: under Alt or Meta an ESC precedes the sequence, and the
sink forgets a kind of modifier when one of two keys of it comes up (`TwoKeyed`).

### Run `link`

Two plain keys, a letter and a cursor key, with the right Shift, the left Meta and
the right Alt as buttons; text with Shift and AltGr together, which injects the
left keys of the two, so that two keys of a kind are down at once. A cap of three
at both ends. The broker may be away, refuse or end the session at any event; a
send may also fail while the session is alive and holds keys (`MayFail`: its
socket is full), upon which the link is dropped and the broker releases them; the
terminal's buffer may be full. No sink holds a key the driver has forgotten, and
the destination that is not active holds nothing. The cap is reached with and
without a latch pending.

## 5. Text mode: `Compose.tla`, `TextMode.tla`

`Compose` has the layout's `symbol_for` and `find_char` and the compose engine's
`feed` as operators; the tables are cut down to one accent and one letter in two
cases, enough for every outcome of the engine. That a layout only defines physical
keys is `LayoutAssumption`. `TextMode` composes them with
`UiKeyboard`: a key whose symbol is text goes to the engine, what the engine
emits is typed through the driver event by event, a symbol that broke a sequence
is fed again (`job`), and every other key cancels the sequence.

Run `sync`: a letter with an AltGr level, a dead accent that is Compose when
shifted, space, two shifts, Caps and Num Lock, in either mode, with a broker that
serves throughout. Two shift keys are the least that let a modifier be held by
hand, latched and injected at once. Only Shift can be latched here, so one key
more than `MaxHeldKeys` is the most ever held, which is what `Capacity` is set to.
The broker's limit equals `MaxHeldKeys`, as the two defaults do (16 and 16). It
can therefore refuse a press that the driver let through (section 12, rollover);
`BrokerAgrees` says that it refuses for no other reason, and that the two hold the
same keys between any two handlers up to the first such refusal. A state in which
it has refused is checked and not explored further (the constraint `NotRefused`):
what a UI does whose session has ended is the subject of run `link`.
`KeyboardModeAccounted` is restricted to keyboard mode because text mode can
leave a modifier down (same section).

## 6. The wire: `Wire.tla`

One connection below the session: frames written by the UI's client or by any
other peer, cut anywhere by the socket, collected by the decoder, admitted by
the token bucket. A multi-byte integer and the magic are one symbol each, so that
a header still can be cut. `NotUtf8` are the symbols that make a text invalid. An honest client sends whole messages of `Outbox` but
may stop in the middle of one, as `DaemonLink` does when a write times out; a
dishonest one writes any symbols. Tokens are exact fractions of a second, and
`window` starts at any instant.
`WireAssumption` asks that the longest text fits a frame, as the protocol's two
limits do, and that the client sends messages of the protocol.

Bounds: three messages or six symbols of noise, reads of up to five symbols, so a
read holds the end of one frame, a whole one and the start of a third; a burst of
two, two tokens in three ticks, so a refill leaves a remainder.

## 7. Start, freeze and stop: `SeccompFilter.tla`, `Lifecycle.tla`

`Lifecycle` has the three processes of a start, the supervisor (`sup`), the child
that creates the device (`ini`) and the child that serves (`srv`), each as the
point of its code it has reached, with who holds which end of the hand-over pair
(`initEnd`, `srvEnd`), what keeps the keyboard alive (`device`), which privileges
are gone (`given`), the descriptors, the filter, and what is at the socket path.
Each call is an action. It may fail; one whose result the code reads back may
also report success without effect (`Gives` and `Proves`). Somebody with access to
the directory changes what is at the path, to another user's socket too, signals
come at any point, the runtime may be killed. Two
starts run one after the other on the same path, as the service manager does it,
the second finding what the first left.

`SeccompFilter` assembles the program instruction by instruction with the code's
jump offsets; `Execute` is one step of the kernel's interpreter and `Verdict` what
running it from the first instruction returns. `FilterAssumption` says that
the tables hold call numbers and that the jump over the first chain fits the
instruction's eight bits. `FilterExact` compares the
program that was installed with a direct definition of what is to be allowed, for
every call number, architecture, and value of the two arguments that are looked
at. The allowlists are three calls long and overlap across the architectures; an
offset that is wrong is wrong for short lists too.

Fairness: weak, for the own steps of each process. Nothing is assumed of
signals, other users or failing calls.

## 8. The terminal's screen: `VtParser.tla`, `TermGrid.tla`, `Terminal.tla`

`VtParser` is the parser as a function of state and byte; a byte is its class.
Run `parser` feeds every stream with at most four bytes after the last
introducer, two parameters at most, digits to base 2 and a parameter limit of 3,
so that numbers saturate, surplus parameters are dropped and strings overflow.
`WellFormed` is the grammar of a control sequence (a mark, parameters and
separators, intermediates, one final byte) and `RefCsi` reads one from its bytes
alone: where the separators stand, the decimal value of the digits between two of
them. `fresh` records that the introducer left the fields reset, because what was
left of a sequence leaks into the next (section 12): of a control sequence that
was cancelled or cut off, and of an escape sequence with an intermediate, also
one that ended normally.

`TermGrid` is the grid as a record with one operator per operation of `grid.rs`.
`Terminal` adds history, viewport, selection, modes, the alternate screen, and
the frame: what was painted is remembered per cell, so that `FrameShowsCells` can
compare what is on the screen with what painting everything now would give. A
chunk from the PTY is a run of parser actions; the user acts between chunks.
`SelectionAnchored` is about the steps that move one line into the history, of
the whole screen and of the same width (`ScrolledIn`): a history that kept the
width of an earlier grid cuts the line, and a wide glyph that ICH pushed into the
last column loses its half there. `MainScreenKept` leaves out `Restart`, which
starts from an empty main screen and throws the saved one away.

Run `screen`: two to three columns, one to three rows, two lines of history, one
narrow, one wide and one combining character, two attributes. Any sequence over
the whole alphabet of operations is out of reach, so a behaviour picks one of five
workloads (editing, scrolling, looking back and selecting, switching screens,
modes and tabs) of three to six operations that interact; painting is free.

## 9. The shell: `TermSession.tla`

The pane's thread one system call at a time (`ui.at`), the child between fork
and exec and after it, the kernel's queues, and the three buffers towards the
shell. Tokens are numbered in the order they were accepted. Writes are partial,
blocked or fail, and a failed one drops what it has not written, so
`EachTokenOnce` is at most once; the shell reads, prints, exits, ignores the hang-up; sessions
are restarted and shut down. `usize` arithmetic is modulo `Word`, for the read
budget's subtraction.

Run `session`: two sessions, three tokens, a pending bound of two, kernel queues
of one and two tokens. Fairness: weak for the thread's steps and for a child on
its way to `execv`; the shell itself may do nothing for ever. The grace periods
are assumed longer than a child needs to reach `execv` or to die when killed.
`ExitNoticed` is about reaping, `NoStray` about processes nobody would reap.

## 10. From glass to keys: `Geometry.tla`, `Surface.tla`, `FrontEnd.tla`

`Geometry` has the hit test, the statistics and the optimizer's passes
(candidate, clamp, competition, clamp, damping) in integers: lengths in quarters
of a pixel, fractions in thousandths. `Surface` has the three backends: the layer
surface with its configure handshake, margins and output size; the X11 window
with its touch tracker; the null surface; and the Slint platform's size and
redraw flag over them. `FrontEnd` is the event loop around both: poll, the events
one by one, the adaptive tick, rendering; fingers, a mouse, the server and the
window manager act between two polls. They act late: `wants` holds every size
that was asked for and not answered, so a configure may be for a size that has
been replaced since, and `maps` counts the requests to map an X11 window, which
may be met after a frame was put or after a later hide. What is put into an X11
window that is not mapped yet is lost, as is what it showed when it is configured
or comes out from under another window; `Expose` does not ask for a new frame.
On Wayland a shared buffer of the right number of bytes is used again
(`SharedBuffer`). The user moves, resizes or hides the window with nothing
pressed; `PointerRouting` is about what happens otherwise. `ViewAssumption`,
`TouchAssumption` and `FrontEndAssumption` give the constants their types: rows of
keys with natural widths, natural touch ids, pairs of numbers for sizes and
places. Between two polls the output announces at most one mode: of two, the
window would be placed for the first and meet the second in the same poll, which
is what a later change of the mode does anyway, since only the first placement
looks at the mode.

Run `glass`: three keys of two widths and the logo, two touches, windows of 2x2
and 3x3 on outputs of 4x4 and 3x3, samples enough for two optimizer passes, in
four scenarios (two fingers; one finger that teaches; a mouse; the window and its
output). Fairness: weak for the loop's steps, since the loop blocks only with a
timeout; strong for the server's answer to a configure and the window manager's
to a map, because in the model they act only between polls, while in reality they
are processes of their own. `Settles`: once hands and outputs rest a visible
window has the size asked for last, and shows the current scene or, on X11 only,
nothing (section 12).

## 11. Who takes an event: `PointerRouting.tla`

The three layers an event passes in `main.rs`: window gestures, the terminal
pane, the bridge, with the tray and the shell row, for one pointer with two
buttons and one finger on symbolic zones. The run `ghost` is finding 2. With
`HasTouch = FALSE`, one button and no pane `NoGhostHold` holds.

## 12. Findings

With a run:

1. `wrong_slot`, `serve.rs:415`: `to_close` lists the slots closed while reading
   before those closed while flushing, and is walked backwards while the `Vec`
   shrinks. If a slot closed by the flush pass has a smaller index than one
   closed by the service pass, the wrong session is removed, or the index is past
   the end. The default of one connection is not affected.
2. `ghost`, `src/main.rs:853`: during a window gesture every release is consumed
   by the gesture, also the one that ends the press of a key by another contact,
   be it made before the gesture or, as in the trace, during it; the key stays
   pressed.

Met while modelling. The models follow the code in each of these; where a
property holds only beside them, its comment says so.

*Broker.*

* `ferrokey-uinput/src/device.rs:322`: the ledger is changed before the write; a
  failed write can leave a key down that no session owns.
* `serve.rs:541`: a session closed by the handshake gate loses the replies queued
  by the same read, which the comment says are flushed.
* `codec.rs:140`: an error in a frame drops the messages decoded before it from the
  same read; a KEY_UP among them is not applied, and the session's end releases
  the key instead.
* A peer that neither reads nor closes keeps its slot and its keys: there is no
  timeout.
* `session.rs:118`: a HELLO with the wrong version is refused after the session
  was changed, against "no partial mutation".
* `ferrokeyd/src/device.rs:51`: ledger errors are recognised by names their text
  does not contain; the peer is told INTERNAL instead of InvalidKeyState.

*Keyboard and text.*

* Rollover, `state.rs:247`: the cap is checked before the modifiers of the same
  press are injected and does not count them, against
  `held_count <= max_held_keys` of `docs/architecture.md:61` and `:379`. With the
  shipped limits, 16 in the driver and 16 in the broker, a press with a latch
  pending can exceed the broker's limit: it refuses the key and ends the session.
* `src/main.rs:910`: the loop notices a lost daemon and releases nothing, against
  the recovery contract of `daemon.rs:10`.
* `src/text.rs:157`: an error in the middle of `type_text` leaves its modifiers
  down.
* `state.rs:401`: a modifier taken away with the key it was injected for keeps
  its tap track, and the next tap of it is judged by the old track.
* `text.rs:64`: a symbol that is fed again is typed under the modifiers of the
  press, though the first round used up the latch (latched Shift, Compose, A, A
  gives "Aa"). Caps Lock counts as Shift for every key. Pressing Shift between a
  dead key and its base cancels the accent. The composer is not reset when the
  destination changes or the link is lost.
* `sink.rs:180`: the terminal's Caps Lock is said to be in lockstep with the
  driver's, but misses what is toggled for the system destination; the sink
  forgets a modifier kind when the first of two keys of it comes up.
* `key_encoder.rs:1`: Alt with a cursor or function key sends an ESC in front of a
  sequence whose modifier parameter already names Alt, where "the exact byte
  stream a real terminal would emit" is the sequence alone.

*Lifecycle.* A signal to the supervisor before its handlers are installed kills it
and leaves the broker serving. The socket is not unlinked on exit.

*Terminal.*

* `parser.rs:14`: fields of a cancelled control sequence leak into the next one;
  one cancel after an ESC inside a string resumes the string.
* `parser.rs:491`: an escape sequence with an intermediate leaves its count behind
  even when it ends normally. After ESC SP F the next CSI q is taken for DECSCUSR
  (`terminal.rs:1268`).
* `viewport.rs:7`: output does not put a scrolled view back to the newest line,
  except by entering the alternate screen; but the offset counts from the newest
  line, so the view slides over the text with every line that is pushed. Only the
  former is what `OutputNeverYanks` says.
* A resize on the alternate screen does not resize the saved main screen; a full
  reset stays on the alternate screen; CSI r without parameters gives a region of
  one row; evicting a line shifts the rows under a selection; a cursor that only
  moved may stay painted at its old place; the exit bar is not marked dirty.
* `terminal.rs:450`: the read budget's subtraction can wrap, so that a poll reads
  without a bound; input can be reordered within a poll when the first of two
  buffers is blocked; input typed to one shell may reach the next.

*Front end.*

* Escape hides the window through Slint while the loop's own flag stays true, so
  the tray has to be used twice.
* The X11 `set_position` does not clamp, though the `Surface` trait says so; a
  smaller output mode later does not place the window again; after hide and show a
  buffer may be attached before the new configure.
* `x11.rs:365`: `Expose` only marks the window ready. A frame put before the window
  manager maps the window (`x11.rs:509` takes it for mapped at once), or lost under
  another window, is not drawn again until the scene changes. A map that a hide
  has overtaken shows the window again.
* `wayland/mod.rs:368`: a new size of the same number of bytes is drawn into a
  buffer of the old shape. No resize gesture asks for one, since it changes both
  sides in the same direction.
* `touch.rs:4`: lifting a touch that is not the first releases and presses the
  first again; on Wayland it releases the first finger's key.
* `geometry.rs:438`: the initial ellipses are inscribed, so the corners of keys
  are dead to touch, though before learning they are said to behave like the
  rectangles. `geometry.rs:246`: the overlap constraint is not enforced by the
  final clamp.
* In the pane: a key pressed and released over the pane stays down; the close
  button stays armed; two contacts on one key: the first release lifts it.

## 13. Proofs

What follows holds for every value of the constants that satisfies the named
assumptions: any number of connections, keys, messages, sessions, list entries,
and any limits. Each theorem rests on an inductive invariant. The runs check the
same properties on small instances, and their mutants show that the properties
can fail.

### `Induction.tla`

The library states induction with an operator as a parameter, which the provers
here cannot instantiate. Stated with a set instead it can be applied:
`SetInduction` and `BoundedInduction` (a set of numbers that contains 0 and is
closed under successor), `SeqInduction` (a set of sequences closed under
`Append`), `RecursionExists` and `RecursionUnique` (a run that is given step by
step exists and is unique). The proofs about the decoder's loop, the filter's
interpreter, the value of a parameter's digits, the messages of a poll and the
rows of the view are inductions of this form.

### `BrokerProofs.tla`

For every `Conns`, `Keys` and every limit satisfying `BrokerAssumption`:

* `TypeCorrect`, `OwnershipCorrect`, `HandshakeCorrect`, `ShutdownCorrect`,
  `LimitsCorrect`: `TypeOK` and four invariants of the runs;
* `DefaultNeverPanics`: with `MaxConnections = 1` the removal never panics;
* `BrokerKeepsPromise`: without write faults, every step of the broker is a step
  of `KeyOwnership` or leaves `held` and `kernel` unchanged;
* `ClosingInert`: the action property `ClosingIsInert`;
* `RemovesMarked`, `FrameBeforeFin`: with at most two connections, the action
  properties `OnlyMarkedRemoved` and `ErrorFrameBeforeClose`.

`BrokerAssumption` asks only that the key set is finite, foreign keys are not
keys, and the limits are positive, which `DaemonConfig` validates.

The invariant for the keys is `TypeOK /\ KeyInv`. `Ownership` alone is not
inductive: removing a slot releases the keys of *one* session, and that is right
only if no other session owns them and the sessions' slots are distinct; and a
message is processed for `sessions[cursor]`, so the cursor must be inside the
`Vec` (`PassShape`: the poll set is a prefix of the slots, as slots are only
appended before the passes end). `KeyInv` adds to ownership that only live
connections that finished the handshake own keys (`KeysOnlyAfterHandshake`,
`HandshakeOrder`) and that a connection that is not live owns none, so a slot
that is accepted starts empty. `StepCases` splits a step into those that touch
keys (key down, key up, release all, removal, shutdown, the end of the process)
and all others, which leave `held`, `ledger`, `kernel` and `failed` alone.
`CleanShutdown` follows from ownership at the step `Shutdown`. The absence of
panics with one connection rests on `CloseShape`: at most index 1 is ever
marked, and once.

For the removals three more invariants are needed. `SlotsDistinct`: no connection
has two slots. `PassMarks`: what a pass has not reached yet has no reason to
close, and a session that is closing with frames left is marked only when a write
to it failed. `MarksMean`: no index is marked twice and every marked index within
the `Vec` names a session with a reason. The last one is where the bound comes
from: with two slots the indices that remain are those before the removed one,
with three a later slot moves under a marked index. Two is therefore sharp, which
run `wrong_slot` shows (section 12).

### `UiKeyboardProofs.tla`

For every set of plain keys, buttons and text modifiers and every limit that
satisfies `KeyboardAssumption` and `UiAssumption` (the three kinds of key are
disjoint, plain keys are finitely many, only plain keys repeat):

* `UiTypeCorrect`, `LockCorrect` (only Caps Lock locks), `RepeatCorrect`
  (`RepeatOnlyHeld`);
* `NothingStuck` (`NoStuckKey`), `InactiveReleased` (`InactiveHoldsNothing`),
  `ChordsDoNotLatch` (`ChordNeverLatches`), `KeysAccounted`
  (`KeyboardModeAccounted`): with every fault of the link and the terminal;
* `BrokerFollows`, `BrokerFollowsText` (`BrokerAgrees`) and `TypedAsMeant`
  (`TypesWhatWasMeant`): without faults of the link and without the terminal, for
  any limits of driver and broker; up to the first press a full session refuses;
* `SpecialKeysRead` (`TerminalKeyReadable`): for every keyboard.

The types come first because the others rest on them: that a release takes no
plain key but its own away is true only because injected keys are modifiers,
which is part of the type of the state. The argument goes through lemmas on the
operators (`PressType`, `ReleaseType`, `PressFacts`, `ReleaseFacts`), so that the
steps of `UiKeyboard` only have to say which operator they apply. What repeats is
a held *plain* key (`LockRepeatInv`), since a modifier could be taken away with
the key it was injected for.

`HandOver` makes `NoStuckKey` inductive: a press that is on the way is of a key
that is depressed or whose release comes after it in the same list, so that
dropping any first part of the list leaves nothing behind. `Routed` adds where
the events go, for the destination that is not active. `Chords` says that a
modifier held while a plain key was pressed has a track that is marked used;
`ReleaseMarks` shows that no release and no timeout takes the mark away.

`BrokerAgrees` holds between handlers; in the middle of one the two sides differ
by what is still to be sent. `Agreed` says how: `Carried(Room, pending, session,
st.depressed)`, there is a trace of key sets that starts with the broker's, ends
with the driver's, and in which each pending event changes the set as a session
would that is never full (`Room` is the driver's limit and the most a press can
inject). The session of the model has the limit of its broker, and the next event
of such a trace is one it serves or a press it has no room for: no release or
repeat is of a key it does not hold, and no press of one it does. `AgreedSoFar` is the trace up to the first refusal and, after it, that
the refusal was for want of room. No relation between the two limits is assumed,
so the shipped ones are covered.

`TypesWhatWasMeant` adds to the trace what each press in it makes (`Typed`), and
to the state how far `type_text` is (`Phase`): before its tap the modifiers that
are in effect with those it still has to press make the character; after it the
modifiers it still has to release are those it pressed itself, each by its own
key, so that a symbol that is fed again meets the modifiers of the press
(`Undo`). That the extra modifiers do not latch when they are released is
`ReleaseMarks` again. `TextLayout` is needed because a key in text mode is tapped
rather than held only if it makes text: a key that made a character on one level
and a function on another could be held, with modifiers injected for it, when
`type_text` taps it. No key of the six built-in layouts is of that kind, and none
of them uses the Fn layer.

`SpecialKeysRead` compares the modifiers the terminal's sink has counted with
those that are down, while events of the current handler are still on their way.
`Heard` says that there is a set of keys the sink has heard of, that its modifiers
are their kinds, and that the pending events lead from that set to the driver's:
the trace of `BrokerAgrees` with another receiver. When a special key is at the
head of the events, the modifiers before it have all been served, because a press
lists its injected modifiers first and a repeat carries none. The rest is the
encoder: what is sent for a special key has one of few forms (`SpecialShape`), and
its parameter holds one bit per kind (`ParamBits`), so reading it gives key and
modifiers back (`SpecialRead`), behind the ESC that Alt or Meta adds (`TailEscape`).
The sink keeps kinds, not keys, and forgets Shift when the first of two Shift keys
comes up (section 12); `Heard` therefore bounds its modifiers from both sides, by
what is held and by what is held and has no second key.

### `WireProofs.tla`

For every bucket, frame limit, message set and cut of the stream that satisfies
`WireAssumption` (the longest text fits a frame, the client's messages are
messages of the protocol):

* `BucketTyped`, `RateLimited` (`WindowBound`);
* `DecoderExact` (`DecodesExactly`), `ClientUnderstood` (`HonestUnderstood`).

`WindowBound` counts what was admitted in a window; inductive is `Account`: what
was admitted and what the bucket would hold now are together within the burst and
the refill of the window. `DecodesExactly` is an induction over the decoder's loop
(`Turn`), whose number of turns is bounded by the buffer's length: each turn takes
one frame off the buffer and adds one message, and encoding the message gives the
frame back. `HonestInv` adds for the UI's client that buffer and socket together
are the encoding of the messages that are not delivered yet, followed by nothing
or by a part of one frame if the client has stopped (`Pending`). That no proper
part of a frame is taken for one is `PartialStep`.

### `LifecycleProofs.tla`

For every number of starts, scope, and allowlists satisfying `FilterAssumption`:

* `ServesFrozen` (`FrozenWhileServing`): `FreezeInv` says for every place of the
  runtime's code what the calls before it have given up and read back, by nested
  sets of places (`PastBounding` to `Probed`);
* `ReturnLeavesNothing` (`ExitLeavesNothing`): `HandoffInv` says that who holds an
  end of the pair or the device is alive, and whom the supervisor has waited for
  where;
* `FilterDecides` (`FilterExact`): for allowlists of every length, running the
  program decides every call as the lists say. The proof follows a run
  (`IsRun`) through the program: `ListRun`, by induction over the list, shows that
  it reaches the `ALLOW` behind the entry that matches or the end of the list; the
  rest is the jump offsets of the two chains.

### `ShellProofs.tla`

*The session*, for every bound that satisfies `SessionAssumption`: `SessionTyped`,
`NoneLeftBehind` (`NoStray`), `DeliveredOnce` (`EachTokenOnce`). `HandleInv` ties
the PTY, the handle and the point of the thread together: a session is started
only when the handle of the last one is gone. `OnceInv` adds to `EachTokenOnce`
that every token in a buffer has been accepted, so that a new one is in none; the
steps are then of four kinds (a buffer is dropped, handed over, moved in part, or
gets a new token), each with its lemma (`Dropped`, `Handed`, `Moved`, `Added`).

*The parser*, for every stream of bytes and every limit: `ParserTyped` (it keeps to
its storage), `CancelAlwaysRecovers` (`CancelRecovers`; `Recovery` says where the
parser is after one cancel byte and after two), `SequencesMeanTheirBytes`
(`CsiMeansItsBytes`).

The last property speaks of the moment of dispatch. `Reading` says what the
fields mean before it: inside a control sequence that began with its fields
reset, the bytes so far follow the grammar (`Prefixed`), and the fields say what
those bytes mean (`Means`), in one of three stages: just entered, counting a
parameter, collecting intermediates (`Entered`, `Counting`, `Collecting`). Two
functions are the witnesses: where each separator stands (`Stops`) and the value
of each run of digits up to a position (`Sums`). `SaturatedSum` is the arithmetic:
a value that saturates digit by digit is the decimal value cut at the limit once.
A byte that does not continue the grammar leaves the three states
(`OnlyEnters` has the converse: only an introducer enters them), and a final byte
gives what the reference reads (`RefCsiIs`, `RefParamsIs`).

### `TerminalProofs.tla`

For every size between the limits, every history length, set of characters,
attributes, parameters and workloads that satisfies `SizeAssumption` and
`TerminalAssumption` (two columns at least, a narrow character exists, since
DECALN prints one):

* `TerminalTypes` (`TypeOK`): no operation takes the cursor, the region, a mark or
  a scroll offset out of its range, on either screen;
* `FrameShowsTheCells` (`FrameShowsCells`), `OutputNeverYanksTheView`
  (`OutputNeverYanks`), `MainScreenIsKept` (`MainScreenKept`),
  `SelectionStaysAnchored` (`SelectionAnchored`).

`FrameShowsCells` speaks of a settled pane, so it is not inductive: while a chunk
is fed the grid and the frame differ. `IInv` says by what (`PaneKept`): each row of
the pane is right, or marked on the pane, or - inside a plain chunk and while a
synchronized update is open, before the grid's marks are taken over - marked on
the grid (`Shown`); and a chunk fed under an update that has been closed since has
marked the whole pane. The proof follows the layers of the code. Every operation
of `grid.rs` keeps the grid well formed and marks the rows it changes (`Edited`,
one lemma per operation); a parser action leaves a pane that is right where
nothing is marked, keeps the saved screen and the look back (`Fed`, `Emitted`);
taking the marks over and painting preserve it (`MarkShown`, `RenderActed`); what
the user does marks the whole pane (`Acted`). A scroll with a history moves the
document under the window by one, which is why a pushed line marks everything.
`SelectionStaysAnchored` is about content and not about marks: each of the four
operations rolls the rows up by one (`PutCharRolls` and its neighbours), and the
line that leaves is the last of the history, cell for cell.

### `FrontEndProofs.tla`

For every view, touches, points, sizes, places, outputs and scenarios that satisfy
the three assumptions of section 10:

* `FrontEndTypes` (`TypeOK`): with it, that of the regions a touch reaches one is
  the nearest, so `hit_test` has an answer;
* `NoKeyOutlivesItsTouch` (`LiftedReleases`);
* `WindowStaysOnOutput` (`PlacedOnOutput`);
* `RegionsKeepTheirLimits` (`HitWithinLimits`).

*Lifted hands.* `LiftedReleases` looks at empty queues; what the steps before
preserve is about full ones. A sequence *rests* when the last of its steps that
matters is a release, or it has no press and nothing was held before (`Rests`);
presses are *orderly* when each comes while nothing is held (`Orderly`).
`HandsInv` says that the events rest with the bridge as it is, and that the inbox
rests with the events behind it, for each kind of contact whose hands are up; that
the pointer's presses are orderly, because the bridge forgets the key of a press
when another comes; and that the bridge lights no key but the two it remembers.
On X11 the tracker is between the two: per touch the inbox rests with the tracker,
and the tracker has sent its release when its last touch is gone. A poll
translates a whole inbox; `AllPolled` carries the three facts through it by
induction over the messages, with one lemma per message.

*On the output.* `margins_for_position` puts every place on the output
(`MarginsFit`), so what matters is that each step that changes margins, size or
`positioned` goes through it with the current size and output. This needs that on
Wayland the surface exists and its pending size is its size (part of `SurfaceOK`),
and that a poll that places the window sees no second mode (`OneMode`).

*The limits.* `Learned` says that the regions are within their limits and the
statistics are those of real numbers: `n` times the sum of squares is at least the
square of the sum (`SpreadGrows`, one step of Cauchy's inequality), so the variance
is not negative and its root exists. Candidates and competition then only have to
keep shapes (`CompetitionTyped`); the clamp does the rest (`ClampFits`), and the
roundings are where it could fail. Scaling a region up to the minimum area rounds
down: below the area there are only six pairs of radii the limits admit, and the
scaled pair is checked for each (`ScaledUp`). The pull half way back to the old
region is not clamped again: two regions within the limits have one between them
within the limits as well (`HalfWayBetween`), since the pair of least radii that
misses the area is never the outcome of a clamp.

### Only model-checked

* Liveness (`StopEnds`, `DoomedSessionEnds`, `CleanStartServes`,
  `StopReachesBroker`, `ExitNoticed`, `Settles`): fairness is out of the prover's
  reach. Every other property of a passing run is a theorem.

## 14. Not modelled

* `ferrokeyd/src/server.rs`: the crate does not compile it.
* Fonts, glyph rasters, layout and locale tables, keycode tables, Slint markup:
  data without state whose order could go wrong. The frame of `Terminal` is which
  cell was painted with what.
* Reading YAML: `Lifecycle` has its outcome (accepted or refused).
* The tray's D-Bus protocol, xkb keymaps, the clipboard: libraries' work; their
  effects on the loop are actions of `FrontEnd` and `PointerRouting`.
* The delay of the link's backoff.
* Functions without a caller: `release_all` of the device, `wait_time` of the
  bucket, `set_enabled`, `set_frozen`, `reset`, `explain`, `feed` and `evaluate`
  of the geometry.
* The kani harnesses: proofs of their own over the same functions.
