# The Bluetooth audio headset of the RTL876x3E SDK in TLA+

This directory models parts of `src/src/sample/bt_audio_trx/`, the audio
headset application of the SDK, and of `src/src/ble/`, the BLE libraries below
the applications. They are the parts of the repository with long-lived
protocol state of their own; the rest is drivers, prebuilt libraries, board
files, vendored code and single-peripheral samples. Paths below are relative to
`src/src/sample/bt_audio_trx/` unless they begin with `src/`.

All the code modelled runs in one application task. There is no preemption
inside a handler, so a handler is one action. Concurrency comes from what
arrives *between* handlers: events of the Bluetooth stack, timers, commands of
the host on the UART, and keys.

## Inventory

| Component | State it keeps | Operations | Talks to | What is hard |
|---|---|---|---|---|
| Linkback todo queue (`bredr/app_linkback.c`) | a pool of 8 nodes, used flags, a linked list with head and tail | insert at tail or head, take first, remove profiles, delete all, delete the group | connection policy, `CMD_BT_CREATE_CONNECTION` | the list and the pool must agree after any mix of operations; a full pool drops silently |
| BR/EDR connection policy (`bredr/app_bt_policy.c`, its API, the active node of `bredr/app_linkback.c`) | state and radio mode, active node, timers, flags, shutdown step, `b2s_connected`, `app_db.br_link` | one handler per stack event, host event and timer | stack (requests and events), host commands, MMI, device manager | late and crossing events, pages and incoming connections at once, the link limit, every way out of linkback, shutdown at any time |
| UART transfer queue (`app/app_transfer.c`, `CMD_ACK` of `cmd/app_cmd.c`) | a ring of 40 packets, status, retry count, two timers, a wake lock | push, pop, ack, two timeouts | host, console driver, deep sleep | wrap-around, lost and late acks, refused writes, recursion of pop |
| Data transfer ring (`app/app_transfer.c`, `bredr/app_spp.c`, `ble/app_ble_service.c`) | one ring of 16 packets for all LE and SPP links, status, resend count, timer; credits and readiness of the links | push, pop, ack check, send complete, timeout, reset | LE and SPP links, their peers, host | overwriting a full ring, credits, acks and completions of other packets, one link's trouble holding up or discarding what waits for another |
| GATT table store (`src/src/ble/gatt_client/gattc_tbl_storage.c`) | in flash: a header with 8 entries and the bitmap of unused blocks, data blocks behind it; nothing in RAM between two calls | store, look up by device or by database hash, CCCD and GATT data set and get, remove, clear | GATT client (events), bond manager, flash | several flash writes to a change, any of which may fail or be the last; blocks that move between bitmaps; tables copied from one device to another |
| BLE privacy manager (`src/src/ble/privacy/privacy_mgnt.c`) | a table of the bonds with what is to be done for each, a pending clear, the request under way and its index, idle or busy | bond added, deleted, cleared; handle list; response; resolution status | GAP, controller, bond store, application | one request at a time while bonds change; refusals; a response for an entry that changed meanwhile |
| Automatic power off (`power/app_auto_power_off.c`; its callers in `app/app_device.c`, `ble/app_ble_gap.c`, `power/app_dlps.c`) | a mask of holds and one timer; two flags of the indications | hold, release, timeout | policy, LE links, power-down | every part sets and clears its own hold on different events; one never released keeps the headset on, one released too early switches it off in use |
| OTA (`ota/app_ota.c`) | image offsets, buffer check, retries | commands of the updater | UART, LE, SPP, flash | restart in the middle of an image |
| Bond database (`bond/app_bond.c`) | priorities of bonded devices | add, delete, reorder | flash, policy | order after deletions |
| Deep sleep, charger (the rest of `power/`, `charger/`) | bit masks, timers | enable, disable, timeout | all | a lock never released |
| MMI and keys (`app/app_mmi.c`, `app/app_key_process.c`) | click counters, reboot check | key events | policy, audio | reboot while links are up |
| Multilink, sniff, profiles (`bredr/app_multilink.c`, `app_sniff_mode_cs.c`, `app_hfp.c`, `app_a2dp.c`, `app_avrcp.c`) | active device, call state | stack events | audio | arbitration between two phones |
| LE (`ble/`, `lea_src/`, `lea_snk/`, the rest of `src/src/ble/`) | advertising sets, audio sessions | stack events | LE links | advertising state against connection state |

What makes the first seven correct:

- the queue: no node leaks, none is served twice, order is kept, and the whole
  behaves like a sequence;
- the policy: never more devices than places for good; the link count equals
  the links; linkback ends; a device asked to leave leaves; pairing mode only
  with a place to spare; switching off ends, at any time;
- the UART queue: packets leave in order, none is stuck, none is lost silently,
  retries are bounded and the chip may sleep when nothing is awaited;
- the data ring: the same, for every link, whatever happens to the others;
- the table store: what it answers is what was stored for that device, or it
  answers nothing; no block is lost or in two entries' bitmaps, wherever a
  change was cut short;
- automatic power off: the countdown runs when the headset is idle, never while
  it is in use, and then ends;
- the privacy manager: a response meets the entry it was asked for, and once the
  module calls itself idle the controller's lists are the bonds.

## Modules

| Module | Models | Kind |
|---|---|---|
| `LinkbackNodes` | node records and the queue operations as operators on sequences | operators |
| `LinkbackQueue` | the queue as a sequence, one action per operation | abstract specification |
| `LinkbackPool` | pool, used flags, `next` links, head and tail as in the C code | detailed specification, implements `LinkbackQueue` |
| `LinkbackPolicy` | active node, `linkback_run`, `stable_sched`, `enter_state`, the connect, disconnect and timeout handlers as functions on a policy record | operators |
| `BtPolicy` | the policy with its link table, shutdown steps, host commands and the stack below | specification, uses `LinkbackPolicy` |
| `AutoPowerOff` | the countdown, the LE links and the authenticated phones | specification, extends `BtPolicy`: the composition |
| `PacketFifo` | a bounded queue of packets, some of which leave in each step | abstract specification |
| `PacketRing` | slots, indices and order of a ring, for both rings | operators |
| `UartTx` | the UART ring | detailed specification, implements `PacketFifo` |
| `DataTransfer` | the ring for SPP and LE links | detailed specification, implements `PacketFifo` |
| `GattcCache` | a cache of service tables that may forget and invents nothing | abstract specification |
| `GattcStorage` | header, bitmaps and blocks in flash, with faults between two writes | detailed specification, implements `GattcCache` |
| `Privacy` | the privacy manager, with bonds and controller around it | specification |
| `RingProofs` | lemmas about `PacketRing` | proofs |
| `LinkbackPoolProofs`, `BtPolicyProofs`, `UartTxProofs`, `DataTransferProofs`, `GattcStorageProofs`, `PrivacyProofs`, `AutoPowerOffProofs` | theorems about the seven | proofs |
| `MC*` | small instances | for TLC |

`BtPolicy` keeps the queue as the sequence of `LinkbackNodes`; that the linked
list may be read as that sequence is what the refinement of `LinkbackPool`
shows.

### The queue

`LinkbackPool` follows the pointers: `Malloc` takes the first free item, as the
`for` loop does, insertion links at either end, and `DeleteGroupMember` gives
the list its members that remain, in order. `Chain` is the traversal from
`head`. `Todo`, the nodes it meets, maps it to `LinkbackQueue`. `retry_timeout`,
`is_special` and `check_bond_flag` are payload that no operation of the queue
looks at, and left out. A freed item keeps its node and its pointer, as in the
code.

### The UART queue

A packet is an id and one of three kinds, which leave the ring in three ways:
`once` (`EVENT_ACK` and the data events: gone when the console took them,
polled every 10 ms when not), `map` (written once, whatever the console
answers) and `event` (waits for `CMD_ACK`, written again every 800 ms). With
`report_uart_event_only_once` every packet is of the kind `once`.

`app_pop_data_transfer_queue` calls itself for every packet that needs no
answer. `Drain` is that whole recursion in one step: it chooses how many
packets leave at the head and what stops it (the end of the ring, a refused
write, or an event that waits). `acks` is what the host has sent back and the
task has not read yet; `LoseAck` loses it, and an event the host never heard
adds nothing to it. `LateAcks` says whether an ack can outlast the 800 ms.

`pushed`, `written` and `heard` are history variables, used only by properties.

### The data transfer ring

`slots`, `rIdx`, `wIdx`, `resend`, `status` and `timer` are `dt_queue`,
`dt_queue_ctrl` and the one timer; `state`, `credit` and `ready` are what pop
reads of the links. `handed` is what the stack has accepted on an LE link and
not yet reported complete, `answers` the `CMD_ACK`s a peer has sent. `sent` and
`pushed` are history.

A handler changes some of these and then calls `app_pop_data_transfer_queue`.
The record `Now` holds them, the handler passes a changed copy to `Pop` or
`PopNext`, and `Becomes` makes the result the next state. Pop calls itself after
a data-capture packet or a refused `EVENT_ACK` on SPP; `Passes` and `Passed` are
that recursion, and `Serve` is what happens to the packet then at the head, one
disjunct for each branch of the C function. A packet is an id, a link and an
event. The id is only for the properties; the code knows the event id alone, so
an ack of one packet may fit another.

IAP and GATT over BR/EDR are switched off in `app_flags.h` and left out;
`F_APP_DATA_CAPTURE_SUPPORT` is 1. A peer answers events only, not `EVENT_ACK`
and not data-capture packets. When a link ends, what was under way on it is
gone. An empty ring has a null packet pointer at its head, from which
`app_transfer_queue_recv_ack_check` nevertheless reads an event id; the
comparison may come out either way, which makes no difference to an empty ring.

`Inputs` names what the surroundings may do. Without `late` an answer or
completion under way comes before the timer; without `starve` a link never runs
out of credits; without `full` packets are only reported into a ring with room.

Both rings implement `PacketFifo`: `queue <- Queue`, the active slots from the
read index on, and `count <- pushed`. That is more than order: nothing is
doubled, nothing appears, and at most as many packets as the ring has slots wait.

### The GATT table store

The GATT client asks for the table of a device before it discovers services,
and hands a discovered one over to be kept. The application that registers the
store has nothing else to remember, so `header` and `flash` are all the state
there is; `reply` is what the last call answered. Every call loads the header,
changes the copy, writes data blocks and saves the header last. A failed write
and a loss of power leave the same: the blocks so far and the old header.
`WriteThenSave` is that choice, `Faults` says which flash calls may fail.

Blocks are named by their bit. `Lowest` is `gattc_tbl_bitmap_assign`, `Freed`
`gattc_tbl_bitmap_free`. `Cell` is the number that `gattc_tbl_write_data` and
`gattc_tbl_read_data` take for a bit; it is not the number of the bit, see
below. Lengths are counted in blocks; a crc is the data it is the crc of, so
that no corrupted table passes for another. A table copied by database hash
gets the room for CCCDs that `cccd_data_len` says, read after the header that
holds it was freed: `CopiedRoom` is that length or one of `Garbage`. The count
of blocks for it is a `uint8_t` (`Byte`), so that of a length of 256 blocks
nothing is left; only a setting that is stored is sure to fit its room
(`TypeOK`). That tables and bitmaps have less than 256 blocks is assumed: the
partition has at most 64.

`GattcCache` says what the client may count on. `Refuse` lets any call fail and
any entry be forgotten; an answer, when there is one, is the entry's.
`Claim` reads an entry off the header; `ImplementsCache` then says that what
the crc lets pass is what the header claims.

### The privacy manager

`mgr` holds the module's variables: the table, `privacy_clear_pending`,
`privacy_modify_resolv_list_pending`, its index, and idle or busy. A handler
changes a copy and passes it to `Handle`, which is
`privacy_handle_resolv_list`: nothing while resolution is on and the device is
not idle, otherwise `HandleInt`, which sends at most one request. `HandleList`
closes its loop: the entries before the one that is sent were refused by GAP and
dropped. `request` is what the controller works on; `Succeed`, `GiveUp` and
`Fail` are its answers. A white list change is done when the request is sent.

`refused` and `missed` are history: devices a request was given up for, and
devices a change of which met one of the four windows listed under "What the
code does not guarantee".

### The policy

`bp` is a record of the static variables of the two C files: state, radio mode,
active node, queue, running timers, `startupDone`
(`startup_linkback_done_flag`), `linkbackFlag`, the wish for pairing mode and
whether it is forced.
`links` holds `b2s_connected.num`, the used entries of `app_db.br_link` with
their profiles, and in `leaving` the entries with `acl.disconnected`. `acl`,
`closing`, `search`, `conns` and `discs` are the stack: what it was asked and
has not answered.

A handler that calls `linkback_run` is one action with it. The loop of
`linkback_run` (take a node, drop it when it has nothing to do, take the next)
is closed into `SkipCount`: the number of queued nodes it passes before it finds
work or the end.

A linked device may open a profile itself, since the application confirms every
`BT_EVENT_..._CONN_IND`: `OpensItself`, the other way into `ProfConnCmpl`.
`PeerOpens` bounds who opens what. The handler then runs linkback if it was
waiting for this profile, whatever search is under way; for the moment in which
that is the search for this very profile, `peer_race` must be among the
`Inputs`.

Environment events are named by the constant `Inputs`; a run states which it
admits. `StableOnly` names those of them that come only while the policy is in a
stable state (connected, pairing, standby). The liveness run needs that
restriction, because the code does not survive the same events at other times;
see "What the code does not guarantee" below.

Abstractions: every profile is searched by SDP before it is connected (only HID
is not, and HID is left out); starting a search succeeds; two searches of the
same device are one; the device thrown out
by `app_multilink.c` is any connected device; the times of the timers are left
out, a started timer may fire at any step; `use_left_time` decides by the clock
and the model by either answer. The options of `app_bt_policy_cfg.c` are as that
file sets them, `APP_DASHBOARD_DEMO_SUPPORT` is not defined and no call is in
progress.

### Automatic power off

`AutoPowerOff` composes the countdown with the policy. Every step of `BtPolicy`
is a step of it, with what `app_device_link_policy_ind` makes of it:
`StateInd` is its `BP_EVENT_STATE_CHANGED` with the two flags it keeps, `AuthInd`
its `BP_EVENT_SRC_AUTH_SUC`. `AutoTimeout` is the key event that switches the
headset off, as `PowerOff` of the policy. `auto.holds` is `poweroff_flag`; the
LE links are counted as `app_ble_gap.c` does, by their states. `authed` is
history for the properties: the phones whose authentication ended well.

`app_cfg.c` of the sample leaves `timer_auto_power_off` at zero, which switches
the whole mechanism off; the model is of a product that sets it. The holds of
keys, audio, OTA, the charger box and the host are masks of parts not modelled.

### Faulty variants

Operators named `Bad...`, each beside the definition it varies and commented
"Faulty", are that definition with a plausible mistake in it: a dropped guard,
a missing reset, an off-by-one. Nothing uses them. Substituted for the original
they make one property of a run fail, which shows that the property can see it.

## Runs

| Run | Bounds | Question and result |
|---|---|---|
| `linkback_pool` | 3 items, 4 devices, one profile, symmetric devices | `TypeOK`, `ListMatchesPool` (list and used flags agree, tail is the last, no address twice), `ImplementsQueue` hold |
| `uart_tx` | ring of 3, 1 retry, 5 packets of any kind, acks in time | `TypeOK`, `RingInv`, `NeverStuck`, `RetryBound`, `NoSilentLoss`, `ImplementsFifo`, `EveryPacketLeaves` hold |
| `uart_late_ack` | the same, acks may be late | `NoSilentLoss` is **violated** |
| `dt_calm` | an SPP and an LE link, ring of 3, 2 tries, 3 packets, 2 events; the stack may refuse | `NoUnsentLoss`, `EveryPacketLeaves` hold |
| `dt_rough` | the same with 1 event and 1 credit; everything but a full ring | `TypeOK`, `RingInv`, `NeverStuck`, `SendBound`, `ImplementsFifo` hold |
| `headset` | the composition: 3 bonded devices, 2 places, 3 entries, 2 profiles, 2 LE links; disconnects, incoming connections and pairing mode in stable states, LE links that come up in standby and end at any time, refusals, power-off and the AVRCP that one of the devices opens always | `OneSearch`, `StableIsIdle`, `CountdownWhenIdle`, `LinkbackEnds`, `LeaversLeave`, `PowerOffEnds`, `ShutdownRunsOut`, `ForgottenTurnsOff` hold |
| `bt_stack` | 2 devices, one of them bonded, 1 place, 2 entries, 1 profile; every stack event in any order, the bonded one opening the profile itself, requests to connect, disconnect and pair, power-off | `TypeOK`, `LinkTableInv`, `OverLimitLeaves`, `PairingNeedsRoom` hold |
| `bt_command` | 1 place, 1 entry; `CMD_BT_CREATE_CONNECTION`, page timeouts, partial disconnects, profiles that devices open (`peer_race` too) in any state | `PagesRespectLimit` holds |
| `bt_timeout` | 2 bonded devices; the linkback timer may fire | `LinkbackEnds` is **violated** |
| `gattc` | 3 symmetric devices, 2 entries, 4 blocks of two bits to a byte, tables of 1 and 2 blocks, settings of 1 and 2; flash calls may fail, freed lengths read as before, as 0 or as 256 | `TypeOK`, `BlocksPartitioned`, `OneEntryPerDevice`, `ImplementsCache`, `CccdKeepsTable` hold |
| `gattc_shared` | the same with 5 blocks and no fault | `StoredIsFound` is **violated** |
| `privacy` | 3 devices, table of 2, white list used; 3 bond changes, 2 refusals | `TypeOK`, `AnswerFindsEntry`, `OneEntryPerAddress`, `IdleInStep`, `BusyEnds` hold |

Why the bounds are enough. The pool of three items can run empty with four
devices, and a group member can stand at the head, in the middle and at the
tail, alone or in a row. Five packets go once and a half round a ring of three
that can be full, and one retry tells the first write, the last retry and the
give-up apart. One place and two table entries are the least with which a page
and an incoming connection exceed the limit, and one entry the least with which
a device has none; three bonded devices and two places make linkback pass a node
it has no room for. Two profiles, the second given up with the first, exercise
the related-profile rule; one of them opened by one device crosses every other
event, and all pairs of three devices and two profiles would be more states than
liveness can be checked on. In `bt_stack` the bonded device, which linkback
pages, opens its profile; in `bt_command` both do. `ProfWaits` and `LinkWaits`
are 2 instead of 4: first tick, last tick. Three packets bring both indices of
the data ring of three round to its start. Two links of different kinds are the
least of which one can disturb the other; with two tries the first, the last and
the give-up differ, and one credit can run out. `MaxPush` is a bound of the two
rings, `MaxCredit` of the second, `Plans`, `PeerOpens`, `Inputs` and
`StableOnly` of the policy's, `LeStates` of the composition's, `Garbage` of the
table store, `MaxChanges` and `MaxFaults` of the privacy manager.

Two LE links are the least of which one may end while the other holds the
countdown; that they come up in standby only bounds the state space: they last
into every other state.

In the table store two entries can be full with a third device waiting; the
larger table with its room does not fit beside the other, so that the test for
room fails; a setting of two blocks can be cut in half and does not fit a copy
with less room. Two bits to a byte make entries cross bytes. Three bond changes
are the least for each of the four windows of the privacy manager and one change
behind it; the refusals are of any request, two in one go included.

`uart_tx` is checked without deadlock detection, because the model stops when
all `MaxPush` packets left. Everything else is checked for deadlock.

## Fairness

- `UartTx`: an ack timer that runs fires; an ack on the line arrives or is lost;
  a console that refused a write eventually takes it (its FIFO drains at the
  baud rate). Nothing is assumed of the host: it may never answer.
- `DataTransfer`: the timer fires; answers and completions under way arrive; a
  stack that refuses packets takes one when it is asked again and again; a peer
  returns credits. No peer has to answer, and no LE peer to become ready.
- `Privacy`: the controller answers every request, and the device does not
  advertise or stay connected for ever (the application calls
  `privacy_handle_resolv_list` when it is idle). `GattcStorage` has no fairness;
  nothing there has to happen.
- `AutoPowerOff`: that of `BtPolicy`, and the countdown, an OS timer like the
  others, runs out. LE links need not end and phones need not come.
- `BtPolicy`: the power-on timer, the shutdown step timer and the reboot check
  of the MMI fire; the stack answers what it was asked (a page, a cancelled
  page, an SDP search, a profile connection, a profile or ACL disconnection).
  Host commands, incoming connections, the linkback timer and refusals are not
  fair, nor is what a device opens by itself: only a connection that linkback
  asked for completes.

`app_start_timer` is an OS timer and the stack has its own supervision
timeouts, so both are what the code itself relies on.

## What the code does not guarantee

Three runs end in a counterexample:

1. `uart_late_ack`: `CMD_ACK` pops the head without comparing the event it
   names. The second answer to a repeated event discards the next event.
2. `bt_timeout`: the linkback timer stops a page and waits for
   `EVENT_SRC_CONN_FAIL`, which only a build with
   `APP_DASHBOARD_DEMO_SUPPORT` sends. Linkback never ends.
3. `gattc_shared`: the loops that write and read an entry's blocks count shifts
   of its bitmap, and leave a byte when no set bit is left in it. A byte of
   which the entry owns nothing does not count at all. Bits of different
   entries thus share a data block, and a table stored later overwrites an
   earlier one. Every access counts in the same way and the crc fails, so that no
   wrong table is served (`ImplementsCache`); the earlier device is forgotten.

The model shows more with other inputs, which the passing runs leave out:

- The policy with `create` and `power_off` among the `Inputs`: shutdown does not
  stop the power-on linkback timer. It fires between two shutdown steps, starts
  linkback and ends the steps; the chip is reset by the MMI's count of 56 checks
  instead. `ShutdownRunsOut` fails, `PowerOffEnds` does not.
- The policy with `peer_race`: the device being searched opens the profile that
  was just found (`SDP_ATTR_INFO`), before the search is complete. Linkback goes
  on (`app_bt_policy.c:3840`, `3902`) and stops no search. `OneSearch` fails, since the next
  node is searched besides, and a completion not its own steps it on.
  `ShutdownRunsOut` fails, since the search left behind may complete
  during the shutdown steps, and `linkback_run` then enters a stable state.
- `LeaversLeave` without its exception `KeepsProfile`: a device opens a profile
  after it was asked to leave. That one is never asked to go, and
  `app_bt_policy.c:2133` takes the ACL down behind the last profile only, so the
  device stays.
- The data ring with `full`: a push into a full ring overwrites the packet at
  the head and moves the write index alone. It stays one slot ahead: when the
  ring has drained, new packets wait behind a free head with no timer running.

The privacy manager has no answer in four windows, in which the lists do not
become the bonds for the device concerned: a bond deleted while its add is with the
controller (the response clears the wish); a device bonded again while its
entry is still to be removed (refused as existing, then removed); one added
while the list is to be cleared; one added while an entry to be removed holds
the last place (ignored, though `privacy_add_device` returns true).
`IdleInStep` shows that there is no fifth window and that no other device is
touched. After a failed response nothing is called: `BusyEnds` has the exception
of a device that then stays idle for ever, since only a bond change or the
application's next call would go on.

The data ring keeps its order and stays under way under all but the pushes into
a full ring (`dt_rough`). What it loses then is packets, for which `dt_calm` has
only `refuse` among its `Inputs`. Each of the others, added there, gives a
counterexample to `NoUnsentLoss`:

- `down`: `app_transfer_queue_reset` takes a path and ignores it. The end of one
  link discards what waits for all others.
- `leack`, `late`: on LE both the completion and the peer's ack pop the ring,
  neither with a look at which packet is at the head; one of them discards the
  next. A late ack does the same on SPP.
- `starve`: the poll for SPP credits counts as an ack timeout. Twenty polls, a
  tenth of a second, discard a packet that was never sent.

With `create` among the `Inputs` `CountdownWhenIdle` fails:
`CMD_BT_CREATE_CONNECTION` pages in `STATE_STOP` too, before the first linkback,
and there `event_ind` passes no `BP_EVENT_SRC_AUTH_SUC` on. The phone that comes
does not hold the countdown. `CountdownSound` proves that this is the only input
with which it is held by too little. It is held by too much instead: the hold that an
authenticated phone takes is released by `BP_EVENT_SRC_DISCONN_LOST` and
`BP_EVENT_SRC_DISCONN_NORMAL`, which the policy declares and never raises. A
headset that once had a phone therefore never switches itself off, until the
next power cycle. `ForgottenTurnsOff` and the second half of `CountdownWhenIdle`
except it by name.

The one exception to liveness is written into `EveryPacketLeaves`: an LE peer
that is connected and does not enable its notifications holds up the packets of
all links.

Reading for the model of the policy showed more, which is why `headset`
restricts its inputs; they are listed as hazards with their lines: a full
disconnect during linkback leaves an empty node in work; a disconnect that
crosses a profile connection leaves a device that never leaves (`LeaversLeave`
excepts it by the same name); a connect request in a stable state only waits in
the queue; `CMD_BT_CREATE_CONNECTION` runs linkback outside its state; a page
timeout replaces the queue by the profiles of the last command, which are none
after power-on; a forced request for pairing mode throws a device out and is
then forgotten; a partial disconnect keeps a device over the limit.

## Proofs

`LinkbackPoolProofs` proves for every size of the pool, set of devices and set of
profiles `TypeCorrect`, `NoItemLeaks` (`ListMatchesPool`) and `PoolIsQueue`, the
refinement of `LinkbackQueue`. The invariant is about a sequence of items
(`IsList`): the head is its first, each next pointer the item after, the tail its
last, and it names the used items once each. It needs more than
`ListMatchesPool` says, the pointers, and that no two of its nodes have one
address. `ListIs` shows that a traversal meets such a sequence, whatever the
recursive definition of the traversal, by a least step at which it would not. So
each step is proved by writing down the sequence it leads to (`AppendList`,
`PushList`, `TakeList`, `DeleteList`) and what becomes of its nodes
(`NodesAppend` and the like). For `delete_group_member` that sequence is an
enumeration of the kept places in their order; `PlaceNext` says that the next
pointer of a kept item skips to the one of the next number.

`RingProofs` holds what both rings need, stated on a ring given by its array and
indices: removing `n` packets at the head of a contiguous ring leaves a
contiguous ring (`CutContiguous`, by cases on how far the removed part wraps),
storing one behind the last does too, and what either does to the ring read as
a sequence: cutting drops the first `n`, storing appends.

`UartTxProofs` proves for every ring size, retry limit and number of packets,
with late acks or without: `TypeCorrect`, `RingIsContiguous`, `QueueNeverStuck`,
`RetriesAreBounded`. None of them is inductive alone. `IInv` adds what ties them
together: the packets in the ring have increasing ids up to `pushed`, an id
behind the head or not yet pushed was never written as an event, and the resend
count is zero unless the ack timer runs. The heart is `DrainInv`, which serves
every action, since each is a small change of the ring followed by `Drain`.
`RingIsFifo` proves the refinement of `PacketFifo`: a push appends, and `Drain`
drops some first packets. `PromptAcksLoseNothing` proves `NoSilentLoss` when no
ack outlasts its timer (`LateAcks = FALSE`). The run `uart_late_ack` shows
that this cannot be left out. Its invariant adds that an ack on the line is for
the event at the head, which the host heard.

`DataTransferProofs` proves for every ring size, resend limit, number of
packets, credits and set of links: `TypeCorrect` with any inputs, and with any
but `full` (the condition of `dt_rough`, where the code does not keep them
otherwise) `RingIsContiguous`, `RingNeverStuck`, `SendsAreBounded` and
`RingIsFifo`. The invariant `SafeInv` is stated on the record `Now`, as the
handlers change one and pass it on, so that one lemma about `Pop` serves all of
them. `Ring` says of the packets what `IInv` says for the UART, and that only the
head was ever tried. `Counted` says that a waiting transmitter has its timer
running and at most one more send than resends, an idle one no more sends than
resends; only both together bound the sends, because a resend is counted when
its timer ends and sent afterwards. `Woken` says why an idle transmitter with
a packet is called again. `TypeInv` adds that an ack timer runs only for a packet
that waits: the timeout would otherwise count against nobody. The recursion of
pop is one step here too: the packets it passes are a cut, by `RingProofs`.
`CalmLosesNothing` proves `NoUnsentLoss` under `Calm`, which `dt_calm` satisfies:
no input but `refuse`, and, if there are SPP links, at least `ResendNum` credits
for each of the `MaxPush` packets. The bullets on `dt_calm` above show why each
input is excluded, and the credits are needed because a poll without credit uses
up a try. Its invariant adds two parts. `Line`: an answer or completion under way
is for the head, the only one of its kind, and the stack took that head; so what
pops the head never pops another. `Rationed`: a link's credits and what its head
has used cover `ResendNum` tries of every packet in the ring or still to come, so
that a waiting transmitter always waits for a packet that was sent, never for a
credit.

`BtPolicyProofs` proves, for any sets of devices and profiles, any number of
places and entries and any environment: `TableInductive` and `LinkTableSound`
(the count equals the entries, an entry has its ACL, a free one keeps nothing).
`TableInv` is `LinkTableInv` with the types it needs and the finiteness of
`links.on`, without which the count says nothing. `OverLimitRepaired` proves
`OverLimitLeaves` under `Limited`: at most one entry more than places, and
nobody asks for a partial disconnect. Both are needed: with more entries two
devices too many may both have made the same one leave, and a partial disconnect
takes the mark away from a device. `PairingHasRoom` proves `PairingNeedsRoom`
as an action property without any invariant: every way into the state pairing
goes through `StableNormal` with no link, `StableAgain` from pairing itself, or
`PreparePairing` behind its test for room, so its lemmas speak about those
operators (`RunPairs`, `SchedPairs`, `PreparePairs`).

The rest of `BtPolicyProofs` follows the functions that pass the record `bp` on.
`PolicyTypes` proves `TypeOK` in every environment, from what `PolicyOK` says of
the record and `StackOK` of searches and connections: the queue stays within its
pool, and whoever is in work has an address. `PagesWithinLimit` proves
`PagesRespectLimit`, in every environment too. It needs `SchedAhead`
(`SchedOnce`): the power-on timer, whose end runs `linkback_sched`, never runs
during linkback. `SearchIsOfNode` (`OneSearch`) and `ShutdownGoesOn`
(`ShutdownRunsOut`) hold under `NobodyRuns`, neither `create` nor
`late_page_timeout` nor `peer_race` among the inputs. Each runs linkback next to
a search that goes on: with `create` or `peer_race` TLC finds `OneSearch`
violated. Any other profile may be opened by any device at any time. The
invariant `SearchInv` says that the active node, its search and the connection
of a profile exclude each other, that a connection under way is the one the node
in work waits for, so that what a device opens itself ends no other, and that a
page not given up belongs to a search. `StableHasNoWork` (`StableIsIdle`) holds
under `NobodyQueues`: nor `connect`, what takes a profile out of queued nodes
comes in stable states only, and every bond has a profile. The first two cannot
be dropped, since `connect` in a stable state queues without running (a hazard
of its own) and the loop of linkback ends at a node without profiles and leaves
the nodes behind it. The last depends on the configuration:
`linkback_load_bond_list` takes bonds with a flag of HFP, HSP or A2DP
(`app_linkback.c:872`), and in the scenario of the headset
(`LINKBACK_SCENARIO_HF_A2DP_LAST_DEVICE`, `app_bt_policy_cfg.c:35`) each of
these flags gives profiles. In the scenario of the dashboard demo (`A2DP_BASE`)
a bond with HFP alone gives none, and the theorem does not speak of it. The run
`headset` meets every one of these hypotheses. `PlanInv` is the invariant:
during linkback the queue has what is left to do, and only the node in work is
paged.

`AutoPowerOffProofs` proves that the composition implements the policy
(`HeadsetIsPolicy`), by which the theorems above hold for it, and
`CountdownWhenIdle` for every number of devices, places and LE links, with any
input but `create` (`CountdownSound`), with the exception of the property
itself: a phone that was once authenticated leaves its hold behind. The
inductive invariant is in two parts. `SleepInv`, from `BtPolicyProofs`: while
the device is on, the policy is in none of the states of a shutdown, and in
`STATE_STOP` nothing goes on (`Quiet`); only so is no indication of a phone
swallowed. It rests on where the policy's functions can go (`RunWorks`,
`SchedWorks`, `PrepareWorks`). `AutoInv`: while the device is on, the two flags,
the two holds and the policy's state say the same, and the timer runs just when
no hold is set. The flags and holds may differ after a switch-off, which
releases holds and leaves flags.

`PrivacyProofs` proves `TypeOK`, `AnswerFindsEntry` and `OneEntryPerAddress` for
every size of the table, number of devices, changes and refusals. `IInv` is
stated on a copy of the module's variables, as the handlers change one and pass
it on: `Ready` holds of what is passed, `HandleOK` says what comes back. What
it adds is that the entry of a request under way is marked as sent, which is why
deleting its bond does not free it, and that a clear request has no index.
`IdleMeansInStep` proves `IdleInStep`, which relates three things: the bonds, the
table and the list of the controller. Its invariant `ListInv` says of every
address what they may be together: `Row` for an entry by its state, `Absent` for
a device without one, `Tracked` for a bond, `Asked` for the request under way and
`Settled` for the manager without one.

`GattcStorageProofs` proves all that `gattc` checks, for every number of devices,
entries and blocks, every length, and flash calls that may fail: `TypeCorrect`,
`NoBlockLost`, `EntriesAreUnique`, `StoreIsCache` and `TableBehindCccdKept`. The
inductive invariant is a predicate of a header, `Good`, since a call changes a
copy of the header and saves it last: one that is valid is typed, gives a device
one entry, and shares out the blocks; one that is not holds nothing. Freeing,
allocating and editing an entry keep it (`FreedIs`, `AllocatedIs`, `EditedIs`). The
second rests on `LowestCard`: there are `k` lowest of `k` or more numbers, by a
least counterexample. `CacheOf` reads a header as a cache; `CacheChanges` says what
changing one slot changes in it. A failed write leaves the old header, so that
the refinement has only to know the headers a call can leave, not the blocks it
wrote. These matter for the last theorem: `Cell`, the number that `block_idx`
gives a bit, may be the same for bits of different entries (`gattc_shared`) but
grows from each bit of one entry to the next (`CellOrder`).

The proofs assume what the modules' `ASSUME`s state and nothing else.

Only model-checked: all liveness (the prover has no ENABLED), `EveryPacketLeaves`,
`LinkbackEnds`, `LeaversLeave`, `PowerOffEnds`, `ForgottenTurnsOff` and
`BusyEnds`.

## Not modelled

- In the policy: calls and SCO, sniff, role switch, DUT and OTA modes, TPOLL,
  the delayed AVRCP, A2DP and HID timers with the counters that feed them, PBAP
  and HID. Calls only change which device is thrown out and delay some events.
- In the UART queue: the two-one-wire build and the TX wake-up delay, both off
  by default.
- In the data ring: IAP and GATT over BR/EDR, and `app_transfer_bt_data`, which
  puts fragments of host data together before it pushes them.
- In the table store: reading the GATT data of a device back, which changes
  nothing, the byte layout of the header, and tables of 256 blocks or more.
- In the privacy manager: the requests it only passes on (privacy mode,
  resolvable addresses and their timeout), the application's call-back, and bond
  messages with `handle_add = false`, where the application passes on new bonds
  itself, by `privacy_add_device`, when it likes.
- In automatic power off: the holds of parts not modelled, the separate timer
  for a connected phone.
- The components of the inventory from OTA on. Audio routing, LE audio and
  advertising follow the state of libraries that are not in the repository.

Most of the repository is code whose behaviour these models neither show nor
need. Of its 1.36 million lines of implementation the larger part is vendored
(FatFs, SDL, Arm-2D, mbed TLS and stb headers), tables and graphics (Unicode
code pages, pictures, audio parameters), and register and peripheral headers of
the chip. Drivers are register writes without protocol of their own; the
Bluetooth stack, the audio framework and the operating system are prebuilt
libraries with headers only. A model that counted such lines would have nothing
to check, so the share of the whole repository that is modelled stays small
whatever is added; the plan goes by the components that keep protocol state.

## Plan

1. Done: queue, UART ring, data transfer ring, policy, GATT table store, privacy
   manager, automatic power off on top of the policy; their runs; proved is all
   that the runs check of safety.
2. `app_transfer_bt_data` in front of `DataTransfer`. The delayed profile timers
   and their counters in `BtPolicy`. Then OTA with restarts, and the bond
   database that orders `Bonds`.
3. To prove: what the runs of these will check of safety, and `NoUnsentLoss` with
   fewer credits where a link gets them back before its timer ends.
