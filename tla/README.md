# A verification project for esp-usb

TLA+ models of esp-usb: its USB host stack (`host/usb/`), the host's class drivers
(`host/class/`), the device stack around TinyUSB (`device/esp_tinyusb/`) and the Type-C
port manager. TLC checks each model on small instances; TLAPS proves, for
every instance, what matters most about the host library and two of its class drivers. Paths are relative to
the repository's root; `PROJECT.json` maps every definition of a module to its lines.

 1. [The system](#1-the-system)
 2. [Modules and how they correspond to the code](#2-modules-and-how-they-correspond-to-the-code)
 3. [What the runs check](#3-what-the-runs-check)
 4. [Bounds and assumptions](#4-bounds-and-assumptions)
 5. [Fairness](#5-fairness)
 6. [What is proved](#6-what-is-proved)
 7. [What the code does not survive](#7-what-the-code-does-not-survive)
 8. [What is not modelled](#8-what-is-not-modelled)
 9. [Plan](#9-plan)

## 1. The system

### The host library

A **daemon task** of the application calls `usb_host_lib_handle_events()`; each round
runs `usbh_process()`, `hub_process()` and `enum_process()`, in this order, those whose flag is set.
**Client tasks** call `usb_host_client_handle_events()` and the rest of the API, each
client from one task or several. The HCD's **interrupt** may come between any two of
their steps that are not in one critical section.

| component | state | operations | talks to |
|---|---|---|---|
| HCD, port (`hcd_dwc.c`) | port state, pending event, waiting task, debounce lock | power, reset, suspend, resume, disable, recover; interrupt | calls the hub driver back from the interrupt |
| HCD, pipes (`hcd_dwc.c`) | pipe state, pending and done URBs, two buffers of DMA descriptors, event | enqueue, dequeue, halt, flush, clear; channel interrupt | calls the USBH or the client layer back |
| USBH (`usbh.c`) | device objects on two lists, action flags, reference count, count of control transfers | add, remove, open, close, submit, process, mark all free | asks for the daemon through `proc_req_cb`; events go up |
| Hub driver (`hub.c`) | root port state, its requests, device tree | port events and requests, node recycled, device gone, power on and off | HCD below, USBH and enumerator above |
| External hubs, ports (`ext_hub.c`, `ext_port.c`) | hub and port objects, their stages, actions and pending lists | status changes, requests, resets, recycling, release | called by the hub driver; transfers to the hub's EP0 and EP1 |
| Enumerator (`enum.c`) | stage, device, URB, addresses, queue of waiting uids | start, proceed, cancel, one stage per round | opens devices of the USBH, asks the hub driver for resets |
| Library (`usb_host.c`) | clients with opened devices, event queues and semaphores; interfaces, endpoints and their transfers | register, open, close, claim, release, submit, event handlers, free all, uninstall | everything above |

What makes it hard, and what makes it correct:

* *Device objects.* Interrupt, clients and the daemon request actions of the same device while earlier ones are
  carried out. Last close, disconnection and free-all come in any order; whichever is last
  must ask for the object to be freed. Counts must be exact, nobody may hold or open a freed object,
  a doomed one must be freed, and no wake-up may be lost.
* *Root port.* Commands sleep for debounce, reset, suspend and resume times, during which the device may
  vanish; the hub driver keeps its own idea of the port's state. No assertion may fail, a port in
  recovery must be recovered, and the two views must agree.
* *Enumeration.* Some thirty stages, any of which may fail or meet the disconnection of its device. It must always end,
  close its device only when the URB is back, and announce configured devices at unique addresses only.
* *Clients.* A client's record of open devices is kept in other critical sections than the USBH's count,
  and the daemon leaves its critical section around every message it sends. Every owner must hear
  of a disconnection, and nobody may walk into a freed client.
* *Endpoints.* Two client tasks and the daemon halt, flush and clear while the interrupt completes transfers.
  Transfers must come back in order, once each, with the length that was moved, and all when the device goes.
* *Hubs.* The hub's and its ports' drivers call each other back and forth in the daemon's task, share one control URB, and
  everything may be gone at the next call.

### Class drivers, device stack, Type-C

Each host **class driver** (HID, CDC-ACM with the Virtual COM ports, UAC, UVC, MSC) is a client with a task of its own, a list of devices, transfers
whose callbacks run in that task, and functions called by application tasks. Hard: a
disconnection, suspension or error during any call; waiting for a transfer that times out; closing in a callback; buffers and
frames that several parties hold; descriptors that are laid out in unexpected ways.

The **device stack** runs TinyUSB in a task: its start is a handshake, and storages, serial
lines and network interfaces are used by the application and by the stack's callbacks at once. Hard: ownership of a
medium between application and host, writes deferred through the event queue, streams that are redirected.

The **Type-C port manager** has a worker task, an interrupt and an application that creates and deletes
ports, with a FUSB302 behind a bus that may fail. Hard: no interrupt may be lost, and VBUS may never be driven against a partner.

## 2. Modules and how they correspond to the code

A component has a module of its own, in which its neighbours are reduced to what it can see of them. The
state is that of the code's objects (often under the names of their fields); a step is a critical
section or the code between two points at which another task may run; the tasks' places are variables (`pc`,
`task`, `dmn`, `client`). A failed assertion, `abort()`, `ESP_ERROR_CHECK()` or use of freed memory is a value of `crash` (or `bad`, `ill`,
`lost`, `fault`). `Environments` is a constant of all modules that have one: what users,
devices and memory may do in a behaviour; `Init` picks one of its members, so that a run covers them all.

| module | models | notes |
|---|---|---|
| `Usbh` | `usbh.c`: device objects and EP0 | `ProcTake` takes a device off the pending list and snapshots its flags, `Handle…` carry them out in the code's order (`Rank`). `openCount`, `inflight` are the counters; `held`, `xfer` say *whose* they are, which the code does not store |
| `DeviceLife` | – | abstract: a device is absent, live or doomed; doomed devices are opened by nobody, and reclaimed only without users and work. `Usbh` implements it (`LifeSpec`) |
| `RootPort` | `hub.c`, port part of `hcd_dwc.c` | a command is several steps, between which the interrupt and a task that switches power may come |
| `Enum` | `enum.c` | one action per kind of stage: `Submit…`, `Accept…`, `Refused`, `SecondReset`, `StageCancel`, `StageComplete`; `Following`, `AfterFailure`, `Advance` are `set_next_stage()` |
| `UsbHost` | `usb_host.c`: clients and daemon | open and close are two steps each, as in the code; the daemon's walk over the clients is `dmn.left`; `owed` is a history variable: who is still to hear of a disconnection |
| `Endpoint` | pipes, endpoints and transfers in `hcd_dwc.c`, `usbh.c`, `usb_host.c` | halt is a command and a wake-up, flush a command and a callback after the critical section |
| `UrbQueue` | – | abstract: a queue per endpoint, appended to and returned from in order. `Endpoint` and `Buffers` implement it (`UrbQueueSpec`) |
| `Buffers` | descriptor lists of `hcd_dwc.c` | fills, executes and parses the DMA descriptors of control, bulk, interrupt and isochronous transfers |
| `Transfers`, `Hcd` | – | what `Endpoint` and `Buffers` share, and their composition |
| `ExtPort`, `ExtHub` | `ext_hub.c`, `ext_port.c` and their part of `hub.c` | all of it runs in the daemon's task, so a handler is an operator from the daemon's state to the next; `ExtHub` composes them with devices, enumeration and unplugging |
| `Descriptors` | `usb_helpers.c` | walks as operators on a sequence of descriptors; used by `ExtHub`, `CdcAcm`, `UacDescriptors`, `UvcDescriptors` |
| `Hid` | `hid_host.c` | devices and interfaces, start, stop, class requests, reports |
| `CdcAcm` | `cdc_acm_host.c`, `cdc_host_descriptor_parsing.c` | which descriptors are taken for an interface; pseudo-devices that share one USB device, poll, OUT and control transfers |
| `Vcp` | FTDI, CP210x and CH34x drivers and the service | `HostSpec`: a behaviour is about `CdcAcm` or about a Virtual COM port above it. Divisors and formats are computed as by the chips |
| `Uac`, `UacDescriptors` | `uac_host.c`, `uac_descriptors.c` | streams with ring buffer and transfers, controls and their units |
| `Uvc`, `UvcDescriptors` | `uvc_host.c` and its parts | frames from isochronous and bulk payloads, streams, formats |
| `Msc` | `usb_host_msc` | the bulk-only transport with the disk's side; tasks have stacks of frames since calls wait for each other |
| `Board`, `TinyMsc`, `TinyCdc`, `TinyNet` | `device/esp_tinyusb` | `Board` has the variables; a part leaves the others' alone |
| `Tcpm` | `usb_tcpm.c`, `fusb302_ctrl.c` | the port, its worker and interrupt, the chip's registers, the socket |
| `Device` | – | composition of the parts of a board |
| `…MC`, `….cfg` | – | constants, environments and configurations for TLC |
| `…_proof` | – | theorems, [section 6](#6-what-is-proved) |

Operators ending in `_Something` next to a definition, commented `Bug:`, are mutated forms of it that each property was seen to reject.

## 3. What the runs check

| run | distinct states | invariants | temporal properties |
|---|---|---|---|
| `usbh_life` | 6 561 | `CountersAreExact` = `RefCount`, `InflightAccounting`. `LifeIsSafe` = `NoUseAfterFree`, `FreedWhenUnused` (freeing is asked for exactly when nobody can come back), `CloseSanity` (a device that nobody has open has no transfer in flight, though the count may still be late), `NoLostRequest` | `GoneIsFreed`, `LifeSpec` |
| `root_port` | 71 033 | `NoAbort`; `NobodyStranded`: a port in recovery has somebody who will recover it; `PortIsVacated`: recovered only when its device is freed; `SuspendAgrees`, `StateAgrees`: hub driver's, HCD's and clients' view of suspension; `OffStaysOff`: power that was switched off | `PortRecovers`, `PluggedIsFound` |
| `enum` | 67 906 | `NoAbort`; `SomebodyContinues`: no stage waits for what is not under way; `AddressesDiffer`; `UrbHasOwner`; `AnnouncedIsReady` | `EnumerationEnds`, `EveryDeviceStarts` |
| `usb_host` | 174 326 | `HeldIsAlive`: records and counts agree; `WalksRegistered`; `EverybodyIsTold`; `UninstallIsClean` | `GoneIsFreed`, `ShutdownEnds` |
| `endpoint` | 469 195 | `EpConsistent` = `CountIsExact`, `DoneIsAnnounced`, `NeverIdle` (a pipe that can work does), `NoAbort`, `NoUseAfterFree`; `DmaConsistent`, of the DMA lists: `InTurn`, `KeepsExecuting`, `OnSchedule`, `Exact` (a transfer is told to have moved what it moved) | `UrbQueueSpec`, `GoneReturnsAll`, `DeferredIsStarted` |
| `ext_hub` | 353 816 | `NoAbort`; `OneRequest`: the shared control URB; `NodeHasDevice`; `HubIsOpen`; `HubListens`: an idle hub has its interrupt transfer in flight | `HubIsFreed`, `PortsFollow` |
| `hid` | 101 986 | `NoAbuse`, `TransferHasOwner`, `ClaimHasDevice`; `KeepsListening` | `GoneIsReclaimed` |
| `cdc_acm` | 183 271 | `NoAbuse`, `HandleIsShared`, `BufferFits`, `WakeIsKnown`, `DescriptorsRead`; of the Virtual COM ports `LineIsSet`, `RefusedAsAWhole`, `ModemIsSet`, `BreakEnds`, `PortIsKept`; `KeepsPolling` | `GoneIsClosed` |
| `uac` | 478 717 | `NoAbuse`, `CountIsExact`, `DescriptorsRead`, `VolumeIsKnown`; `KeepsStreaming` | `GoneIsClosed` |
| `uvc` | 636 506 | `DescriptorsRead`, `NoAbuse`, `FramesConserved`, `HandleShared`; `KeepsStreaming` | `GoneIsClosed` |
| `msc` | 385 317 | `NoAbuse`; `SuccessInStep`: a command that succeeds got its own data and status | `Recovers`, `GoneIsClosed` |
| `device` | 496 341 | storages: `MountIsReal`, `OneOwner`, `DeferredIsExact`, `LunsAreExact`, `HostHasItAll`, `AppIsTold`, `CanRestart`; lines: `AllArrives`, `AllIsHeard`, `StreamsAreReal`, `TerminalIsTold`; network: `ToldTheTruth`, `BuffersReturn`, `NothingIsLeft`; Type-C: `VbusIsSafe`, `NoLostInterrupt`, `NoStrayInterrupt`, `AgreesWithSocket` | `Served` |

Where a module has many invariants they are the conjuncts of `Consistent`, together with its type invariant.

`CHECK_DEADLOCK FALSE` is set where a system comes to rest when nothing is plugged in or called any more. `Usbh`, `UsbHost`,
`Endpoint` and `Device` always have a step (the daemon's round goes on, or the end is an explicit stutter), and are checked for deadlock.

## 4. Bounds and assumptions

The constants' values are in the `.cfg` files, the environments in the `…MC.tla` files: those a run has (`Benign`, `Tame…`)
and, with a comment on each, those in which the code fails (`Wild…`, `Racing`, `Sparse`, `Keeping`, `Resuming`, `Waking`, `Switching`, `Eager`, `Clockless`; [section 7](#7-what-the-code-does-not-survive)).
A reader who wants to see such a failure gives the name to `Environments` in the `.cfg`.

* **`Usbh`**: one device, two clients, `MaxInflight = 3` (each opener's one control URB, with one taken but not yet deducted).
  A client may run at any point of `handle_ep0_dequeue()`. `FreeAllInDaemon`: `usb_host_device_free_all()` is called by the
  daemon's task between rounds, as every example does.
* **`RootPort`**: *calm*, in all environments but `Plugging` and `Unsettled`, means that no port interrupt comes while a request to suspend or to recover, the rest of a light
  sleep or a switching of power waits, and that these begin on a port without pending event. The code checks none of this: commands are
  refused while an event is pending (`hcd_dwc.c:1608`) at call sites that assert success. The core reports nothing while the debounce lock
  holds, and answers a disable request before a later disconnection; both belong to the HAL. A delay is a place at which
  anything may happen; its length matters only in that `hub_root_start()` is outlasted by the debounce delay. A resumption only marks the
  endpoints to be cleared (`clear`), which `UsbhProcess` does later; but in `Eager` nobody asks for the next suspension before. Every command that needs the
  clock may fail in `Clockless` (`clockFails`). That pipes are queued during a reset (`hcd_dwc.c:1284`) cannot be: see `StartReset`.
* **`Enum`**: three devices, so that one can wait while another is enumerated; four addresses, so that they wrap; `QueueLen = 5` as in the code. A
  transfer always ends. A disconnection is not found together with the end of the device's second reset and concerns the device that is being
  enumerated (`enum_cancel()` ignores its uid).
* **`UsbHost`**: two clients and a device, one of them subscribed to removals; a client that leaves and comes back and opens twice; two devices. `QueueLen = 4` holds what two devices can have
  under way; with 1 or 2 a message is dropped and `Consistent` fails. No device is plugged in after the last client has left.
* **`Endpoint`**: two endpoints or three URBs, one more than the two buffers hold. A submission is several steps: it looks at the port (`usb_host.c:1988`), asks for its
  resumption, which may fail (1993), and enqueues (1999). In `Crossing` the port may be suspended in between, which nobody may then undo: there `DeferredIsStarted` promises
  only what somebody has asked for. Without "races" the application releases an interface when the handler is not in the middle of an
  endpoint, clears a failed endpoint once its error was handled, and gives no command while the daemon walks the endpoints of a device whose port is
  still there. A channel told to halt halts before its device is taken for gone.
* **`Buffers`**: two buffers as in the code; lists of 3 (interrupt) and 8 (isochronous) descriptors instead of 32 and 64, with transfers
  that fill them, wrap around and are longer than a packet.
* **`ExtHub`**: two ports, devices plugged in twice, one attempt of a reset. The configurations are a plain hub's and thirteen others.
* **Class drivers**: two interfaces, streams or pseudo-devices, so that one can be closed while another is used; a device that comes twice, so that what is left of the first
  meets the second; three to six calls, which is enough for open, use, close and open again (no more than two functions wait for each other). Buffers and rings of two or four packets are
  filled, run over and wrap.
* **`Device`**: three storages (flash, card, disk), two LUNs, two hosts, two ports of a FUSB302, one failure each, three characters or packets.

## 5. Fairness

Weak fairness of a task's steps says that the scheduler runs it, and weak fairness of a completion that the hardware answers. The application's new calls, plugging and
unplugging are never fair; a call that has begun goes on. Strong fairness is used only where the code looks for
an event in one part of a round again and again:

* `Usbh`: the ends of `hub_process()` and `enum_process()`, which return after one event or stage; `ProcTake` of each device, because the list is a queue; the
  removal of a device whose port lost it; a client's close of a gone device, which the API requires of it.
* `Enum`: the end of a transfer and of a reset, and a disconnection, which the daemon finds in its next round.
* `Endpoint`: the suspension of the port, which except in `Crossing` waits for a submission to end.
* `UsbHost`: the daemon, which competes for `mux_lock`; the close of a device the client was told about.

## 6. What is proved

All theorems are for any values of the constants within the stated assumptions, and need no bound on the number of devices, clients or steps.

### Device objects: `Usbh_proof`

| theorem | says |
|---|---|
| `AccountingHolds` | the inductive invariant `Accounting` |
| `TypeCorrect` | `TypeOK`; in particular no counter goes below zero |
| `CountersHold` | `CountersAreExact`: `open_count` is the number of handles in use, `num_ctrl_xfers_inflight` that of URBs between submission and deduction |
| `EnumeratorIsSoleOpener` | the assertion of `usbh_dev_enum_unlock()` |
| `DeviceLifeIsSafe` | `LifeIsSafe`, with its four parts |
| `ImplementsDeviceLife` | `Spec => LifeSpec`: the refinement of `DeviceLife` |

From: any set `Dev`, any finite set `Client`, any `MaxInflight > 0` (`DistinctNames`, `FiniteOpeners`, `BoundIsNat`, `FlagsAreBoolean` of `Usbh`). The
last two have the hypothesis `FreeAllInDaemon`: without it TLC finds `LifeIsSafe` violated, as a device can be opened that is about to be freed.

`Accounting` is `TypeOK /\ RefCount /\ InflightAccounting /\ ProcShape /\ LockedByEnum`. None of its parts stands alone: a counter stays natural
only because it is the cardinality of a set that had an element; URBs that were dequeued and not yet deducted exist only inside
`handle_ep0_dequeue()` of the device being processed (`ProcShape`); and a locked device has exactly the enumerator as its
holder. Lemmas say what a step does to the cardinalities (`OpenCounts`, `CloseCounts`, `BusyGrows`, `BusyShrinks`, `CountersKept`).

`LifeInv` is `Accounting` and `LifeKept`, which says for each device where its flags, its place in the lists and the daemon's place
can be at once: that a request to free excludes holders and URBs needs to know who may still add to the flags, and that it is not lost where
the daemon has taken the flags over. The refinement is proved step by step: each action is a step of `DeviceLife` or leaves it alone.

### Clients and daemon: `UsbHost_proof`

| theorem | says |
|---|---|
| `HandlesAreCounted` | `HeldIsAlive`, though opens and closes race with the daemon |
| `WalkedAreRegistered` | `WalksRegistered`: the daemon walks through registered clients only |
| `UninstallFindsNothing` | `UninstallIsClean` |
| `EverybodyHears` | `Consistent`: all of the above, and `EverybodyIsTold` |

From: any finite sets of clients and devices, any queue length, any environments of the right type (`EnvironmentsAreTyped`). The first three hold in all
environments. `SafeInv` relates the count of opens to the sets of records and of calls under way, the life of a device to its
open count and actions, the daemon's place to what it holds in its hands, and membership in `dmn.left` to the client list and `mux_lock`.

`EverybodyHears` has two hypotheses, and TLC shows that each is needed: `Quiet`, no environment admits "races" (the
daemon does not run between the halves of an open or a close: in `Racing` a client is never told of a device that was unplugged
inside its `usb_host_device_open()`), and `Roomy`, `QueueLen >= 2 * Cardinality(Device)` (with shorter queues a message is dropped and logged,
`usb_host.c:295`). The invariant `ToldInv` adds, to `SafeInv`, that whoever is owed a message is concerned by it (`OwedAreConcerned`) and still ahead
of the daemon's walk (`OwedAreAhead`), and that a queue holds each message at most once (`MessagesAreOnce`), by which the lemma `RoomFor` finds room in it by the pigeonhole
principle.

### Enumeration: `Enum_proof`

| theorem | says |
|---|---|
| `EnumerationIsConsistent` | `Tidy => (Spec => []Consistent)`: no check of `enum.c` fails, no stage waits for what is not under way, addresses differ, the URB in flight has its owner, what is announced is configured |

From: any number of uids, any number of addresses above it (`EnoughAddresses`), any queue length (`BoundsAreNat`), any environments of the right type. The hypothesis `Tidy` has
two halves, and TLC shows that each is needed: no environment admits "races" (in `Racing` IDLE is processed, `enum.c:1363`), and
none with a hub lets clients keep devices (in `Keeping` `get_next_free_dev_addr()` comes to the address of a device that is gone and kept open, `enum.c:204`).

`EnumInv` is the type invariant and seven parts. `RequestsAreExact`: while a device is enumerated, exactly one of a request to the daemon, the URB and an awaited reset carries on.
`HandlesAgree` and `Progress`: which handle is open, and how far the device has come (new, addressed, configured), in the early, middle and late stages.
`OneWaits`: the hub driver has at most one port waiting. `NobodysAreClean`, `CompletedAreReady`, `UsersAndGone`: devices that are nobody's, announced, held or gone. That a uid and
an address are free when one is looked for is the pigeonhole principle over the devices there are (`NewUidIsNew`, `FreeTryIsFree`).
What follows a stage is computed once, by class of stages (`FollowingIs`, `FollowingLate`, `FailureIs`), and used for each action.

### Pipes and transfers: `Hcd_proof`

| theorem | says |
|---|---|
| `PipesAreSafe` | `Spec => []EpSafe`, in all environments, the racing ones included: `Sound` books of every pipe (what is pending, in buffers and done; buffers filled as far as there is work), no URB in two places, tasks at endpoints that exist |
| `EndpointsAreConsistent` | `Gentle => (Spec => []EpConsistent)`: an endpoint's count is what its pipe and the tasks have; what is finished is announced and its client awake; a pipe that can work does; no halt, flush or free fails that must not; nobody works on a freed endpoint |
| `TransfersComeBackInOrder` | `NoneAborted => (Spec => UrbQueueSpec)`: the refinement of `UrbQueue`. Pipes and DMA lists accept a transfer at the end of their queue and return the first one, whatever halts, flushes, errors and disconnections come between |

From: finite sets of endpoints and URBs, two buffers or more, any environments of the right type (`EpsAreFinite`, `NumBuffersIsPos`, `NamesDiffer`, `EnvironmentsAreTyped`).
`NoneAborted` says that no environment has "abort": an aborted transfer that is still pending overtakes those in the buffers, which is what
`hcd_urb_abort()` is for, so the promise is false with two transfers. The run has an environment with one.

`EndpointsAreConsistent` is false without `Gentle`, of which TLC shows each part to be needed: no environment of endpoints has "races" (in `Racing` the client's other task
comes between an error and the handler's flush), and none with "suspend" has errors, or a hub's device unplugged (in `Resuming` the daemon
clears an endpoint before its error is flushed). The environments of the run are gentle. `EpInv` adds to `EpSafe` the nine parts of `BooksInv`. `CountsAreRight`: a
transfer that is counted is in the pipe or in a task's hands (`Owed`), so that no step of submission, dequeueing or deduction can lose one. `Announced`, `PendingAgree`: who will see to what is
finished, and that the list and its marks agree without duplicates. `HaltsHold`, `ErrorsHalt`: who was promised a halted pipe, by waiting or by an
error that is not yet flushed, has one; that is why the flushes succeed. `LivesOn`, `FreeingIsQuiet`: an endpoint in somebody's hands or on a list is allocated,
and while endpoints are freed nobody has one. `HandsEmpty` and `Possible` say which places of the tasks and which past events an environment admits.
There is a lemma for each action, and lemmas for what steps share (`CountsSame`, `CountsMove`, `PendingSame`, `OnePipe`).

A pipe holds its transfers in three places, and `Held` is their order: done, buffers, pending. Each operator on pipes has a lemma that says that it keeps `Held`,
or appends to it, or takes its head (`FillKeeps`, `ExecKeeps`, `HeadDoneKeeps`, `FlushedKeeps`, `AcceptedAppends`, `DequeuedTakes`, ...), so that a
step of an action is a step of the queue or leaves it alone (`SamePipes`). For the DMA lists the line is done, the buffers from the one to be parsed to the one to be filled, and pending;
`Tidy` says of a list that its three counters add up to two and the indices follow them (`Turns`), which is what makes the read index meet the transfer that was
written first. What the parsing computes (lengths, statuses) is left open there, as it is recursive: `Exact` stays with TLC.

### Root port: `RootPort_proof`

| theorem | says |
|---|---|
| `RootPortConsistent` | `Tame => (FairSpec => []Consistent)`: no `ESP_ERROR_CHECK()` or `abort()` of the port's code fails; a port in recovery always has somebody who will recover it, and is recovered when its device is freed; hub driver, HCD and clients agree on who is suspended; power that was switched off stays off |

From: any set of environments. `Tame` says of each one that power is switched only on a settled port; that, unless the port is calm, a device may fail to be enumerated or made, or be freed, and
nothing else; that, where it is calm, no device is freed that may be suspended or whose port may be switched; that endpoints are cleared before the next suspension ("eager"); and that the clock obeys ("clockFails"). This is all that the code relies on, and no more: TLC finds `Consistent` violated
where one of the other uses is admitted alone, and where one of them or a suspension, a light sleep or a switch of a calm port is together with "freeAll"; every environment that is not tame includes one of these.
The run's environments are tame (`TheoremsApply` in `RootPortMC`), and two of them are the widest that are.

The three views of the port change at different steps, so that `Consistent` says nothing of most places of the daemon. `PortInv` says it of all. `CoreInv`: what the state of the HCD's port
tells of the core (power, reported connection, debounce lock, pending event). `DaemonInv` and `PlaceInv`: what the daemon may rely on after each delay of a
command; mostly that the port is as it was left, or is in recovery with an event pending, which is why the commands that must succeed do. `RootInv` and `DeviceInv`: which states of the HCD's port and
of the device go with each state of the root hub port. `RequestInv`: what a request was made for still holds when it is handled, though others may be handled before it. `UserInv`: what
a switch of the power waits for. `LateInv`: the order of events and requests; it is why a port that failed while a connection was being handled finds its request to recover after the event, never before.
Each action has a lemma that it keeps `PortInv`, in which a step for each part names the parts that it depends on.

### HID class driver: `Hid_proof`

| theorem | says |
|---|---|
| `NothingIsLost` | `Tamed => (Spec => []Consistent)`: nothing freed is used, no transfer is freed before it was called back, each finds its interface, a claimed interface has its device |
| `StartedInterfacesListen` | `OneAtATime => (Spec => []KeepsListening)`: a started interface of a device that is there has a transfer under way whenever the driver has handled what it was told, unless its user was told of an error |

From: any number of interfaces of a device, of devices one after the other and of calls (`BoundsAreNat`). `Tamed` excludes from the environments the five hazards of `Wild` and a suspension
together with interfaces that are closed later; TLC finds `Consistent` violated with each one of the six. `HidInv` says what an interface can be (`Kinds`: not listed,
unused, used, or waiting to be closed), that whoever waits is about to be told or was told (`EachIsTold`), which messages there can be, and what the two tasks may rely on where
they are. `TaskPlace` is why the walk of a disconnection is safe: all before it is closed, nothing of the device is under way, and the next
interface, remembered before the callback, stays in the list. Each operator on an interface has a lemma that tells what kind it makes of which
(`FlushedIs`, `DisabledIs`, `ReleasedCloses`, `TornIs`, `ResumedIs`, ...), and each action one that it keeps `HidInv`.

`StartedInterfacesListen` needs none of that. `OneAtATime` excludes "race" only, which TLC shows to be needed (with a suspension); the other five hazards are included. Its own, weaker invariant
`ListenInv` says that who is to listen has a transfer that is under way, unless a suspension is still to be handled or the walk of one has yet to come
to the interface, and that in a walk no flushed transfer waits to be called back (`Fit`).

### CDC class driver and Virtual COM ports: `Vcp_proof`

| theorem | says |
|---|---|
| `CdcConsistent` | `Tamed`, `CodingsAreMade` and `PortsAreCalm` imply `HostSpec => []Consistent`: all parts of `AcmConsistent` and of `VcpConsistent`, see `cdc_acm` in [section 3](#3-what-the-runs-check) |
| `CdcKeepsPolling` | `Tamed` implies `HostSpec => []KeepsPolling`: after suspensions and resumptions that do not come during a close or with messages in hand, after opens, closes and kept data, an open pseudo-device polls |

From: any number of pseudo-devices, of devices one after the other, of calls, of drivers and their products and of rounds of the service, any size of the IN buffer that is a multiple of the packet's
(`BoundsAreNat`, `BufferIsPackets`, `DriversAreKnown`). TLC evaluates the three hypotheses on the run's constants (`TheoremsApply` in `CdcAcmMC`).

`Tamed` says that the queue of events holds two messages (three in the code, `cdc_acm_host.c:406`), that what is read for the pseudo-devices is what is there and no two have the same interface, and
that every environment `IsTame`. Of what that excludes, TLC finds `AcmConsistent` or `KeepsPolling` violated in each of "early", "race", "unin", "odd"; in
"incb" with any of "closing", "both", "out", "ctl" and "wake"; in "slow" with "ctl" or "wake"; in "suspend" with any of "closing", "loop" and "other"; in "wake" with "late".
"closing", "loop", "both" and "late" on their own break nothing that TLC sees, and are left out to have one hypothesis instead of one for each pair. That
the descriptors are read right (`DescriptorsRead`) is a hypothesis here, as it is recursive: what the run shows of it is for the run's devices. `KeepsPolling` itself TLC finds violated in "suspend" with any of "closing", "loop" and "other", in "odd", and where an interface is opened twice; the others break
only what its proof rests on.

`AcmInv` says what a pseudo-device can be at all (`DevicesAre`: without anything, or with its interfaces and its transfers), what each of the three tasks may rely on where it is (`OpPlace`,
`ClientPlace`, `WriterPlace`), and four things of more than one of them. `Handle`: the USB device is open exactly for those who have an interface or are about to. `Messages`: the queue holds devices
that come and go, the end of this one first, or a suspension and its resumption, never both kinds; that is why the walk of a resumption finds a device that
is there, and why the releases during a walk of a disconnection find nothing in flight. `WakeKnown`: the pseudo-devices in the list know the device's remote wakeup, but for an answer that the
writer has not yet read. `Polling`: who does not poll has a resumption before it, in the queue or in the rest of the walk. Each action has a lemma that it keeps `AcmInv`.

`VcpInv` says that a port is open for the task that opened it on the device that it found (`PortPlace`), and, of a task that sends, that the requests that are left, sent to the registers as they are, lead to
what was asked for (`Jobs`, with `Sent` and `Goal`): each request then keeps it (`SentOne`), the last one makes it the promise, and `LineLeads`, `ModemLeads`, `BreakLeads` and `OpenLeads` are why it
holds at the start. `CodingsAreMade` is the drivers' arithmetic, which TLC evaluates: what is sent for a coding to a chip that has just been reset makes it like the coding, or nothing is sent; the proof
adds that the state of the chip does not matter (`MadeAlike`), nor what fails, nor when the cable is pulled. `PortsAreCalm` excludes "leave" and a break that may fail half-way; each breaks `VcpConsistent`.

### UAC class driver: `Uac_proof`

| theorem | says |
|---|---|
| `UacConsistent` | `Tamed => (Spec => []Consistent)`: no assertion fails, nothing freed is used, a request reads its own result; `opened_cnt` is the number of open interfaces and the USB device is open exactly while there is one; the streams were read right; the volume that is remembered is every channel's |
| `UacKeepsStreaming` | `Tamed => (Spec => []KeepsStreaming)`: whenever nobody works on the streams, an active one has its transfers in flight, and a ready one can be resumed |

From: any number of transfers of a stream, any size of the ring buffer, any number of calls and disconnections (`BoundsAreNat`). `Tamed`, which TLC evaluates on the run's constants, says of every environment `IsTame`, and
of whatever is read of a device there `IsReadWell`: as for CDC, how that is computed stays with the run, as it is recursive. TLC finds `Consistent` violated with each of the seven hazards that `IsTame` excludes, and with
each of its four pairs; with "loop" and "other" where the interfaces have no callback.

`UacInv` says what an interface can be (`IfcsAre`), what each of the three tasks may rely on where it is (`UserPlace`, `ClientPlace`, `AuxPlace`), and six things of more than one of them. `CtlPlace`: the control transfer is in
use only while the controlling task waits for it, which is why it reads its own result. `Handle`: the count is exact but for an interface that is just coming or going. `Messages`: a disconnection is told once, of a device that is in the list,
after everything that was under way was called back; so the walk finds nothing in flight (`AllIdle`). `Streaming`: a speaker's transfer is free, in use, or in the writer's hands, and while there is data one is in use or will be
(`TxRuns`): the writer goes on until it has looked at all transfers. `VolumeKnown`: the channels that were set have the new volume, the others are still to be set; after a disconnection nothing is said. `RangeKnown`:
who may ask for a volume in percent has read the range. `ClientPlace` is why nobody is forgotten: of an interface of a device that is gone the user was told, or the walk has yet to come to it. Each action has a lemma that it keeps `UacInv`.

TLC had checked `UacInv` on the run before it was proved, and the proof still found a gap in the model: where the driver's task frees an interface, at once or in the callback, it may free one whose open still waits for the
volume range, or from whose ring buffer somebody reads. The model had let that pass unnoticed; now it fails (`Unused`), and the environments that allow it are among those that the code does not survive.

### What is only model-checked

Liveness: fairness is out of the prover's reach. What recursive definitions compute for every input, as the walks over descriptors and the lengths told by `Buffers`: the library's induction theorems take operators as parameters.
`DmaConsistent` of `Buffers`. The safety of the other modules: see the [plan](#9-plan).

## 7. What the code does not survive

Each of these is a behaviour of the model in an environment that no run has, so that the environments of the runs say which conditions the code relies on. Each was found by TLC
in the environment named, with a trace that was compared with the code.

**Host library**

| where | property | what happens |
|---|---|---|
| `usbh.c:633`, the run's | – | a client that closes its device between `handle_ep0_dequeue()`'s callbacks and its deduction meets the `assert()` at `usbh.c:1334`, although it has no transfer in flight; all properties are checked there too, and `CloseSanity` allows for it |
| `usb_host.c:1988`, `Crossing` | `DeferredIsStarted` | the port is suspended between a submission's look at it and the enqueueing: the transfer is deferred and, unless another is submitted or the user resumes the port, never started |
| `usbh.c:868`, `Eager` | `NoAbort` | a suspension asked for right after a resumption: the endpoints are halted for it, then cleared for the resumption; suspending the port fails, `ESP_ERROR_CHECK()` at `hub.c:595` |
| `hub.c:595`, `632`, `918`, `Clockless` | `NoAbort` | the controller's clock cannot be switched: `ESP_ERROR_CHECK()` or `hub_root_stop()`'s assertion fails |
| `hub.c:468`, `Switching` | `OffStaysOff` | power that is switched off while a device is debounced or reset is stored over as ENABLED and comes on again; `usb_host.h:256` says it prevents "any further device connections" |
| `hub.c:681`, `Switching` | `NoAbort` | power switched off after a disconnection, before the close: `root_port_recycle()` finds NOT_POWERED, "abort(); // Should never occur" |
| `hub.c:646`, `Waking` | `StateAgrees` | a remote wakeup right after a light sleep is handled before the rest of it: clients are told of a suspension last |
| `hub.c:595`, `Waking` | `NoAbort` | a port in recovery is asked to suspend |
| `enum.c:1108`, `Sparse` | `StringsOptional` | a refused string followed by one the device does not name cancels the enumeration; `enum.c:39`: "we just don't fetch them and treat enumeration as successful" |
| `enum.c:1363`, `Racing` | `NoAbort` | a disconnection found together with the end of the second reset has IDLE processed: `abort()`, "Should never occur" |
| `enum.h:133`, `Racing` | `Consistent` | `enum_cancel()` ignores its uid: the disconnection of another device cancels the enumeration |
| `usb_host.c:1355`, `Racing` | `EverybodyIsTold` | a device unplugged inside `usb_host_device_open()` is held by a client that is never told, against `docs/en/usb_host.rst:239` |
| `usb_host.c:1133`, `Racing` | `NoAbort` | an endpoint cleared between its error and the handler's flush: `ESP_ERROR_CHECK()` fails |
| `enum.c:204`, `Keeping` | `NoAbort` | behind a hub, `get_next_free_dev_addr()` comes to the address of a device that is gone and that a client keeps: `usbh_devs_open()` refuses it, not with `ESP_ERR_NOT_FOUND`, and a handle that was never set is closed |
| `usb_host.c:1133`, `Resuming` | `NoAbort` | resuming a port clears its halted endpoints, also one whose error, or whose device's disconnection from a hub, the handler has not flushed yet: the flush fails, `ESP_ERROR_CHECK()` |
| `hcd_dwc.c:2606`, `2371`, `953`, `Wild` | `DmaConsistent` | a short interrupt IN transfer with another packet size is told the wrong length; an empty one fills entry -1; a full list has no room for a zero-length packet; isochronous lists are filled too late by the margin; an error while a halt is awaited never notifies the waiting task |
| `ext_hub.c:371` | – | the port's bit in the status is computed as `data[i] << i` instead of `8 * i`: right only for one byte |
| `ext_hub.c`, `ext_port.c`, `Wild` | `NoAbort`, `HubIsFreed` | a hub that leaves, or is freed, while a port is handled; a change of the hub itself; a device replaced during its reset; no memory: NULL ports are used and freed twice (`ext_hub.c:720`–`756`); a hub that is gone while pending and without ports is never freed |

**Class drivers** (`Wild` of each module; each environment has a comment)

* **HID**: driver's task and application on two cores; a class request that times out, or is made after the device has gone; a suspension that finds an interface waiting to be closed; a device
  that leaves before it was opened; no memory for a transfer.
* **CDC-ACM**: a disconnection during open, while one of several pseudo-devices is closed, between two messages or while a writer waits; closing the next pseudo-device in a callback; a request that
  times out and is answered later; an interface opened twice, whose first close releases it for both; an odd `in_buffer_size`; the status of the remote wakeup
  is forgotten by a pseudo-device opened later. Misread: functional descriptors behind the endpoint, a setting with two other endpoints, an endpoint that is missing (assertion)
  or the next interface's, an interrupt OUT taken for the notification.
* **Virtual COM**: FTDI rates below 184 are wrong (the divisor's fraction collides with its 18-bit mask) and below 46 read past the table, 1.5 to 2 million ask for a divisor that is
  forbidden, 4 million is accepted though no divisor is near; the CH34x factor is cut to 8 bits; a format is refused after the rate was set; space parity is set as mark; a
  break whose end fails stays; a close in the disconnect callback while `ftdi_vcp_open()` still prepares the chip.
* **UAC**: a disconnection while the device is looked at, opened, closed or written to, or, where the driver's task frees the interface (no callback, or it is closed in the callback), read from, or while an open waits for
  the volume range; a failed open dereferences NULL; units in a circle recurse for ever; `bControlSize` 0; the last interface asserts; more frequencies
  than the array has; the endpoint with the last listed frequency may be too small; settings are selected by index + 1, not by number; a unit of another branch is taken; the remembered volume is stale after `set_volume_db()`; open by vid and pid
  may take another device.
* **UVC**: a disconnection just before an opened stream is listed, during another call, between two messages or while one of several streams closes; a pause in the frame callback; a header without data; a frame kept during a format change; an event queue that is
  full. Misread: a resolution of another format, two adjacent formats, no class descriptor, a range without a step (endless loop); a list of size 0 is written past its end; the configuration is read after the device was closed.
* **MSC**: two tasks executing commands; an endpoint that stays stalled; a late transfer; closing in the callback while a command waits; recovery that is not called for;
  the comment at `msc_host.c:655` does not hold.

**Device stack and Type-C** (`Wild…` of `DeviceMC`)

* Storages: a cable pulled, or the medium mounted to the application, while the host writes; storages made while the host is there; a task that is deleted in a write; a slow deferred write; no memory; a LUN deleted before another;
  two storages at once; a failed creation, format, mount or write.
* Lines: callbacks registered again and again by a restless application, a FIFO that is too small, line endings split between two reads or printed under the console, a file that does not open.
* Network: two kinds of sending at once, a sender that gives up late, a cable that is cut while a packet is sent, no heap.
* Type-C: partners that are quicker than the worker, or hasty in presenting VBUS; a stray interrupt after the deletion; two cores. A failure of the bus while the status is read, a role set or an
  attachment committed is not tried again.

## 8. What is not modelled

* A second root port; installing, except where it can fail half-way; the auto-suspend timer, suspend events and the suspend and resume actions of EP0; `usb_host_get_config_desc()`.
* FIFO sizes, frame lists, caches and registers of the controller (the HAL is not in the repository).
* What the code would do about a change of a hub's own status, which it says it does not handle.
* `ftdi_rx()`, which takes status bytes out of the data; the HID report descriptor and HID remote wakeup; formatting in the MSC driver.
* VBUS monitoring, suspension and descriptors of the device stack; the HUSB320 back end, which is a stub.
* The modem over USB, which belongs to `esp_modem`; tests, examples, documentation, tooling.
* Contents of descriptors, reports and files, and wording of strings, except where control flow depends on them.

## 9. Plan

Proofs, in this order: `Uvc`, whose tasks and lists are like those of `Uac`, `TinyNet`, `Buffers` (`DmaConsistent`, but for what is computed recursively). Model: the auto-suspend
timer, then a second root port.
