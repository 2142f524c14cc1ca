------------------------------- MODULE TinyMsc -------------------------------
(***************************************************************************)
(* The device side: the life of the TinyUSB stack (tinyusb.c,              *)
(* tinyusb_task.c) and its mass storage (tinyusb_msc.c,                    *)
(* storage_spiflash.c, storage_sdmmc.c).  A storage is mounted either to   *)
(* the application, as a file system, or to the USB host, which reads and  *)
(* writes its sectors; a write of the host is copied to the storage's only *)
(* buffer and carried out by a function that is deferred through the       *)
(* stack's event queue.                                                    *)
(*                                                                         *)
(* Two tasks: "tud" runs the stack and handles its events one by one;      *)
(* "app" is the application, which calls everything else.  Sectors are     *)
(* versions of a content: every write makes the next version.              *)
(***************************************************************************)
EXTENDS Board

CONSTANTS
    Storage,        \* storages, by the medium they are on
    NoStorage,
    MaxWrites,      \* bound of writes, by host and application
    MaxCalls        \* bound of the application's calls

fixed == <<cdcVars, netVars, tcVars, env>>

Lun == 1..2
Task == {"tud", "app"}
Uses == env.uses
Storages == env.storages
Auto == "auto" \in Uses

StackType == [st : {"off", "starting", "on"}, run : BOOLEAN, saved : BOOLEAN,
              booted : BOOLEAN, told : {"none", "in", "out"}]
DrvType   == [on : BOOLEAN, internal : BOOLEAN, count : 0..2,
              tab : [Lun -> Storage \cup {NoStorage}]]
\* disk: a disk I/O driver is registered; vfs: the path is; fs: the file system is
\* mounted and has seen the content "view"; blank: there is no file system.
StoType   == [life : {"none", "alive", "freed"}, open : BOOLEAN, mp : {"app", "usb"},
              disk : BOOLEAN, vfs : BOOLEAN, fs : BOOLEAN, blank : BOOLEAN,
              view : Nat, content : Nat, buf : Nat, defs : Nat,
              mux : {"free"} \cup Task]
EventType == [ev : {"none", "attach", "detach", "write", "read", "ready", "eject", "deferred"},
              lun : 0..2, s : Storage \cup {NoStorage}, n : Nat, ses : Nat]
TaskType  == [at : {"idle", "loop", "mount", "mlock", "mwork", "clean", "unmount", "ulock",
                    "uwork", "ret", "unmap", "free", "write", "deferred", "stored", "read",
                    "boot", "save"},
              for : {"none", "loop", "new", "set", "delete"}, to : {"app", "usb"},
              s : Storage \cup {NoStorage}, i : 0..3, ok : BOOLEAN, ev : EventType]
HostType  == [st : {"out", "conf", "in"}, ses : 0..MaxPlugs, busy : BOOLEAN,
              ready : SUBSET Lun, ejected : BOOLEAN, sent : [Lun -> Nat],
              writes : 0..MaxWrites, calls : 0..MaxCalls]

MscTypeOK ==
    /\ stack \in StackType /\ drv \in DrvType
    /\ sto \in [Storage -> StoType] /\ task \in [Task -> TaskType]
    /\ q \in Seq(EventType) /\ host \in HostType

-----------------------------------------------------------------------------
(* Helpers *)

NoEvent == [ev |-> "none", lun |-> 0, s |-> NoStorage, n |-> 0, ses |-> 0]
Idle    == [at |-> "idle", for |-> "none", to |-> "usb", s |-> NoStorage, i |-> 0,
            ok |-> TRUE, ev |-> NoEvent]

At(t, p)     == task[t].at = p
Go(t, p)     == task' = [task EXCEPT ![t].at = p]
Rest(t)      == task' = [task EXCEPT ![t] = Idle]
Return(t, k) == task' = [task EXCEPT ![t].at = "ret", ![t].ok = k]

\* What can go wrong with a storage object and with its medium, whose functions
\* assert its handle; and with an event, which needs the driver.
Object(s)  == IF sto[s].life = "alive" THEN "none" ELSE "freed"
Medium(s)  == IF sto[s].life = "alive" /\ ~sto[s].open THEN "closed" ELSE Object(s)
Telling(s) == IF drv.on THEN Object(s) ELSE "driver"
Worse(b)   == bad' = IF bad = "none" THEN b ELSE bad

\* storage_spiflash_close(), storage_sdmmc_close(): a kind of medium has one static
\* handle, which in the environment "twins" the storages share.
Closed(f, s) == [x \in Storage |-> IF x = s \/ "twins" \in Uses
                                   THEN [f[x] EXCEPT !.open = FALSE] ELSE f[x]]

\* msc_storage_delete()
Deleted(f, s) == [f EXCEPT ![s].life = "freed"]

\* _msc_storage_map_to_lun(): at the LUN with the number of those there are.
Mapped(d, s) == [d EXCEPT !.count = @ + 1, !.tab[d.count + 1] = s]

\* The file system is mounted, on a medium that is formatted if it has none.
Filed(r) == LET c == IF r.blank THEN 0 ELSE r.content
            IN  [r EXCEPT !.fs = TRUE, !.blank = FALSE, !.content = c, !.view = c]

Emptied(s) == [l \in Lun |-> IF drv.tab[l] = s THEN NoStorage ELSE drv.tab[l]]

\* _msc_storage_unmap_from_lun()
Unmapped(s) == [drv EXCEPT !.tab = Emptied(s), !.count = @ - 1]

-----------------------------------------------------------------------------
(* msc_storage_mount() and msc_storage_unmount(), in either task *)

\* A failure of a call that the application makes is a matter of environments of
\* its own: a storage that cannot be created, a result that is ignored.
MayFail(t) ==
    /\ "mountFails" \in Uses
    /\ task[t].for = "new" => "badNew" \in Uses
    /\ task[t].for = "set" => "ignored" \in Uses

\* The event MOUNT_START is sent, or there is nothing to do.  (There may be no
\* drive number left.)
MountBegin(t) ==
    /\ At(t, "mount")
    /\ LET s == task[t].s
       IN  IF sto[s].mp = "app" THEN Worse(Object(s)) /\ Return(t, TRUE)
           ELSE /\ Worse(Telling(s))
                /\ Go(t, "mlock") \/ (MayFail(t) /\ Return(t, FALSE))
    /\ UNCHANGED <<stack, drv, sto, q, host, fixed>>

Lock(t, from, to) ==
    /\ At(t, from) /\ sto[task[t].s].mux = "free"
    /\ Worse(Object(task[t].s))
    /\ sto' = [sto EXCEPT ![task[t].s].mux = t]
    /\ Go(t, to)
    /\ UNCHANGED <<stack, drv, q, host, fixed>>

\* Under the lock.  A medium without a file system is formatted; with do_not_format
\* everything is undone and the call successful, but the storage counts as mounted
\* to the application.
MountWork(t) ==
    /\ At(t, "mwork")
    /\ LET s == task[t].s
           unlocked == [sto[s] EXCEPT !.mux = "free"]
           registered == [unlocked EXCEPT !.disk = TRUE, !.vfs = TRUE, !.mp = "app"]
           cleaned(r, ok) == /\ sto' = [sto EXCEPT ![s] = r]
                             /\ task' = [task EXCEPT ![t].at = "clean", ![t].ok = ok]
       IN  /\ Worse(Medium(s))
           /\ \/ /\ sto[s].blank => "noFormat" \notin Uses
                 /\ sto' = [sto EXCEPT ![s] = Filed(registered)]
                 /\ Return(t, TRUE)
              \/ sto[s].blank /\ "noFormat" \in Uses /\ cleaned(registered, TRUE)
              \/ \E late \in BOOLEAN :
                   /\ IF late THEN "formatFails" \in Uses ELSE MayFail(t)
                   /\ cleaned(IF late THEN registered ELSE unlocked, FALSE)
    /\ UNCHANGED <<stack, drv, q, host, fixed>>

\* The clean-up at the label exit, without the lock.
MountClean(t) ==
    /\ At(t, "clean")
    /\ Worse(Medium(task[t].s))
    /\ sto' = [sto EXCEPT ![task[t].s] = [@ EXCEPT !.disk = FALSE, !.vfs = FALSE, !.fs = FALSE]]
    /\ Go(t, "ret")
    /\ UNCHANGED <<stack, drv, q, host, fixed>>

UnmountBegin(t) ==
    /\ At(t, "unmount")
    /\ LET s == task[t].s
       IN  IF sto[s].mp = "usb" THEN Worse(Object(s)) /\ Return(t, TRUE)
           ELSE Worse(Telling(s)) /\ Go(t, "ulock")
    /\ UNCHANGED <<stack, drv, sto, q, host, fixed>>

\* Under the lock.  It fails if there is nothing to unregister.
UnmountWork(t) ==
    /\ At(t, "uwork")
    /\ LET s == task[t].s
           ok == sto[s].disk /\ sto[s].vfs
       IN  /\ Worse(Medium(s))
           /\ sto' = [sto EXCEPT ![s] = [@ EXCEPT !.mux = "free", !.disk = FALSE, !.fs = FALSE,
                                  !.vfs = @ /\ ~ok, !.mp = IF ok THEN "usb" ELSE @]]
           /\ Return(t, ok)
    /\ UNCHANGED <<stack, drv, q, host, fixed>>

MountStep(t) ==
    \/ MountBegin(t) \/ Lock(t, "mlock", "mwork") \/ MountWork(t) \/ MountClean(t)
    \/ UnmountBegin(t) \/ Lock(t, "ulock", "uwork") \/ UnmountWork(t)

\* The end of the call sends an event, which needs the driver.
Returned(t, for) == At(t, "ret") /\ task[t].for = for /\ Worse(Telling(task[t].s))

-----------------------------------------------------------------------------
(* The task of the stack: tinyusb_device_task() and the callbacks of TinyUSB *)

Handling(e) ==
    /\ stack.booted /\ At("tud", "idle") /\ q # <<>> /\ Head(q).ev = e
    /\ q' = Tail(q)

\* The answer to the host, unless it was detached meanwhile.
Answered(ses, h) == IF ses = host.ses /\ host.st = "in" THEN [h EXCEPT !.busy = FALSE] ELSE host

\* tud_mount_cb(), tud_umount_cb(), tud_msc_start_stop_cb(): the storages are
\* mounted to USB, or to the application.
StartLoop(e, to) ==
    /\ Handling(e)
    /\ task' = [task EXCEPT !["tud"] = [Idle EXCEPT !.at = "loop", !.to = to, !.ev = Head(q),
                                        !.i = IF drv.on /\ Auto THEN 1 ELSE 3]]
    /\ UNCHANGED <<stack, drv, sto, host, bad, fixed>>

Loop ==
    /\ At("tud", "loop") /\ task["tud"].i \in Lun
    /\ Worse(IF drv.on THEN "none" ELSE "driver")
    /\ LET s == drv.tab[task["tud"].i]
       IN  task' = [task EXCEPT !["tud"] =
              IF s = NoStorage THEN [@ EXCEPT !.i = @ + 1]
              ELSE [@ EXCEPT !.at = IF task["tud"].to = "app" THEN "mount" ELSE "unmount",
                             !.for = "loop", !.s = s]]
    /\ UNCHANGED <<stack, drv, sto, q, host, fixed>>

LoopOn ==
    /\ Returned("tud", "loop")
    /\ task' = [task EXCEPT !["tud"].at = "loop", !["tud"].s = NoStorage, !["tud"].i = @ + 1]
    /\ UNCHANGED <<stack, drv, sto, q, host, fixed>>

\* The application's event callback is called, if tinyusb_driver_install() has
\* stored it; a host goes on when its request is answered.
LoopEnd ==
    /\ At("tud", "loop") /\ task["tud"].i = 3
    /\ LET e == task["tud"].ev
       IN  /\ stack' = IF ~stack.saved THEN stack
                       ELSE IF e.ev = "attach" THEN [stack EXCEPT !.told = "in"]
                       ELSE IF e.ev = "detach" THEN [stack EXCEPT !.told = "out"] ELSE stack
           /\ host' = IF e.ev = "eject" THEN Answered(e.ses, [host EXCEPT !.ejected = TRUE, !.ready = {}])
                      ELSE IF e.ev = "attach" /\ e.ses = host.ses /\ host.st = "conf"
                      THEN [host EXCEPT !.st = "in"] ELSE host
    /\ Rest("tud")
    /\ UNCHANGED <<drv, sto, q, bad, fixed>>

\* _msc_storage_get_by_lun(), which takes the driver for granted.
Found(l) == IF drv.on THEN drv.tab[l] ELSE NoStorage
LooksUp  == Worse(IF drv.on THEN "none" ELSE "driver")

\* tud_msc_test_unit_ready_cb()
UnitReady ==
    /\ Handling("ready") /\ LooksUp
    /\ LET l == Head(q).lun
           is == Found(l) # NoStorage /\ sto[Found(l)].mp = "usb"
       IN  host' = Answered(Head(q).ses,
                     [host EXCEPT !.ready = IF is THEN @ \cup {l} ELSE @ \ {l}])
    /\ UNCHANGED <<stack, drv, sto, task, fixed>>

\* tud_msc_read10_cb() and tud_msc_write10_cb(): the storage is looked up ...
Command(e) ==
    /\ Handling(e) /\ LooksUp
    /\ LET s == Found(Head(q).lun)
       IN  IF s = NoStorage
           THEN host' = Answered(Head(q).ses, host) /\ UNCHANGED task
           ELSE /\ task' = [task EXCEPT !["tud"] = [Idle EXCEPT !.at = e, !.s = s, !.ev = Head(q)]]
                /\ UNCHANGED host
    /\ UNCHANGED <<stack, drv, sto, fixed>>

\* ... and read under its lock: the host must get what it has written ...
Read ==
    /\ At("tud", "read")
    /\ LET s == task["tud"].s
           e == task["tud"].ev
       IN  /\ sto[s].mux = "free"
           /\ Worse(IF e.ses = host.ses /\ host.sent[e.lun] \notin {0, sto[s].content}
                    THEN "stale" ELSE Medium(s))
           /\ host' = Answered(e.ses, host)
    /\ Rest("tud")
    /\ UNCHANGED <<stack, drv, sto, q, fixed>>

\* ... or the data are copied to its buffer, the write deferred, and the host's
\* command ended at once.
Write ==
    /\ At("tud", "write")
    /\ LET s == task["tud"].s
           e == task["tud"].ev
       IN  /\ Worse(Object(s))
           /\ sto' = [sto EXCEPT ![s] = [@ EXCEPT !.buf = e.n, !.defs = @ + 1]]
           /\ q' = Append(q, [e EXCEPT !.ev = "deferred", !.s = s])
           /\ host' = Answered(e.ses, [host EXCEPT !.sent[e.lun] = e.n])
    /\ Rest("tud")
    /\ UNCHANGED <<stack, drv, fixed>>

\* tusb_write_func() has the storage and looks its LUN up again.
Deferred ==
    /\ Handling("deferred")
    /\ Worse(IF drv.on THEN Object(Head(q).s) ELSE "driver")
    /\ task' = [task EXCEPT !["tud"] =
           [Idle EXCEPT !.at = IF Found(Head(q).lun) = NoStorage THEN "stored" ELSE "deferred",
                        !.s = Found(Head(q).lun), !.ev = Head(q)]]
    /\ UNCHANGED <<stack, drv, sto, host, fixed>>

\* An error of the medium is only logged.
DeferredWrite ==
    /\ At("tud", "deferred")
    /\ LET s == task["tud"].s
           written == [sto EXCEPT ![s].content = sto[task["tud"].ev.s].buf, ![s].blank = FALSE]
       IN  /\ sto[s].mux = "free" /\ Worse(Medium(s))
           /\ \E ok \in BOOLEAN :
                /\ ok \/ "writeFails" \in Uses
                /\ sto' = IF ok THEN written ELSE sto
    /\ Go("tud", "stored")
    /\ UNCHANGED <<stack, drv, q, host, fixed>>

\* Bug: a write that found no storage, or a full one, stays counted.
DeferredEnd_Counted ==
    /\ At("tud", "stored")
    /\ Rest("tud")
    /\ UNCHANGED <<stack, drv, sto, q, host, bad, fixed>>

DeferredEnd ==
    /\ At("tud", "stored")
    /\ LET s == task["tud"].ev.s
       IN  /\ Worse(IF sto[s].defs = 0 THEN "assert" ELSE Object(s))
           /\ sto' = [sto EXCEPT ![s].defs = IF @ = 0 THEN 0 ELSE @ - 1]
    /\ Rest("tud")
    /\ UNCHANGED <<stack, drv, q, host, fixed>>

TudStep ==
    \/ StartLoop("attach", "usb") \/ StartLoop("detach", "app") \/ StartLoop("eject", "app")
    \/ Loop \/ LoopOn \/ LoopEnd
    \/ UnitReady \/ Command("read") \/ Command("write") \/ Read \/ Write
    \/ Deferred \/ DeferredWrite \/ DeferredEnd
    \/ MountStep("tud")

-----------------------------------------------------------------------------
(* The application *)

\* The application changes what is mounted and installed when there is no host and
\* nothing to do, unless its environment says otherwise.
Quiet == host.st = "out" /\ q = <<>> /\ At("tud", "idle")
May(u) == Quiet \/ u \in Uses

CanCall(u) == u \in Uses /\ At("app", "idle") /\ host.calls < MaxCalls
Calls(u) == CanCall(u) /\ host' = [host EXCEPT !.calls = @ + 1]

Goes(p, for, to, s) ==
    task' = [task EXCEPT !["app"] = [Idle EXCEPT !.at = p, !.for = for, !.to = to, !.s = s]]

NoDriver == [on |-> FALSE, internal |-> FALSE, count |-> 0, tab |-> [l \in Lun |-> NoStorage]]

\* msc_driver_install()
Installed(d, internal) == IF d.on THEN d ELSE [NoDriver EXCEPT !.on = TRUE, !.internal = internal]

\* tinyusb_msc_uninstall_driver(): refused while a storage is mapped.
Uninstalled(d) == IF d.count > 0 THEN d ELSE [d EXCEPT !.on = FALSE]

\* tinyusb_msc_new_storage_spiflash(), tinyusb_msc_new_storage_sdmmc(): the driver is
\* installed if it is not, the medium opened, the storage mapped, if there is a LUN
\* left, and mounted, if it is to be.
New(s, to) ==
    /\ Calls("life") /\ May("hot") /\ s \in Storages /\ sto[s].life # "alive"
    /\ LET made == [sto EXCEPT ![s] = [@ EXCEPT !.life = "alive", !.open = TRUE, !.mp = "usb",
                                        !.defs = 0, !.buf = 0, !.mux = "free"]]
           d == Installed(drv, TRUE)
       IN  IF drv.count = 2
           THEN sto' = Closed(Deleted(made, s), s) /\ UNCHANGED <<drv, task>>
           ELSE /\ sto' = made /\ drv' = Mapped(d, s)
                /\ IF to = "app" THEN Goes("mount", "new", to, s) ELSE UNCHANGED task
    /\ UNCHANGED <<stack, q, bad, fixed>>

\* A storage that cannot be mounted is freed, and its medium closed, although it is
\* mapped to its LUN.
NewEnd ==
    /\ Returned("app", "new")
    /\ LET s == task["app"].s
       IN  sto' = IF task["app"].ok THEN sto ELSE Closed(Deleted(sto, s), s)
    /\ Rest("app")
    /\ UNCHANGED <<stack, drv, q, host, fixed>>

\* tinyusb_msc_delete_storage(): refused while a write is deferred.  The application
\* deletes the storage of the last LUN first, or the next one overwrites it.
Delete(s) ==
    /\ Calls("life") /\ May("hot") /\ sto[s].life = "alive"
    /\ drv.on /\ drv.count > 0 /\ sto[s].defs = 0
    /\ drv.tab[drv.count] = s \/ "hole" \in Uses
    /\ (sto[s].mp = "app" /\ ~sto[s].disk) => "formatFails" \in Uses
    /\ Goes(IF sto[s].mp = "app" THEN "unmount" ELSE "unmap", "delete", "usb", s)
    /\ UNCHANGED <<stack, drv, sto, q, bad, fixed>>

\* A failure is checked with ESP_ERROR_CHECK, which aborts.
DeleteUnmounted ==
    /\ At("app", "ret") /\ task["app"].for = "delete"
    /\ Worse(IF task["app"].ok THEN Telling(task["app"].s) ELSE "abort")
    /\ Go("app", "unmap")
    /\ UNCHANGED <<stack, drv, sto, q, host, fixed>>

Unmap ==
    /\ At("app", "unmap")
    /\ drv' = Unmapped(task["app"].s)
    /\ Go("app", "free")
    /\ UNCHANGED <<stack, sto, q, host, bad, fixed>>

Free ==
    /\ At("app", "free")
    /\ LET s == task["app"].s
       IN  sto' = Closed(Deleted(sto, s), s)
    /\ drv' = IF drv.internal THEN Uninstalled(drv) ELSE drv
    /\ Rest("app")
    /\ UNCHANGED <<stack, q, host, bad, fixed>>

\* tinyusb_msc_set_storage_mount_point(): whatever comes of it, the storage counts
\* as mounted to what was requested.
Set(s, to) ==
    /\ Calls("set") /\ sto[s].life = "alive" /\ drv.on /\ sto[s].mp # to
    /\ (~Auto /\ to = "usb") \/ May("grab")
    /\ (to = "usb" /\ ~sto[s].disk) => "ignored" \in Uses
    /\ Goes(IF to = "app" THEN "mount" ELSE "unmount", "set", to, s)
    /\ UNCHANGED <<stack, drv, sto, q, bad, fixed>>

SetEnd ==
    /\ Returned("app", "set")
    /\ sto' = [sto EXCEPT ![task["app"].s].mp = task["app"].to]
    /\ Rest("app")
    /\ UNCHANGED <<stack, drv, q, host, fixed>>

\* tinyusb_msc_format_storage(), after FORMAT_REQUIRED
Format(s) ==
    /\ Calls("noFormat") /\ May("hot") /\ sto[s].life = "alive" /\ drv.on
    /\ sto[s].mp = "app" /\ sto[s].blank /\ ~sto[s].disk
    /\ sto' = [sto EXCEPT ![s] = Filed([@ EXCEPT !.disk = TRUE, !.vfs = TRUE])]
    /\ Worse(Medium(s))
    /\ UNCHANGED <<stack, drv, task, q, fixed>>

\* The application writes a file.
AppWrite(s) ==
    /\ sto[s].fs /\ host.writes < MaxWrites
    /\ host' = [host EXCEPT !.writes = @ + 1]
    /\ sto' = [sto EXCEPT ![s].content = host.writes + 1, ![s].view = host.writes + 1]
    /\ UNCHANGED <<stack, drv, task, q, bad, fixed>>

\* tinyusb_msc_install_driver(), tinyusb_msc_uninstall_driver()
Driver ==
    /\ Calls("driver") /\ May("hot")
    /\ drv' = IF drv.on THEN Uninstalled(drv) ELSE Installed(drv, FALSE)
    /\ UNCHANGED <<stack, sto, task, q, bad, fixed>>

\* tinyusb_driver_install(), tinyusb_task_start(): a task is created and waited for.
\* If there is no memory for its context it counts as running.
StackStart ==
    /\ Calls("stack") /\ ~stack.run /\ stack.st = "off" /\ ~stack.booted
    /\ \E ok \in BOOLEAN :
         /\ ok \/ "nomem" \in Uses
         /\ stack' = [stack EXCEPT !.st = IF ok THEN "starting" ELSE "off", !.run = TRUE]
         /\ IF ok THEN Goes("boot", "none", "usb", NoStorage) ELSE UNCHANGED task
    /\ UNCHANGED <<drv, sto, q, bad, fixed>>

\* tinyusb_device_task() installs the stack, or ends.
Boot ==
    /\ stack.run /\ ~stack.booted
    /\ stack.st = "starting" \/ "slow" \in Uses
    /\ Worse(IF At("app", "boot") THEN "none" ELSE "boot")
    /\ stack' = [stack EXCEPT !.booted = TRUE]
    /\ UNCHANGED <<drv, sto, task, q, host, fixed>>

BootFails ==
    /\ "bootFails" \in Uses /\ stack.run /\ ~stack.booted /\ stack.st = "starting"
    /\ stack' = [stack EXCEPT !.run = FALSE]
    /\ UNCHANGED <<drv, sto, task, q, host, bad, fixed>>

\* The application is notified, and stores the event callback; or gives up after 5 s.
Booted ==
    /\ At("app", "boot") /\ stack.booted
    /\ Go("app", "save")
    /\ UNCHANGED <<stack, drv, sto, q, host, bad, fixed>>

Saved ==
    /\ At("app", "save")
    /\ stack' = [stack EXCEPT !.st = "on", !.saved = TRUE]
    /\ Rest("app")
    /\ UNCHANGED <<drv, sto, q, host, bad, fixed>>

BootTimeout ==
    /\ At("app", "boot") /\ ~stack.booted /\ (stack.run => "slow" \in Uses)
    /\ stack' = [stack EXCEPT !.st = "off"]
    /\ Rest("app")
    /\ UNCHANGED <<drv, sto, q, host, bad, fixed>>

\* tinyusb_driver_uninstall(), tinyusb_task_stop(): the task is deleted, wherever it
\* is, and TinyUSB with its queue.
StackStop ==
    /\ CanCall("stop") /\ May("kill") /\ stack.st = "on" /\ stack.booted
    /\ host' = [host EXCEPT !.calls = @ + 1, !.st = "out"]
    /\ stack' = [stack EXCEPT !.st = "off", !.run = FALSE, !.booted = FALSE]
    /\ q' = <<>>
    /\ task' = [task EXCEPT !["tud"] = Idle]
    /\ UNCHANGED <<drv, sto, bad, fixed>>

AppCall ==
    \/ \E s \in Storage : \E to \in {"app", "usb"} : New(s, to) \/ Set(s, to)
    \/ \E s \in Storage : Delete(s) \/ Format(s) \/ AppWrite(s)
    \/ Driver \/ StackStart \/ StackStop

AppStep ==
    \/ NewEnd \/ DeleteUnmounted \/ Unmap \/ Free \/ SetEnd
    \/ Booted \/ Saved \/ BootTimeout \/ MountStep("app")

-----------------------------------------------------------------------------
(* The host *)

Sends(e, l, n) == q' = Append(q, [NoEvent EXCEPT !.ev = e, !.lun = l, !.n = n, !.ses = host'.ses])

\* The host configures the device, once the application is ready for it.
Attach ==
    /\ stack.booted /\ host.st = "out" /\ host.ses < MaxPlugs
    /\ (stack.st = "on" /\ stack.saved) \/ "early" \in Uses
    /\ drv.on \/ "nodriver" \in Uses
    /\ \/ At("app", "idle") \/ (~Auto /\ task["app"].for = "set" /\ task["app"].to = "usb")
       \/ Uses \cap {"grab", "hot", "early"} # {}
    /\ host' = [host EXCEPT !.st = "conf", !.ses = @ + 1, !.busy = FALSE, !.ready = {},
                            !.ejected = FALSE, !.sent = [l \in Lun |-> 0]]
    /\ Sends("attach", 0, 0)
    /\ UNCHANGED <<stack, drv, sto, task, bad, fixed>>

\* The cable is pulled; not while the device has a write of the host to take, or the
\* write is carried out below the file system that was mounted to the application.
Detach ==
    /\ host.st # "out" /\ stack.booted
    /\ "pull" \in Uses \/ \A e \in {task["tud"].ev} \cup {q[i] : i \in DOMAIN q} : e.ev # "write"
    /\ host' = [host EXCEPT !.st = "out"]
    /\ Sends("detach", 0, 0)
    /\ UNCHANGED <<stack, drv, sto, task, bad, fixed>>

\* It sends one command at a time, and reads and writes a LUN that was ready.
HostSends(e, l, n) ==
    /\ host.st = "in" /\ stack.booted /\ ~host.busy
    /\ host' = [host EXCEPT !.busy = TRUE, !.writes = IF e = "write" THEN n ELSE @]
    /\ Sends(e, l, n)
    /\ UNCHANGED <<stack, drv, sto, task, bad, fixed>>

HostStep ==
    \/ Attach \/ Detach
    \/ \E l \in Lun :
         \/ l \notin host.ready /\ HostSends("ready", l, 0)
         \/ l \in host.ready /\ HostSends("read", l, 0)
         \/ l \in host.ready /\ host.writes < MaxWrites /\ HostSends("write", l, host.writes + 1)
         \/ l \in host.ready /\ "eject" \in Uses /\ HostSends("eject", l, 0)

-----------------------------------------------------------------------------

MscInit ==
    /\ stack = [st |-> "off", run |-> FALSE, saved |-> FALSE, booted |-> FALSE, told |-> "none"]
    /\ drv = NoDriver
    /\ sto \in [Storage -> [life : {"none"}, open : {FALSE}, mp : {"usb"}, disk : {FALSE},
                            vfs : {FALSE}, fs : {FALSE}, blank : {"blank" \in Uses}, view : {0},
                            content : {0}, buf : {0}, defs : {0}, mux : {"free"}]]
    /\ task = [t \in Task |-> Idle]
    /\ q = <<>>
    /\ host = [st |-> "out", ses |-> 0, busy |-> FALSE, ready |-> {}, ejected |-> FALSE,
               sent |-> [l \in Lun |-> 0], writes |-> 0, calls |-> 0]
    /\ bad = "none"

MscNext == TudStep \/ Boot \/ BootFails \/ AppCall \/ AppStep \/ HostStep

\* FreeRTOS runs both tasks; what host and application do is theirs.
MscFair == WF_vars(TudStep \/ Boot) /\ WF_vars(AppStep)

-----------------------------------------------------------------------------
(* Properties *)

\* No function of the storage works on it.
Settled(s) ==
    /\ sto[s].life = "alive" /\ sto[s].mux = "free"
    /\ \A t \in Task : task[t].s = s => task[t].at \in {"read", "write", "deferred", "stored"}

\* Where a storage counts as mounted it is: to the application with its file system,
\* unless that is still to be made; to USB with nothing registered.
MountIsReal ==
    \A s \in Storage : Settled(s) =>
        IF sto[s].mp = "app"
        THEN \/ sto[s].fs /\ sto[s].disk /\ sto[s].vfs
             \/ sto[s].blank /\ ~(sto[s].fs \/ sto[s].disk \/ sto[s].vfs)
        ELSE ~(sto[s].fs \/ sto[s].disk \/ sto[s].vfs)

\* The host never writes below a file system that the application uses.
OneOwner == \A s \in Storage : sto[s].fs => sto[s].view = sto[s].content

\* The counter of deferred writes is that of the writes under way, of which there is
\* one at most: the next one would be copied over its data.
Pending(s) == Cardinality({i \in DOMAIN q : q[i].ev = "deferred" /\ q[i].s = s})
              + IF task["tud"].at \in {"deferred", "stored"} /\ task["tud"].ev.s = s THEN 1 ELSE 0

DeferredIsExact ==
    \A s \in Storage : sto[s].life = "alive" => sto[s].defs = Pending(s) /\ Pending(s) <= 1

\* The LUNs are dense and counted, and hold the storages that exist.
LunsAreExact ==
    /\ \A l \in Lun : drv.tab[l] # NoStorage <=> l <= drv.count
    /\ \A s \in Storage : sto[s].life = "alive" =>
         (Cardinality({l \in Lun : drv.tab[l] = s}) = IF task["app"].at = "free" /\ task["app"].s = s
                                                      THEN 0 ELSE 1)
    /\ \A l \in Lun : drv.tab[l] # NoStorage => sto[drv.tab[l]].life = "alive"

\* With automatic mounting, a host that uses the device has every storage that could
\* be unmounted from the application; one that is gone has none.
HostHasItAll ==
    (Auto /\ host.st = "in" /\ ~host.busy /\ ~host.ejected) =>
        \A l \in 1..drv.count : sto[drv.tab[l]].mp = "usb" \/ ~sto[drv.tab[l]].disk

\* At rest the application has been told whether there is a host.
AppIsTold ==
    (stack.saved /\ stack.booted /\ q = <<>> /\ At("tud", "idle")) =>
        (stack.told = "in" <=> host.st # "out")

\* A stack that is not installed may be installed.
CanRestart == stack.st = "off" => ~stack.run

\* What a user of the device's storage relies on: nothing is used after it was freed
\* or aborts, each storage has one owner, whom it is mounted to, and the deferred
\* writes, the LUNs, the notices and the stack's flags agree with what happened.
MscConsistent ==
    /\ MscTypeOK /\ bad = "none"
    /\ MountIsReal /\ OneOwner /\ DeferredIsExact /\ LunsAreExact
    /\ HostHasItAll /\ AppIsTold /\ CanRestart

\* Nothing is left undone: a deferred write, a host that is to be configured, its command,
\* a call of the application.
MscDone ==
    /\ \A s \in Storage : sto[s].defs = 0
    /\ host.st # "conf" /\ (host.busy => host.st # "in")
    /\ At("app", "idle")

=============================================================================
