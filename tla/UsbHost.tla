------------------------------- MODULE UsbHost -------------------------------
(***************************************************************************)
(* The client side of the host library (host/usb/src/usb_host.c): clients  *)
(* register, open and close devices and handle their events; the daemon's  *)
(* task handles those of the library, tells the clients about devices,     *)
(* and ends with usb_host_device_free_all() and usb_host_uninstall().      *)
(* A client may use two tasks: one in usb_host_client_handle_events(), one *)
(* that calls the rest of the API.                                         *)
(* Of a device object the USBH's bookkeeping of who has it open and what   *)
(* is to be done with it is kept (module Usbh has the rest); enumeration   *)
(* is an opener that ends by itself (module Enum), and the hub driver      *)
(* reports what is plugged in (module RootPort).  A device is named by its *)
(* address, which is not given away as long as its object exists.          *)
(***************************************************************************)
EXTENDS Naturals, Sequences, FiniteSets

CONSTANTS
    Client, Device,
    QueueLen,       \* max_num_event_msg
    Environments    \* who takes part and what may happen, see Uses

ASSUME ActorsAreFinite == IsFiniteSet(Client) /\ IsFiniteSet(Device)
ASSUME QueueLenIsPos == QueueLen \in Nat \ {0}
ASSUME EnvironmentsAreTyped ==
    \A e \in Environments :
        /\ e.clients \in Seq(Client) /\ e.notify \subseteq Client
        /\ e.devices \subseteq Device /\ e.fixed \subseteq Device
        /\ e.uses \subseteq {"races", "return", "twice"}
        /\ \A i, j \in DOMAIN e.clients : e.clients[i] = e.clients[j] => i = j

NoDev == "none"
Free == "free"
Daemon == "daemon"
ASSUME NamesDiffer == NoDev \notin Device /\ {Free, Daemon} \cap Client = {}

VARIABLES
    clients,    \* client_tailq
    cli,        \* the client objects and what their applications remember
    lib,        \* process_pending_flags, lib_event_flags and event_sem
    mux,        \* who holds mux_lock
    dmn,        \* where the daemon's task is
    dev,        \* the device objects in the USBH
    plug,       \* what is plugged in, and whether the hub driver knows
    owed,       \* history: clients that have to hear of a disconnection
    env

vars == <<clients, cli, lib, mux, dmn, dev, plug, owed, env>>

\* notify: clients with notify_dev_removed.  fixed: devices that are never
\* unplugged.  Uses: "races", the daemon may run between the two halves of
\* usb_host_device_open(), and a client may close a device while the daemon
\* reports it as gone; "return", a client that left registers again; "twice", a
\* client opens a device that it has open.
Uses == env.uses
Clients == {env.clients[i] : i \in DOMAIN env.clients}
Devices == env.devices

Registered(c) == \E i \in DOMAIN clients : clients[i] = c
Present == {d \in Devices : dev[d].life # "none"}
Holds(c, d) == d \in cli[c].opened \/ (cli[c].op = "opened" /\ cli[c].arg = d)

Message == [event : {"NEW_DEV", "DEV_GONE", "DEV_REMOVED"}, dev : Device]

ClientType ==
    [queue : Seq(Message), sem : BOOLEAN, handling : BOOLEAN,
     opened : SUBSET Device, told : SUBSET Device,
     op : {"idle", "opened", "closing"}, arg : Device \cup {NoDev}]

DaemonType ==
    [at : {"wait", "round", "dev", "again", "free_all", "uninstall", "stopped", "abort"},
     parts : SUBSET {"USBH", "HUB", "ENUM"}, cur : Device \cup {NoDev},
     jobs : Seq({"NEW_DEV", "DEV_GONE", "DEV_REMOVED", "FREE"}), left : Seq(Client),
     shut : {"no", "waiting", "done"}]

ObjectType ==
    [life : {"none", "enum", "enumerated", "ready"}, gone : BOOLEAN, waiting : BOOLEAN,
     opens : 0..(2 * Cardinality(Client) + 1),
     acts : SUBSET {"GONE", "REMOVED", "FREE", "NEW"}]

TypeOK ==
    /\ clients \in Seq(Clients)
    /\ cli \in [Client -> ClientType] /\ \A c \in Client : Len(cli[c].queue) <= QueueLen
    /\ lib \in [pend : SUBSET {"USBH", "HUB", "ENUM"}, sem : BOOLEAN,
                flags : SUBSET {"NO_CLIENTS", "ALL_FREE"}]
    /\ mux \in Client \cup {Free, Daemon}
    /\ dmn \in DaemonType
    /\ dev \in [Device -> ObjectType]
    /\ plug \in [Device -> {"out", "new", "known", "lost"}]
    /\ owed \in [Device -> SUBSET Client]
    /\ env \in Environments

-----------------------------------------------------------------------------
(* The USBH's device objects, as far as clients and daemon use them *)

NoObject == [life |-> "none", gone |-> FALSE, waiting |-> FALSE, opens |-> 0, acts |-> {}]

\* proc_req_callback()
Requested(l, part) == [l EXCEPT !.pend = @ \cup {part}, !.sem = TRUE]

\* _dev_set_actions(): the daemon is called when the device becomes pending.
SetActs(d, r, A) ==
    /\ dev' = [dev EXCEPT ![d] = [r EXCEPT !.acts = @ \cup A]]
    /\ lib' = IF A # {} /\ r.acts = {} THEN Requested(lib, "USBH") ELSE lib

\* Bug: a gone device is not freed by its last user.
CloseObject_NoFree(d) == SetActs(d, [dev[d] EXCEPT !.opens = @ - 1], {})

\* usbh_dev_close()
CloseObject(d) ==
    LET last == dev[d].opens = 1
    IN  SetActs(d, [dev[d] EXCEPT !.opens = @ - 1],
                IF last /\ (dev[d].gone \/ dev[d].waiting) THEN {"FREE"} ELSE {})

\* Who has to hear that d is disconnected: its users and the subscribers.
Concerned(d) == {c \in Clients : Registered(c) /\ (c \in env.notify \/ Holds(c, d))}

\* usbh_devs_remove() of a device object r
Remove(d, r) ==
    /\ SetActs(d, [r EXCEPT !.gone = TRUE],
               IF r.opens = 0 THEN {"REMOVED", "FREE"} ELSE {"GONE"})
    /\ owed' = [owed EXCEPT ![d] = Concerned(d)]

-----------------------------------------------------------------------------
(* Devices come and go *)

\* Clients keep up with the events: an address is not used again while a message
\* about its former device is queued.  Devices are plugged in one at a time (the
\* enumerator takes them one by one), and none after the last client has left.
Unread(d) == \E c \in Clients, i \in 1..QueueLen :
                i \in DOMAIN cli[c].queue /\ cli[c].queue[i].dev = d

Plug(d) ==
    /\ plug[d] = "out" /\ dev[d].life = "none" /\ ~Unread(d)
    /\ \A e \in Devices : plug[e] # "new" /\ dev[e].life \notin {"enum", "enumerated"}
    /\ clients # <<>>
    /\ dmn.at \notin {"stopped", "abort"}
    /\ plug' = [plug EXCEPT ![d] = "new"]
    /\ lib' = Requested(lib, "HUB")
    /\ UNCHANGED <<clients, cli, mux, dmn, dev, owed, env>>

Unplug(d) ==
    /\ plug[d] \in {"new", "known"} /\ d \notin env.fixed /\ dmn.at \notin {"stopped", "abort"}
    /\ plug' = [plug EXCEPT ![d] = IF @ = "new" THEN "out" ELSE "lost"]
    /\ lib' = Requested(lib, "HUB")
    /\ UNCHANGED <<clients, cli, mux, dmn, dev, owed, env>>

\* The last transfer of an enumeration is done.
EnumTransferDone(d) ==
    /\ dev[d].life = "enum"
    /\ dev' = [dev EXCEPT ![d].life = "enumerated"]
    /\ lib' = Requested(lib, "ENUM")
    /\ UNCHANGED <<clients, cli, mux, dmn, plug, owed, env>>

-----------------------------------------------------------------------------
(* usb_host_lib_handle_events() *)

\* The semaphore is taken, the pending flags are read and cleared.  (A request
\* between the two only gives the semaphore once more.)
Take ==
    /\ dmn.at \in {"wait", "again"} /\ lib.sem
    /\ lib' = [lib EXCEPT !.sem = FALSE, !.pend = {}]
    /\ dmn' = [dmn EXCEPT !.at = "round", !.parts = lib.pend]
    /\ UNCHANGED <<clients, cli, mux, dev, plug, owed, env>>

\* The part of the round that the daemon is in.
Part == CASE "USBH" \in dmn.parts -> "USBH"
          [] "HUB" \in dmn.parts  -> "HUB"
          [] "ENUM" \in dmn.parts -> "ENUM"
          [] OTHER -> "end"
In(part) == dmn.at = "round" /\ Part = part

NextPart ==
    /\ dmn.at = "round"
    /\ CASE Part = "USBH" -> \A d \in Devices : dev[d].acts = {}
         [] Part = "HUB"  -> \A d \in Devices : plug[d] \notin {"new", "lost"}
         [] Part = "ENUM" -> \A d \in Devices : dev[d].life # "enumerated"
         [] OTHER -> TRUE
    /\ dmn' = [dmn EXCEPT !.parts = @ \ {Part},
                          !.at = IF dmn.parts \subseteq {Part} THEN "again" ELSE @]
    /\ UNCHANGED <<clients, cli, lib, mux, dev, plug, owed, env>>

\* hub_process(): a connection is enumerated, HUB_EVENT_CONNECTED
HubNew(d) ==
    /\ In("HUB") /\ plug[d] = "new"
    /\ plug' = [plug EXCEPT ![d] = "known"]
    /\ dev' = [dev EXCEPT ![d] = [NoObject EXCEPT !.life = "enum", !.opens = 1]]
    /\ UNCHANGED <<clients, cli, lib, mux, dmn, owed, env>>

\* HUB_EVENT_DISCONNECTED: an enumeration is cancelled, and gives the device
\* back at once or (its transfer being in flight) later.
HubLost(d) ==
    /\ In("HUB") /\ plug[d] = "lost"
    /\ plug' = [plug EXCEPT ![d] = "out"]
    /\ \/ dev[d].life = "none" /\ UNCHANGED <<dev, lib, owed>>
       \/ dev[d].life # "none" /\ Remove(d, dev[d])
       \/ /\ dev[d].life \in {"enum", "enumerated"}
          /\ Remove(d, [dev[d] EXCEPT !.life = "ready", !.opens = 0])
    /\ UNCHANGED <<clients, cli, mux, dmn, env>>

\* enum_process(): the enumeration ends; unless it was cancelled, the device is
\* reported with usbh_devs_new_dev_event().
EnumEnds(d) ==
    /\ In("ENUM") /\ dev[d].life = "enumerated"
    /\ LET freed == IF dev[d].gone \/ dev[d].waiting THEN {"FREE"} ELSE {}
       IN  SetActs(d, [dev[d] EXCEPT !.life = "ready", !.opens = 0],
                   freed \cup IF dev[d].gone THEN {} ELSE {"NEW"})
    /\ UNCHANGED <<clients, cli, mux, dmn, plug, owed, env>>

-----------------------------------------------------------------------------
(* usbh_process() and usbh_event_callback() *)

\* What a device's actions come to, in the order in which usbh_process() and
\* usbh_event_callback() go through them.
JobsOf(A) ==
    (IF "GONE" \in A THEN <<"DEV_REMOVED", "DEV_GONE">> ELSE <<>>) \o
    (IF "REMOVED" \in A THEN <<"DEV_REMOVED">> ELSE <<>>) \o
    (IF "FREE" \in A THEN <<"FREE">> ELSE IF "NEW" \in A THEN <<"NEW_DEV">> ELSE <<>>)

ProcessDevice(d) ==
    /\ In("USBH") /\ dev[d].acts # {}
    /\ dmn' = [dmn EXCEPT !.at = "dev", !.cur = d, !.jobs = JobsOf(dev[d].acts)]
    /\ dev' = [dev EXCEPT ![d].acts = {}]
    /\ UNCHANGED <<clients, cli, lib, mux, plug, owed, env>>

Job(j) == dmn.at = "dev" /\ dmn.jobs # <<>> /\ Head(dmn.jobs) = j
Telling == dmn.at = "dev" /\ mux = Daemon

\* In the quiet environments a client has recorded what it opened by the time
\* that the daemon reports on the device.
Recorded == \A c \in Clients : cli[c].op = "opened" => cli[c].arg # dmn.cur

\* send_event_msg_to_clients(), send_removed_event_msg_to_clients()
StartTelling ==
    /\ Job("NEW_DEV") \/ Job("DEV_GONE") \/ Job("DEV_REMOVED")
    /\ "races" \in Uses \/ Recorded
    /\ mux = Free /\ mux' = Daemon
    /\ dmn' = [dmn EXCEPT !.left = clients]
    /\ UNCHANGED <<clients, cli, lib, dev, plug, owed, env>>

\* Bug: nobody is told of a device that somebody has open.
Addressed_Owners(c, event, d) ==
    CASE event = "NEW_DEV" -> TRUE
      [] event = "DEV_GONE" -> FALSE
      [] event = "DEV_REMOVED" -> c \in env.notify

\* Which clients a message is for.
Addressed(c, event, d) ==
    CASE event = "NEW_DEV" -> TRUE
      [] event = "DEV_GONE" -> d \in cli[c].opened
      [] event = "DEV_REMOVED" -> c \in env.notify /\ d \notin cli[c].opened

\* The message is sent, or dropped when the client's queue is full, and the client
\* woken.  (When it is woken a moment later, it may find that it has handled the
\* message already.)
Tell ==
    /\ Telling /\ dmn.left # <<>>
    /\ LET c == Head(dmn.left)
           event == Head(dmn.jobs)
           sent == Addressed(c, event, dmn.cur) /\ Len(cli[c].queue) < QueueLen
           heard == event = "DEV_GONE" \/ (event = "DEV_REMOVED" /\ ~Holds(c, dmn.cur))
       IN  /\ dmn' = [dmn EXCEPT !.left = Tail(@)]
           /\ cli' = IF ~sent THEN cli
                     ELSE [cli EXCEPT ![c].sem = TRUE, ![c].queue =
                             Append(@, [event |-> event, dev |-> dmn.cur])]
           /\ owed' = IF sent /\ heard THEN [owed EXCEPT ![dmn.cur] = @ \ {c}] ELSE owed
    /\ UNCHANGED <<clients, lib, mux, dev, plug, env>>

StopTelling ==
    /\ Telling /\ dmn.left = <<>>
    /\ mux' = Free
    /\ dmn' = [dmn EXCEPT !.jobs = Tail(@)]
    /\ UNCHANGED <<clients, cli, lib, dev, plug, owed, env>>

\* handle_free(), USBH_EVENT_ALL_FREE
HandleFree ==
    /\ Job("FREE")
    /\ dev' = [dev EXCEPT ![dmn.cur] = NoObject]
    /\ lib' = IF Present = {dmn.cur}
              THEN [lib EXCEPT !.flags = @ \cup {"ALL_FREE"}, !.sem = TRUE] ELSE lib
    /\ dmn' = [dmn EXCEPT !.jobs = Tail(@)]
    /\ UNCHANGED <<clients, cli, mux, plug, owed, env>>

DeviceDone ==
    /\ dmn.at = "dev" /\ dmn.jobs = <<>>
    /\ dmn' = [dmn EXCEPT !.at = "round", !.cur = NoDev]
    /\ UNCHANGED <<clients, cli, lib, mux, dev, plug, owed, env>>

-----------------------------------------------------------------------------
(* The daemon's application: free everything when the last client has left, *)
(* wait for ALL_FREE unless there was nothing to free, uninstall.           *)

\* usb_host_lib_handle_events() returns the event flags: ALL_FREE ends the wait for
\* it, and means nothing else.
Return ==
    /\ dmn.at = "again" /\ ~lib.sem
    /\ lib' = [lib EXCEPT !.flags = {}]
    /\ LET done == dmn.shut = "done" \/ (dmn.shut = "waiting" /\ "ALL_FREE" \in lib.flags)
       IN  dmn' = [dmn EXCEPT !.at = IF "NO_CLIENTS" \in lib.flags THEN "free_all"
                                     ELSE IF done THEN "uninstall" ELSE "wait",
                              !.shut = IF done THEN "done" ELSE @]
    /\ UNCHANGED <<clients, cli, mux, dev, plug, owed, env>>

\* Bug: devices in use are passed over.
MarkAllFree_Unused ==
    /\ dev' = [d \in Device |->
                 IF d \in Present /\ dev[d].opens = 0
                 THEN [dev[d] EXCEPT !.acts = @ \cup {"FREE"}] ELSE dev[d]]
    /\ lib' = IF \E d \in Present : dev[d].opens = 0 /\ dev[d].acts = {}
              THEN Requested(lib, "USBH") ELSE lib

\* usbh_devs_mark_all_free()
MarkAllFree ==
    /\ dev' = [d \in Device |->
                 IF d \notin Present THEN dev[d]
                 ELSE IF dev[d].opens = 0 THEN [dev[d] EXCEPT !.acts = @ \cup {"FREE"}]
                 ELSE [dev[d] EXCEPT !.waiting = TRUE]]
    /\ lib' = IF \E d \in Present : dev[d].opens = 0 /\ dev[d].acts = {}
              THEN Requested(lib, "USBH") ELSE lib

\* usb_host_device_free_all()
FreeAll ==
    /\ dmn.at = "free_all"
    /\ IF clients # <<>>
       THEN dmn' = [dmn EXCEPT !.at = "wait"] /\ UNCHANGED <<dev, lib>>
       ELSE /\ MarkAllFree
            /\ dmn' = [dmn EXCEPT !.at = IF Present = {} THEN "uninstall" ELSE "wait",
                                  !.shut = IF Present = {} THEN "done" ELSE "waiting"]
    /\ UNCHANGED <<clients, cli, mux, plug, owed, env>>

\* usb_host_uninstall(): refused while anything is pending, and the daemon goes
\* on handling events; usbh_uninstall() must not find a device.
Uninstall ==
    /\ dmn.at = "uninstall"
    /\ LET refused == lib.pend # {} \/ lib.flags # {} \/ clients # <<>>
       IN  dmn' = [dmn EXCEPT !.at = IF refused THEN "wait"
                                     ELSE IF Present # {} THEN "abort" ELSE "stopped"]
    /\ UNCHANGED <<clients, cli, lib, mux, dev, plug, owed, env>>

DaemonStep ==
    \/ Take \/ NextPart
    \/ \E d \in Devices : HubNew(d) \/ HubLost(d) \/ EnumEnds(d) \/ ProcessDevice(d)
    \/ StartTelling \/ Tell \/ StopTelling \/ HandleFree \/ DeviceDone
    \/ Return \/ FreeAll \/ Uninstall

-----------------------------------------------------------------------------
(* Clients *)

NoClient == [queue |-> <<>>, sem |-> FALSE, handling |-> FALSE, opened |-> {},
             told |-> {}, op |-> "idle", arg |-> NoDev]

\* usb_host_client_register(): a client that left comes back while others are
\* still there.
Register(c) ==
    /\ "return" \in Uses
    /\ ~Registered(c) /\ clients # <<>> /\ mux = Free
    /\ clients' = Append(clients, c)
    /\ UNCHANGED <<cli, lib, mux, dmn, dev, plug, owed, env>>

\* (The last client does not leave while a device is just being plugged in.)
MayDeregister(c) ==
    /\ Registered(c)
    /\ ~cli[c].handling /\ cli[c].opened = {} /\ cli[c].op = "idle"
    /\ Len(clients) > 1 \/ \A d \in Devices : plug[d] # "new"

\* TAILQ_REMOVE()
Unlinked(c) ==
    LET i == CHOOSE j \in DOMAIN clients : clients[j] = c
    IN  SubSeq(clients, 1, i - 1) \o SubSeq(clients, i + 1, Len(clients))

Leave(c) ==
    /\ clients' = Unlinked(c)
    /\ cli' = [cli EXCEPT ![c] = NoClient]
    /\ lib' = IF Len(clients) = 1
              THEN [lib EXCEPT !.flags = @ \cup {"NO_CLIENTS"}, !.sem = TRUE] ELSE lib
    /\ owed' = [d \in Device |-> owed[d] \ {c}]
    /\ UNCHANGED <<mux, dmn, dev, plug, env>>

\* usb_host_client_deregister()
Deregister(c) == MayDeregister(c) /\ mux = Free /\ Leave(c)

\* usb_host_client_handle_events() has something to do ...
HandleEvents(c) ==
    /\ Registered(c) /\ ~cli[c].handling /\ cli[c].sem
    /\ cli' = [cli EXCEPT ![c].sem = FALSE, ![c].handling = TRUE]
    /\ UNCHANGED <<clients, lib, mux, dmn, dev, plug, owed, env>>

\* ... hands the messages to the application, which has to close a device that
\* is gone ...
HandleMessage(c) ==
    /\ cli[c].handling /\ cli[c].queue # <<>>
    /\ LET m == Head(cli[c].queue)
       IN  cli' = [cli EXCEPT ![c].queue = Tail(@),
                              ![c].told = IF m.event = "DEV_GONE" /\ m.dev \in cli[c].opened
                                          THEN @ \cup {m.dev} ELSE @]
    /\ UNCHANGED <<clients, lib, mux, dmn, dev, plug, owed, env>>

\* ... and returns.  While it has nothing to do it may block or return at any time,
\* depending on timeout_ticks and usb_host_client_unblock(); a client deregisters
\* when it has returned.
HandledEvents(c) ==
    /\ cli[c].handling /\ cli[c].queue = <<>>
    /\ cli' = [cli EXCEPT ![c].handling = FALSE]
    /\ UNCHANGED <<clients, lib, mux, dmn, dev, plug, owed, env>>

\* usb_host_device_open(): usbh_devs_open() ...
Open(c, d) ==
    /\ Registered(c) /\ cli[c].op = "idle"
    /\ "twice" \in Uses \/ d \notin cli[c].opened
    /\ dev[d].life = "ready" /\ ~dev[d].gone /\ ~dev[d].waiting
    /\ dev' = [dev EXCEPT ![d].opens = @ + 1]
    /\ cli' = [cli EXCEPT ![c].op = "opened", ![c].arg = d]
    /\ UNCHANGED <<clients, lib, mux, dmn, plug, owed, env>>

\* ... and the record in opened_dev_addr_map, unless it is there already.
RecordOpened(c) ==
    /\ cli[c].op = "opened"
    /\ cli' = [cli EXCEPT ![c].op = "idle", ![c].arg = NoDev, ![c].opened = @ \cup {cli[c].arg}]
    /\ IF cli[c].arg \in cli[c].opened THEN CloseObject(cli[c].arg) ELSE UNCHANGED <<dev, lib>>
    /\ UNCHANGED <<clients, mux, dmn, plug, owed, env>>

\* usb_host_device_close(): the record is cleared ...
Close(c, d) ==
    /\ d \in cli[c].opened /\ cli[c].op = "idle" /\ mux = Free
    /\ "races" \in Uses \/ dmn.cur # d
    /\ mux' = c
    /\ cli' = [cli EXCEPT ![c].op = "closing", ![c].arg = d,
                          ![c].opened = @ \ {d}, ![c].told = @ \ {d}]
    /\ owed' = [owed EXCEPT ![d] = IF c \in env.notify THEN @ ELSE @ \ {c}]
    /\ UNCHANGED <<clients, lib, dmn, dev, plug, env>>

\* ... and usbh_dev_close() called, under the lock.
Closed(c) ==
    /\ cli[c].op = "closing"
    /\ CloseObject(cli[c].arg)
    /\ mux' = Free
    /\ cli' = [cli EXCEPT ![c].op = "idle", ![c].arg = NoDev]
    /\ UNCHANGED <<clients, dmn, plug, owed, env>>

-----------------------------------------------------------------------------
Init ==
    /\ env \in Environments
    /\ clients = env.clients
    /\ cli = [c \in Client |-> NoClient]
    /\ lib = [pend |-> {}, sem |-> FALSE, flags |-> {}]
    /\ mux = Free
    /\ dmn = [at |-> "wait", parts |-> {}, cur |-> NoDev, jobs |-> <<>>, left |-> <<>>,
              shut |-> "no"]
    /\ dev = [d \in Device |-> NoObject]
    /\ plug = [d \in Device |-> "out"]
    /\ owed = [d \in Device |-> {}]

Bus == \E d \in Devices : Plug(d) \/ Unplug(d) \/ EnumTransferDone(d)

Handler(c) == HandleEvents(c) \/ HandleMessage(c) \/ HandledEvents(c)

Api == \E c \in Clients :
          \/ Register(c) \/ Deregister(c) \/ RecordOpened(c) \/ Closed(c)
          \/ \E d \in Devices : Open(c, d) \/ Close(c, d)

\* The program ends when it has uninstalled the library.
Ended == dmn.at \in {"stopped", "abort"} /\ UNCHANGED vars

Next == DaemonStep \/ Bus \/ (\E c \in Clients : Handler(c)) \/ Api \/ Ended

Spec == Init /\ [][Next]_vars

\* The tasks run; what the daemon and the clients wait for with mux_lock is given
\* up again and again, and the longest waiter is next.  A transfer ends.  An
\* application closes a device that it has been told is gone.
Fairness ==
    /\ SF_vars(DaemonStep)
    /\ \A d \in Device : WF_vars(d \in Devices /\ EnumTransferDone(d))
    /\ \A c \in Client :
          /\ WF_vars(c \in Clients /\ Handler(c))
          /\ WF_vars(RecordOpened(c)) /\ WF_vars(Closed(c))
          /\ \A d \in Device : SF_vars(d \in cli[c].told /\ Close(c, d))

FairSpec == Spec /\ Fairness

-----------------------------------------------------------------------------
(* Properties *)

\* A client that has a device open, or is opening it, has an object behind its
\* handle; and the clients' records and the USBH's count never disagree on who is
\* last: open_count is the number of records in opened_dev_addr_map, of opens not
\* yet recorded and of closes not yet carried out, and the enumeration.
HeldIsAlive ==
    /\ \A c \in Clients, d \in Devices : Holds(c, d) => dev[d].life = "ready"
    /\ \A d \in Devices :
          dev[d].opens = Cardinality({c \in Clients : d \in cli[c].opened})
                       + Cardinality({c \in Clients : cli[c].op # "idle" /\ cli[c].arg = d})
                       + IF dev[d].life \in {"enum", "enumerated"} THEN 1 ELSE 0

\* The daemon sends to, and wakes, registered clients only: nobody frees a client
\* that send_event_msg_to_clients() has ahead of it (usb_host.c:1240, :256).
WalksRegistered == \A i \in DOMAIN dmn.left : Registered(dmn.left[i])

\* Once the daemon has reported a disconnection, every client that had the device
\* open, or subscribed to removals, was told or has given the device up
\* (docs/en/usb_host.rst:239-241).
EverybodyIsTold ==
    \A d \in Devices :
        dev[d].gone /\ dev[d].acts \cap {"GONE", "REMOVED"} = {} /\ dmn.cur # d
            => owed[d] = {}

\* usb_host_uninstall() does not find a device that was to be free at that point
\* (usb_host.c:847): it would stop at the ESP_ERROR_CHECK of usbh_uninstall().
UninstallIsClean == dmn.at # "abort"

\* A device that was unplugged is freed, so that its port can be used again: the
\* news reaches all who have it open, and the last to close it has it freed.
GoneIsFreed == \A d \in Device : dev[d].gone ~> (dev[d].life = "none")

\* After the last client has left, the daemon's application gets to uninstall the
\* library: NO_CLIENTS and ALL_FREE are raised and neither is lost.
ShutdownEnds == clients = <<>> ~> dmn.at = "stopped"

\* Clients, daemon and device objects agree at any time: who holds a device, who is
\* walked through, who is told, and what is left when the library is uninstalled.
Consistent ==
    /\ TypeOK /\ HeldIsAlive /\ WalksRegistered
    /\ EverybodyIsTold /\ UninstallIsClean

=============================================================================
