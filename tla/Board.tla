-------------------------------- MODULE Board --------------------------------
(***************************************************************************)
(* The state of a board: what this repository has for the device end of a  *)
(* cable.  Its parts share nothing but the board, and each is specified in *)
(* a module of its own that leaves the variables of the others alone.      *)
(***************************************************************************)
EXTENDS Integers, Sequences, FiniteSets

CONSTANTS
    MaxPlugs,       \* bound of how often something is plugged in
    MaxText,        \* bound of what is sent each way: characters, packets
    Environments    \* which part of the board is used, and what may happen

VARIABLES           \* of TinyMsc
    stack,  \* the stack's task, its context, and s_ctx of tinyusb.c
    drv,    \* p_msc_driver, and its table of LUNs
    sto,    \* the storage objects and what is on their media
    task,   \* where the two tasks are
    q,      \* TinyUSB's event queue
    host,   \* the USB host
    bad     \* the first thing that went wrong for good

VARIABLES           \* of TinyCdc
    acm,    \* cdc_obj[0] and its CDC-ACM object
    vfs,    \* s_vfstusb, its registration, and the standard streams
    ser,    \* TinyUSB's FIFOs and events, and the host's terminal
    job,    \* where the tasks are
    ill     \* the first thing that went wrong for good

VARIABLES           \* of TinyNet
    net,    \* s_net_obj
    later,  \* the functions deferred to the stack's task, and where that task is
    call,   \* where the application is
    pkt,    \* the packets
    lost    \* the first thing that went wrong for good

VARIABLES           \* of Tcpm
    port,   \* the typec_port_t, and what the application was told by its events
    chip,   \* the FUSB302
    gpio,   \* the pins: VBUS enable, and interrupt
    line,   \* the socket
    doing,  \* where the worker and the application are
    fault   \* the first thing that went wrong for good

VARIABLE env

mscVars == <<stack, drv, sto, task, q, host, bad>>
cdcVars == <<acm, vfs, ser, job, ill>>
netVars == <<net, later, call, pkt, lost>>
tcVars  == <<port, chip, gpio, line, doing, fault>>
vars    == <<mscVars, cdcVars, netVars, tcVars, env>>

InUse(use) == use \in env.uses

=============================================================================
