------------------------------ MODULE Transfers ------------------------------
(***************************************************************************)
(* Transfers as the HCD sees them.  Endpoint specifies who works on an     *)
(* endpoint, and takes a buffer for the transfer that is in it; Buffers    *)
(* specifies what a pipe does with the descriptors in its buffers.  They   *)
(* have nothing in common but the environment.                             *)
(***************************************************************************)
EXTENDS Integers, Sequences, FiniteSets

CONSTANTS Environments    \* see Uses

VARIABLES       \* of Endpoint
    port,       \* state of the port as the pipes see it
    gone,       \* the device is gone (is_gone)
    acts,       \* its actions about endpoints other than EP0, and the hub's requests
    claimed,    \* the interface is in the client's list
    pipe,       \* the endpoints' pipes
    wrap,       \* the client's ep_wrapper_t
    pendingEps, \* pending_ep_tailq
    sem,        \* the client's event_sem
    inflight,   \* usb_host_inflight
    task,       \* where the client's two tasks are
    dmn         \* where the daemon is

VARIABLES       \* of Buffers
    ch,         \* a pipe, its port, and the task that waits for the pipe
    dma         \* the pipe's buffers, its channel, and its transfers

VARIABLE env

epVars  == <<port, gone, acts, claimed, pipe, wrap, pendingEps, sem, inflight, task, dmn>>
dmaVars == <<ch, dma>>
vars    == <<epVars, dmaVars, env>>

\* Uses: "errors", transfers fail; "commands", the client halts, flushes and clears;
\* "unplug", the device is unplugged; "hub", its port is an external hub's, so that
\* the root port stays; "suspend", the root port is suspended and resumed; "crossing",
\* also between a submission's look at it and its enqueueing; "races", see
\* Endpoint!Calm; "buffers", the pipes are those of Buffers.
Uses == env.uses

=============================================================================
