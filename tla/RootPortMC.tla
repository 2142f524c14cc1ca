------------------------------ MODULE RootPortMC ------------------------------
\* Environments of the root port, named for what they add.
EXTENDS RootPort

Plugging == [uses |-> {"enumFail"}, calm |-> FALSE]
Calmly   == [uses |-> {"enumFail", "suspend", "overcurrent", "portError"},
             calm |-> TRUE]
Switched == [uses |-> {"enumFail", "noChannel", "suspend", "overcurrent",
                       "portError", "switch"}, calm |-> TRUE]
Freed    == [uses |-> {"enumFail", "noChannel", "overcurrent", "portError",
                       "freeAll"}, calm |-> TRUE]

Sleeping == [uses |-> {"enumFail", "suspend", "sleep", "overcurrent", "portError",
                       "switch"}, calm |-> TRUE]

\* All that a calm port survives, and all that a port survives that is not
Calmest   == [uses |-> Feature \ {"freeAll", "switchAnytime", "eager", "clockFails"},
              calm |-> TRUE]
Unsettled == [uses |-> {"enumFail", "noChannel", "freeAll"}, calm |-> FALSE]

Benign    == {Plugging, Calmly, Switched, Freed, Sleeping, Calmest, Unsettled}

\* They are tame: what is proved of tame environments holds in them.
ASSUME TheoremsApply == \A e \in Benign : IsTame(e)

\* A remote wakeup that ends the light sleep, or a transfer right after it, has the
\* resume handled before the rest of the light sleep (hub.c:646); a port in recovery
\* may be asked to suspend (hub.c:595).
Waking    == {[uses |-> {"sleep", "suspend"}, calm |-> FALSE]}
Switching == {[uses |-> {"switchAnytime"}, calm |-> FALSE]}

\* A suspension asked for before the USBH has cleared the endpoints after a resumption
\* has them cleared after it has halted them (usbh.c:868-888, hub.c:595).
Eager     == {[uses |-> {"suspend", "eager"}, calm |-> TRUE]}

\* A suspended port whose clock is stuck fails every command (hub.c:595, 632, 901).
Clockless == {[uses |-> {"suspend", "switch", "clockFails"}, calm |-> TRUE]}
===============================================================================
