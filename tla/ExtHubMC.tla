------------------------------ MODULE ExtHubMC ------------------------------
EXTENDS ExtHub

\* The configuration of a plain hub, and others that a hub or another device may have:
\* the hub's interface behind another one or with a second setting; an interface of
\* another kind, without an endpoint, with one of another direction or type, too large,
\* or with too many; descriptors that are too short or that a walk cannot leave.
Status(mps) == Ep(1, "in", "intr", mps)
HubConf == <<Plain, Intf(0, 0, 1, "hub"), Status(1)>>
OtherConfs ==
    {<<Plain, Intf(0, 0, 1, "other"), Ep(2, "in", "intr", 4), Intf(1, 0, 1, "hub"), Status(1)>>,
     HubConf \o <<Intf(0, 1, 1, "hub"), Ep(2, "in", "intr", 1)>>,
     <<Plain, Intf(0, 0, 1, "hub"), Ep(2, "out", "intr", 1), Intf(0, 1, 1, "hub"), Status(1)>>,
     <<Plain, Intf(0, 0, 1, "other"), Status(1)>>,
     <<Plain, Intf(0, 0, 0, "hub")>>, <<Plain, Intf(0, 0, 1, "hub")>>,
     <<Plain, Intf(0, 0, 1, "hub"), Ep(1, "out", "intr", 1)>>,
     <<Plain, Intf(0, 0, 1, "hub"), Ep(1, "in", "bulk", 1)>>,
     <<Plain, Intf(0, 0, 1, "hub"), Status(8)>>,
     <<Plain, Intf(0, 0, 3, "hub"), Status(1)>>,
     <<Plain, [Intf(0, 0, 1, "hub") EXCEPT !.size = "short"], Status(1)>>,
     <<Plain, Intf(0, 0, 1, "hub"), [Status(1) EXCEPT !.size = "zero"]>>,
     <<Plain, [Class("any") EXCEPT !.size = "zero"], Intf(0, 0, 1, "hub"), Status(1)>>}
HubConfs(e) == {HubConf} \cup (IF "conf" \in e THEN OtherConfs ELSE {})

\* Devices come and go; enumerations fail; there is no memory for a device; ports
\* err; the hub stalls or fails; the hub is unplugged, or everything is freed,
\* while nothing goes on; the hub is of another kind.
Tame == {{"unplug", "hold"}, {"enum", "unplug"}, {"nomem"}, {"error"}, {"badhub"}, {"conf"},
         {"leavequiet"}, {"freequiet"}}

\* One environment for each hazard that the code does not survive: the hub is
\* unplugged, or everything freed, while a port is handled; the hub reports a change
\* of its own; a device is replaced, or unplugged, during its reset; a device
\* without a device object is unplugged; there is no memory for the array of ports, or
\* for one of the ports.
Wild == {{"leave"}, {"freeall", "hold", "unplug"}, {"hubchange"}, {"bounce", "unplug"},
         {"inreset", "unplug"}, {"nomem", "unplug"}, {"noarray"}, {"noport"}}
=============================================================================
