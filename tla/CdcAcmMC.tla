------------------------------ MODULE CdcAcmMC ------------------------------
EXTENDS Vcp

Pair == 1..2

-----------------------------------------------------------------------------
(* Configurations, and the interfaces of the pseudo-devices *)

Func(n)  == [i \in 1..n |-> Class("cdc")]
Notif(a) == <<Ep(a, "in", "intr", 1)>>
Data(a)  == <<Ep(a, "out", "bulk", 2), Ep(a, "in", "bulk", 2)>>

\* A composite device with an association, and with a data interface that has settings
Composite ==
    <<Conf("misc", TRUE), Iad(0, 2, "comm"), Intf(0, 0, 1, "comm")>> \o Func(4) \o Notif(3)
    \o <<Intf(1, 0, 0, "data"), Intf(1, 1, 2, "data")>> \o Data(1)
    \o <<Iad(2, 2, "comm"), Intf(2, 0, 1, "comm")>> \o Func(4) \o Notif(4) \o <<Intf(3, 0, 2, "data")>> \o Data(2)
Simple == <<Conf("comm", FALSE), Intf(0, 0, 0, "comm")>> \o Func(1) \o <<Intf(1, 0, 2, "data")>> \o Data(1)
Vendor ==
    <<Conf("vendor", FALSE), Intf(0, 0, 2, "vendor")>> \o Data(1)
    \o <<Intf(1, 0, 3, "vendor")>> \o Notif(3) \o Data(2)
Mute ==
    <<Conf("interface", FALSE), Intf(0, 0, 1, "hid")>> \o Notif(3)
    \o <<Intf(1, 0, 0, "comm")>> \o Func(2) \o <<Intf(2, 0, 1, "data")>> \o Notif(4)

\* Devices that the driver misreads: a notification endpoint in the data interface, a setting
\* with two other endpoints, functional descriptors behind the endpoint, an endpoint that
\* is not there, or that is the next interface's, an interrupt endpoint in the other direction.
Three == <<Conf("comm", FALSE), Intf(0, 0, 0, "comm")>> \o Func(2) \o <<Intf(1, 0, 3, "data")>> \o Notif(3) \o Data(1)
Poor  == <<Conf("comm", FALSE), Intf(0, 0, 0, "comm")>> \o Func(2)
         \o <<Intf(1, 0, 2, "data")>> \o Notif(3) \o Notif(4) \o <<Intf(1, 1, 2, "data")>> \o Data(1)
Behind == <<Conf("comm", FALSE), Intf(0, 0, 1, "comm")>> \o Notif(3) \o Func(2) \o <<Intf(1, 0, 2, "data")>> \o Data(1)
Short  == <<Conf("vendor", FALSE), Intf(0, 0, 3, "vendor")>> \o Data(1)
Borrow == <<Conf("comm", FALSE), Intf(0, 0, 1, "comm")>> \o Func(2) \o <<Intf(1, 0, 2, "data")>> \o Data(1)
Backward == <<Conf("vendor", FALSE), Intf(0, 0, 3, "vendor"), Ep(3, "out", "intr", 1)>> \o Data(1)

Devices ==
    [composite |-> <<Composite, 0, 2>>, simple |-> <<Simple, 0, 4>>, vendor |-> <<Vendor, 0, 1>>,
     mute |-> <<Mute, 0, 1>>, twice |-> <<Composite, 0, 0>>, three |-> <<Three, 0, 4>>,
     poor |-> <<Poor, 0, 4>>, behind |-> <<Behind, 0, 4>>, short |-> <<Short, 0, 4>>,
     borrow |-> <<Borrow, 0, 4>>, backward |-> <<Backward, 0, 4>>]
Misread == {"three", "poor", "behind", "short", "borrow", "backward"}

DeviceReading(kind) == LET d == Devices[kind] IN [i \in Pair |-> ReadCdc(d[1], d[i + 1])]

DeviceKinds(e) ==
    IF "kinds" \in e THEN {"simple", "vendor", "mute"}
    ELSE IF e \cap (Misread \cup {"twice"}) = {} THEN {"composite"} ELSE e \cap (Misread \cup {"twice"})

-----------------------------------------------------------------------------
(* Virtual COM ports *)

VcpDrivers == <<[chip |-> "ftdi", products |-> 2], [chip |-> "cp210x", products |-> 1],
                [chip |-> "ch34x", products |-> 2]>>

Coding(rate, bits, parity, stop) == [rate |-> rate, bits |-> bits, parity |-> parity, stop |-> stop]

\* Rates and formats that every chip can make, and those that one of them makes wrong: a
\* rate below 184 or between 1.5 and 2 million, one that no divisor comes near, a format that is
\* refused after the rate was set, a parity that is taken for another.
LineCodings(e) ==
    IF "slow" \in e THEN {Coding(110, 0, 0, 0)} ELSE IF "byte" \in e THEN {Coding(45, 0, 0, 0)}
    ELSE IF "between" \in e THEN {Coding(1600000, 0, 0, 0)}
    ELSE IF "fast" \in e THEN {Coding(4000000, 0, 0, 0)}
    ELSE IF "refused" \in e THEN {Coding(9600, 8, 0, 1)} ELSE IF "space" \in e THEN {Coding(0, 8, 4, 0)}
    ELSE {Coding(rate, 0, 0, 0) : rate \in {300, 14400, 256000, 921600, 1500000}}
         \cup {Coding(57600, 5, 2, 2), Coding(0, 7, 1, 0), Coding(3000000, 8, 3, 2)}

TamePorts == {{"port"}, {"port", "error"}}
\* The application closes a port that is being opened; a break that fails half-way.
WildPorts == {{"leave"}, {"error", "break"}, {"slow"}, {"byte"}, {"between"}, {"fast"}, {"refused"}, {"space"}}

-----------------------------------------------------------------------------
\* The application closes in its callback or later; transfers fail; it waits for the
\* device; it writes, slowly too, and sends requests; the root port is suspended; it keeps
\* what it received; it turns the remote wakeup on and off; devices of several kinds.
Tame == {{"incb", "error"}, {"wait", "other"}, {"out", "slow", "error"}, {"ctl"},
         {"suspend", "error"}, {"suspend", "out"}, {"keep", "suspend"}, {"wake", "error"}, {"kinds", "ctl"}}

\* One environment for each hazard that the driver does not survive: a disconnection
\* while it opens, while it closes one of several, between two messages, while it waits
\* for another device or while the writer waits; a resumption before that; a callback
\* that closes the next pseudo-device; a request that times out; two cores; a device
\* that arrives after uninstalling began; a resumption while it closes; an interface that
\* is opened twice; an IN buffer of an odd size; a pseudo-device that is opened or closed
\* while the remote wakeup is on; devices that are misread.
Wild == {{"early"}, {"incb", "closing"}, {"loop", "incb", "other"}, {"loop", "suspend"},
         {"wait", "another", "incb"}, {"out", "incb"}, {"both", "incb"}, {"ctl", "slow"},
         {"race"}, {"unin"}, {"suspend", "closing"}, {"twice"}, {"odd"}, {"wake", "late"}}
        \cup {{kind} : kind \in Misread}
-----------------------------------------------------------------------------
\* What the theorems of Vcp_proof assume holds of this instance.
ASSUME TheoremsApply == Tamed /\ CodingsAreMade /\ PortsAreCalm
=============================================================================
