------------------------------ MODULE DeviceMC ------------------------------
EXTENDS Device

Nothing == [storages |-> {}, role |-> "none", uses |-> {}]
In(storages, uses) == [Nothing EXCEPT !.storages = storages, !.uses = uses]
Socket(role, uses) == [Nothing EXCEPT !.role = role, !.uses = uses]

\* Storages: automatic mounting, mounting by the application, media that fail or are
\* blank, storages, driver and stack that come and go.
TameStorages ==
    {In({"flash", "card"}, {"life", "stack", "auto", "eject"}),
     In({"flash", "card"}, {"life", "stack", "set"}),
     In({"flash"}, {"life", "stack", "auto", "blank", "noFormat", "mountFails"}),
     In({"flash", "card"}, {"life", "stack", "driver", "stop", "auto", "bootFails", "blank"}),
     In({"flash", "card", "disk"}, {"life"})}

WildStorages ==
    {In({"flash"}, {"life", "stack", "auto", "pull"}),
     In({"flash"}, {"life", "stack", "set", "grab"}),
     In({"flash"}, {"life", "stack", "auto", "hot"}),
     In({"flash"}, {"life", "stack", "stop", "auto", "kill"}),
     In({"flash"}, {"life", "stack", "slow"}),
     In({"flash"}, {"stack", "nomem"}),
     In({"flash"}, {"life", "stack", "early"}),
     In({"flash", "card"}, {"life", "hole"}),
     In({"flash", "card"}, {"life", "stack", "twins"}),
     In({"flash"}, {"life", "mountFails", "badNew"}),
     In({"flash"}, {"life", "blank", "formatFails"}),
     In({"flash"}, {"life", "set", "mountFails", "ignored"}),
     In({"flash"}, {"stack", "auto", "nodriver"}),
     In({"flash"}, {"life", "stack", "auto", "writeFails"})}

\* Sockets of each role: partners of both kinds, on legacy cables too, sinks that
\* disturb CC, a bus that fails, ports that are destroyed and created again.
Broken == {"newFails", "serviceFails", "serviceDrops", "statusFails", "roleFails", "commitFails"}

TameSockets ==
    {Socket("drp", {"sink", "source", "bounce", "destroy", "serviceFails"}),
     Socket("drp", {"sink", "source", "legacy"} \cup Broken),
     Socket("source", {"sink", "source", "bounce", "destroy"} \cup Broken),
     Socket("sink", {"sink", "source", "legacy", "destroy"} \cup Broken)}

WildSockets ==
    {Socket("drp", {"sink", "hasty"}), Socket("sink", {"source", "hasty"}),
     Socket("sink", {"source", "quick"}), Socket("drp", {"sink", "source", "quick", "legacy"}),
     Socket("sink", {"source", "destroy", "stray"}), Socket("sink", {"source", "destroy", "cores"})}

\* Serial lines: the raw CDC-ACM functions, with callbacks that are registered once or
\* again and again; a console, with each line ending, where two tasks print.
Line(uses) == [Nothing EXCEPT !.uses = uses \cup {"serial"}]

TameLines ==
    {Line({"hooks", "deinit"}), Line({"raw", "deinit"}), Line({"rehook", "deinit"}),
     Line({"console", "print", "CRLF", "deinit"}), Line({"console", "keys", "CRLF"}),
     Line({"console", "print", "CR", "endings"}), Line({"console", "keys", "LF", "endings"})}

WildLines ==
    {Line({"hooks", "deinit", "restless"}), Line({"rehook", "restless"}),
     Line({"console", "print", "CRLF", "tight"}), Line({"console", "keys", "CRLF", "split"}),
     Line({"console", "print", "LF", "under"}), Line({"console", "LF", "noFile"}),
     Line({"console", "print", "CRLF", "raw"})}

\* Network interfaces: a sender that waits, one that gives up, and both kinds of sending.
Network(uses) == [Nothing EXCEPT !.uses = uses \cup {"net"}]

TameNetworks == {Network({}), Network({"timeout"})}
WildNetworks ==
    {Network({"both"}), Network({"timeout", "late"}), Network({"timeout", "hurry"}),
     Network({"cut"}), Network({"noHeap"})}

\* Environments in which the board promises to work, and in which something goes wrong.
Tame == TameStorages \cup TameSockets \cup TameLines \cup TameNetworks
Wild == WildStorages \cup WildSockets \cup WildLines \cup WildNetworks
=============================================================================
