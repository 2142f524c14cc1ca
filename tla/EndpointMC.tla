----------------------------- MODULE EndpointMC ------------------------------
\* Environments of a claimed interface, and of a pipe.
EXTENDS Hcd
CONSTANTS e1, e2, u1, u2, u3

Client == [eps |-> {e1}, urbs |-> {u1, u2}, uses |-> {}, pipes |-> {}, index |-> {}, mps |-> {},
           xfers |-> {}, ids |-> {}]

OneEndpoint == [Client EXCEPT !.urbs = {u1, u2, u3}, !.uses = {"errors", "commands", "unplug"}]
TwoEndpoints == [Client EXCEPT !.eps = {e1, e2}, !.uses = {"unplug"}]
BehindHub == [Client EXCEPT !.uses = {"commands", "unplug", "hub"}]
Suspended == [Client EXCEPT !.uses = {"suspend", "unplug"}]
Crossing == [Client EXCEPT !.uses = {"suspend", "crossing"}]

Racing == {[Client EXCEPT !.uses = {"errors", "commands", "races"}]}
\* An endpoint fails, or its device behind a hub goes, while the root port is resumed.
Resuming == {[Client EXCEPT !.uses = {"errors", "suspend"}],
             [Client EXCEPT !.uses = {"suspend", "unplug", "hub"}]}

Pipe(type, in, bInterval, speed) ==
    [type |-> type, in |-> in, mps |-> 2, bInterval |-> bInterval, speed |-> speed, port |-> "full"]
Pipes(ids, pipes, xfers, uses) ==
    [Client EXCEPT !.eps = {}, !.urbs = {}, !.ids = ids, !.pipes = pipes, !.index = {1},
                   !.mps = {2, 4}, !.xfers = xfers, !.uses = {"buffers"} \cup uses]
Two == {"a", "b"}
Bytes(n) == [NoTransfer EXCEPT !.bytes = n]
Control(w, in, n) == [NoTransfer EXCEPT !.bytes = n, !.w = w, !.in = in]
Zero(n) == [NoTransfer EXCEPT !.bytes = n, !.zlp = TRUE]
Stream(pkts, n) == [NoTransfer EXCEPT !.bytes = n, !.pkts = pkts]

Controls == Pipes(Two, {Pipe("ctrl", FALSE, 0, "low")},
                  {Control(0, FALSE, 8), Control(1, TRUE, 10), Control(1, FALSE, 9)},
                  {"errors"})
Bulks == Pipes(Two, {Pipe("bulk", in, 0, "full") : in \in BOOLEAN} \cup {Pipe("bulk", TRUE, 0, "low")},
               {Bytes(4), Bytes(3), Zero(4)}, {"errors", "unplug"})
Queued == Pipes(Xfer, {Pipe("bulk", FALSE, 0, "full")}, {Bytes(2)}, {"errors", "suspend"})
Interrupts == Pipes(Two, {Pipe("intr", in, 1, "full") : in \in BOOLEAN},
                    {Bytes(2), Bytes(5), Zero(4)}, {"errors"})
Streams == {Pipes(Two, {Pipe("isoc", TRUE, i, "full") : i \in 0..1}, {Stream(<<2, 2>>, 4)}, {}),
            Pipes({"a"}, {Pipe("isoc", FALSE, 2, "full")}, {Stream(<<2, 2>>, 4)}, {"errors"})}
Aborted == Pipes({"a"}, {Pipe("bulk", TRUE, 0, "full")}, {Bytes(2)}, {"abort", "suspend"})

Tame == {OneEndpoint, TwoEndpoints, BehindHub, Suspended, Crossing, Controls, Bulks, Queued, Interrupts,
         Aborted} \cup Streams
Wild ==
    {Pipes({"a"}, {[Pipe("intr", TRUE, 1, "full") EXCEPT !.mps = 4]}, {Bytes(8)}, {"short"}),
     Pipes({"a"}, {Pipe("intr", TRUE, 1, "full")}, {Bytes(0)}, {}),
     Pipes({"a"}, {Pipe("intr", FALSE, 1, "full")}, {Zero(6)}, {}),
     Pipes({"a"}, {Pipe("isoc", TRUE, 2, "full")}, {Stream(<<2, 2, 2, 2>>, 8)}, {}),
     Pipes({"a"}, {Pipe("bulk", TRUE, 0, "full")}, {Bytes(4)}, {"errors", "late"})}
=============================================================================
