------------------------------ MODULE UsbHostMC ------------------------------
\* Environments of the host library's clients.
EXTENDS UsbHost
CONSTANTS c1, c2, d1, d2

TwoClients == [clients |-> <<c1, c2>>, devices |-> {d1}, notify |-> {c2},
               fixed |-> {}, uses |-> {}]
Returning  == [TwoClients EXCEPT !.fixed = {d1}, !.uses = {"return", "twice"}]
TwoDevices == [clients |-> <<c1>>, devices |-> {d1, d2}, notify |-> {},
               fixed |-> {d2}, uses |-> {}]

Benign == {TwoClients, Returning, TwoDevices}
Racing == {[TwoClients EXCEPT !.uses = {"races"}]}
===============================================================================
