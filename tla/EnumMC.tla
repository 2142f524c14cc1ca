-------------------------------- MODULE EnumMC --------------------------------
\* Environments of the enumeration driver.  Direct: one device at a time, on
\* the root port.  Behind: several, behind a hub, none failing.
EXTENDS Enum

Direct == [hub |-> FALSE, uses |-> {"unplug", "fail", "filter", "clients"}]
Behind == [hub |-> TRUE, uses |-> {"unplug", "filter"}]

Benign  == {Direct, Behind}
Sparse  == {[hub |-> FALSE, uses |-> {"sparse"}]}
Racing  == {[hub |-> FALSE, uses |-> {"unplug", "races"}]}
\* Clients hold devices that a hub has lost.
Keeping == {[hub |-> TRUE, uses |-> {"unplug", "clients"}]}
===============================================================================
