------------------------------- MODULE HidMC -------------------------------
EXTENDS Hid

\* The application closes an interface in its callback or later; reports fail; the
\* root port is suspended; class requests are made.
Tame == {{}, {"later"}, {"error"}, {"suspend"}, {"ask"}}

\* One environment for each hazard that the driver does not survive: the tasks run
\* concurrently; a request times out; a request is made for an interface whose
\* device is gone; a suspension finds an interface that waits to be closed; a device
\* leaves before it was opened; there is no memory for a transfer.
Wild == {{"race"}, {"ask", "timeout"}, {"ask", "later", "stale"}, {"later", "suspend"},
         {"fast"}, {"nomem"}}
=============================================================================
