-------------------------------- MODULE MscMC --------------------------------
EXTENDS Msc

Tasks == {"app", "client", "other"}

Tame == {{"stall", "fifo"}, {"error", "mount"}, {"failed", "key"}, {"slow", "fifo"}, {"suspend", "race"},
         {"incb", "mount"}}

Wild == {{"two", "race"}, {"stall", "stuck"}, {"stale"}, {"incb", "busy"}, {"incb", "race"}, {"incall"}, {"order", "mount"},
         {"nomem"}, {"mute", "stall"}, {"stall", "norecover"}, {"hurry"}}
=============================================================================
