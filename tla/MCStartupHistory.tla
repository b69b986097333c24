---------------------------- MODULE MCStartupHistory ----------------------------
EXTENDS StartupHistory

\* Hosts whose /proc tells everything, only the boot_id, or only the uptime.
MCHosts == {{"boot_id", "uptime"}, {"boot_id"}, {"uptime"}}
===============================================================================
