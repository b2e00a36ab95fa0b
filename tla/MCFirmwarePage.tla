---------------------------- MODULE MCFirmwarePage ----------------------------
(* Instances of FirmwarePage for TLC: two releases, so that a release can   *)
(* be superseded by another, and four conditions of the device.             *)
EXTENDS FirmwarePage

CONSTANTS r1, r2

MCRelease == {r1, r2}

Unplugged == [present |-> FALSE, offered |-> {}, reboot |-> FALSE]
OffersOld == [present |-> TRUE, offered |-> {r1}, reboot |-> FALSE]
OffersNew == [present |-> TRUE, offered |-> {r2}, reboot |-> FALSE]
Flashed == [present |-> TRUE, offered |-> {}, reboot |-> TRUE]

MCConditions == {Unplugged, OffersOld, OffersNew, Flashed}

\* Fewer, for the larger runs: a device that comes, offers a release and is flashed.
MCFewConditions == {Unplugged, OffersOld, Flashed}
=============================================================================
