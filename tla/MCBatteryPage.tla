---------------------------- MODULE MCBatteryPage ----------------------------
(* An instance of BatteryPage for TLC: two batteries, one of which can be   *)
(* taken out or lose its capacity files.                                    *)
EXTENDS BatteryPage

CONSTANTS w1, w2

MCBattery == 1 .. 2
MCWear == {w1, w2}

In(r1, r2) == [b \in Battery |-> IF b = 1 THEN r1 ELSE r2]
MCContents == {In(w1, w2), In(Unread, w2), NoBattery}
=============================================================================
