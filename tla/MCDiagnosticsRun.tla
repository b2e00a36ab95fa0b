--------------------------- MODULE MCDiagnosticsRun ---------------------------
(* Machines for the runs of DiagnosticsRun.  Each source meets every list  *)
(* of up to two elements from both sides of each threshold on one of them, *)
(* and every verdict on the other.                                         *)
EXTENDS DiagnosticsRun

Lists(items) == BoundedSeq(items, 2)

\* Wear 14 %, 15 %, 29 %, 30 %, none, and unreadable in two ways.
ManyBatteries ==
    Lists({[full |-> 86, design |-> 100], [full |-> 85, design |-> 100],
           [full |-> 71, design |-> 100], [full |-> 14, design |-> 20],
           [full |-> 110, design |-> 100],
           [full |-> Unknown, design |-> 100], [full |-> 50, design |-> Unknown]})
FewBatteries == {<<[full |-> f, design |-> 100]>> : f \in {100, 80, 50}}

OneBattery == {<<[full |-> 80, design |-> 100]>>}

ManyTemps == Lists({Unknown, 1, 2, 84, 85, 94, 95, 118, 119})
FewTemps == {<<40>>, <<90>>, <<99>>}

OneTemp == {<<99>>}

AllHealth == [verdict : Verdict, pending : {Unknown, 0, 1}, used : {Unknown, 79, 80}]
FewHealth == [verdict : {"healthy", "failing"}, pending : {0, 1}, used : {Unknown}]

\* The lines of one device: mounted, not at all, twice, or twice with a
\* first mount point that does not answer.
Line(source, mount, f, t) ==
    [source |-> source, mount |-> mount, free |-> f, total |-> t]
Mounted(source, mount, f, t) ==
    {<<>>, <<Line(source, mount, f, t)>>,
     <<Line(source, mount, f, t), Line(source, "/bind", f, t)>>,
     <<Line(source, mount, Unknown, t), Line(source, "/bind", f, t)>>}

\* Free space on both sides of 5 % and 10 %, in both orders, and nothing to
\* measure.
ManyMounts ==
    LET root == UNION {Mounted("/dev/sda1", "/", f, 100) : f \in {4, 5, 9, 10}}
        home == UNION {Mounted("/dev/sda2", "/home", 1, t) : t \in {20, 21}}
                  \cup Mounted("/dev/sda2", "/home", 0, 0)
                  \cup {<<Line(Pseudo, "/run", 0, 100)>>}
    IN {a \o b : a \in root, b \in home} \cup {b \o a : a \in root, b \in home}
FewMounts == {<<Line("/dev/sda1", "/", f, 100)>> : f \in {50, 7, 1}}

Fw(updatable, releases) == [updatable |-> updatable, releases |-> releases]
FewFirmware ==
    {<<>>, <<Fw(TRUE, <<"high">>)>>, <<Fw(TRUE, <<"low">>), Fw(TRUE, <<"critical">>)>>,
     <<Fw(FALSE, <<"critical">>), Fw(TRUE, <<>>)>>}

\* Batteries and temperatures around their thresholds, no disk to read.
Laptop ==
    [batteries |-> ManyBatteries, drives |-> 0, health |-> FewHealth,
     firmware |-> FewFirmware, temps |-> ManyTemps, mounts |-> FewMounts]

\* Two drives around theirs.
Workstation ==
    [batteries |-> OneBattery, drives |-> 2, health |-> AllHealth,
     firmware |-> FewFirmware, temps |-> OneTemp, mounts |-> FewMounts]

\* Two devices and their mount points.
Server ==
    [batteries |-> FewBatteries, drives |-> 0, health |-> FewHealth,
     firmware |-> FewFirmware, temps |-> FewTemps, mounts |-> ManyMounts]

TwoDrives ==
    [batteries |-> OneBattery, drives |-> 2, health |-> FewHealth,
     firmware |-> {<<>>}, temps |-> OneTemp, mounts |-> FewMounts]

AllMachines == <<Laptop, Workstation, Server>>
OneMachine == <<TwoDrives>>
=============================================================================
