--------------------------- MODULE MCProcessFilter ---------------------------
(* Two processes, a server whose name is filtered and another program, and   *)
(* configurations with and without names, pids and a tracker.                *)
EXTENDS ProcessFilter

MCBaseOf == [n \in {"/bin/srv", "/bin/cat", "srv", "cat", "nonutf8", "", Junk} |->
                CASE n = "/bin/srv" -> "srv" [] n = "/bin/cat" -> "cat" [] OTHER -> n]
MCCommOf == [n \in {"/bin/srv", "/bin/cat"} |-> IF n = "/bin/srv" THEN "srv" ELSE "cat"]

Mod(on, names, pids) == [on |-> on, names |-> names, pids |-> pids]
Conf(tr, global, a, b) ==
    [tracker |-> tr, global |-> global, mods |-> [cpuutil |-> a, nettrack |-> b]]

CONSTANTS p1, p2, t1
\* Names for both modules, for all by the global filter; a map that a pid filter
\* has filled; no tracker; more pids than a map holds.
MCConfigs ==
    {Conf(TRUE, {}, Mod(TRUE, {"srv"}, {}), Mod(TRUE, {"/bin/srv"}, {})),
     Conf(TRUE, {}, Mod(TRUE, {"srv"}, {p2}), Mod(TRUE, {"srv"}, {})),
     Conf(TRUE, {"srv"}, Mod(TRUE, {}, {}), Mod(TRUE, {"cat"}, {})),
     Conf(FALSE, {"srv"}, Mod(FALSE, {}, {}), Mod(TRUE, {}, {})),
     Conf(FALSE, {}, Mod(TRUE, {}, {p1, p2}), Mod(TRUE, {}, {})),
     Conf(FALSE, {}, Mod(TRUE, {}, {p1}), Mod(FALSE, {}, {}))}
\* One named program, no pids.
MCStaleConfigs == {Conf(TRUE, {"srv"}, Mod(TRUE, {}, {}), Mod(FALSE, {}, {}))}
=============================================================================
