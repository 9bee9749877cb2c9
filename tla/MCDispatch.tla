----------------------------- MODULE MCDispatch -----------------------------
(* Two calls in one turn, and a third alone in the next, which meets the   *)
(* rules the first turn left.                                              *)
EXTENDS Dispatch

MCIndex == 1 .. 3
MCSegments == {"ls", "build", "push", "rm", "mkdir"}

Bash(segs) == [tool |-> "Bash", class |-> "Mutating", segs |-> segs, danger |-> FALSE,
               paths |-> {}, gitmeta |-> FALSE]
Simple(t) == [tool |-> t, class |-> "ReadOnly", segs |-> {}, danger |-> FALSE,
              paths |-> {}, gitmeta |-> FALSE]
Edit(p, git) == [tool |-> "Edit", class |-> "Mutating", segs |-> {}, danger |-> FALSE,
                 paths |-> {p}, gitmeta |-> git]
Todo == Simple("TodoWrite")
Danger == [Bash({"ls", "build"}) EXCEPT !.danger = TRUE]

None == [s \in Scopes |-> [allow |-> {}, deny |-> {}]]
Layers == [s \in Scopes |-> [allow |-> IF s = "Global" THEN {"build", "Edit"} ELSE {},
                             deny  |-> IF s = "Project" THEN {"push", "Edit"} ELSE {}]]

Run(a, b, c, m, f, r) ==
    [calls |-> <<a, b, c>>, turn |-> <<1, 1, 2>>, mode |-> m, force |-> f, rules |-> r]

MCScripts == {
    Run(Bash({"build", "push"}), Bash({"build", "rm"}), Todo, "Default", FALSE, None),
    Run(Bash({"build"}), Bash({"ls", "build"}), Todo, "Default", FALSE, None),
    Run(Bash({"build"}), Todo, Danger, "Default", FALSE, None),
    Run(Bash({"build", "rm"}), Todo, Bash({"ls", "build"}), "Default", FALSE, Layers),
    Run(Bash({"build"}), Danger, Todo, "AutoMode", FALSE, None),
    Run(Bash({"build", "push"}), Simple("Ask"), Bash({"build"}), "AutoMode", TRUE, None),
    Run([Bash({"mkdir"}) EXCEPT !.paths = {"out"}], Todo, Edit("in", TRUE), "Default", FALSE, Layers),
    Run([Bash({"rm"}) EXCEPT !.paths = {"out"}], Bash({"rm"}), Todo, "Yolo", FALSE, None),
    Run(Simple("PlanEnter"), Edit("in", TRUE), Simple("PlanSubmit"), "AutoMode", FALSE, None) }

=============================================================================
