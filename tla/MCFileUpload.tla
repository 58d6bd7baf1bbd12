----------------------------- MODULE MCFileUpload -----------------------------
(* Instances of FileUpload for TLC: each world has few uploads and few rare  *)
(* events.                                                                   *)
EXTENDS FileUpload

File(loc, enc, size) == [loc |-> loc, enc |-> enc, big |-> FALSE, size |-> size, estimate |-> 0, written |-> 0]
Video(loc, enc, size, estimate, written) ==
    [File(loc, enc, size) EXCEPT !.estimate = estimate, !.written = written]
W(of, switches, restarts, events) ==
    [of |-> of, switches |-> switches, restarts |-> restarts, rare |-> events]

SmallWorlds == {
    W(<<File("a", FALSE, 90)>>, 1, 0, {"error", "written"}),
    W(<<File("a", FALSE, 130)>>, 0, 2, {}),
    W(<<File("a", FALSE, 90)>>, 1, 1, {"expired"}),
    W(<<Video("a", FALSE, 70, 50, 45)>>, 1, 1, {}),
    W(<<Video("a", TRUE, 90, 80, 45)>>, 1, 0, {"error"}),
    W(<<File("a", FALSE, 30), File("b", FALSE, 30), File("a", FALSE, 30)>>, 0, 0, {"cancel"}),
    W(<<File("a", TRUE, 30), File("a", TRUE, 70)>>, 0, 0, {"cancel", "error"})}
=============================================================================
