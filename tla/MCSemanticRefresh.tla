------------------------- MODULE MCSemanticRefresh --------------------------
(* Two files: app depends on lib, and is in reach of the namespace of lib. *)
EXTENDS SemanticRefresh

CONSTANTS lib, app, good, bad, t1

MCAffects == [p \in Paths |-> IF p = lib THEN {lib, app} ELSE {app}]
MCObservers == [p \in Paths |-> IF p = lib THEN {app} ELSE {}]

(* One text is accepted everywhere; the other has conformances that lib is *)
(* refused, and does not parse as app.                                     *)
MCOutcome == [f \in Paths \X Texts |->
                 IF f[2] = good THEN "clean"
                 ELSE IF f[1] = lib THEN "refused" ELSE "unparsed"]

(* An editor works on both texts of lib; app only comes from disk or fails. *)
MCDrafts == {<<lib, good>>, <<lib, bad>>, <<app, bad>>}

(* The threads are alike: while all are idle the next call is made by t1.  *)
MCFirst ==
    (\A t \in Threads : job[t] = Idle) =>
        \A t \in Threads \ {t1} : job'[t] = Idle

(* A call that has only been announced, and a step that touches nothing    *)
(* but its own job, commute with the other thread: they are not parted     *)
(* from the step before or after them.                                     *)
MCLocal ==
    LET eager == {t \in Threads :
                     \/ job[t].step = "load"
                     \/ job[t].step = "install" /\ ~ job[t].claimed
                     \/ job[t].step = "parse" /\ job[t].claimed}
    IN  eager # {} => \E t \in eager : job'[t] # job[t]

(* The project starts with a file of its own for lib and none for app. *)
MCOnDisk == disk = [p \in Paths |-> IF p = lib THEN good ELSE NoText]

=============================================================================
