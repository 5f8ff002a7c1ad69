--------------------------- MODULE MCParserCache ---------------------------
(***************************************************************************)
(* Two files.  The first always extends and then asks more of the second;  *)
(* the second, with one of its texts, asks the same of the first, so that  *)
(* the files are cyclic or not as they are edited.  The other text of the  *)
(* second fails in its interface.                                          *)
(***************************************************************************)
EXTENDS ParserCache

CONSTANTS t1, t2, a, b, plain, cyclic

MCImports ==
    [x \in {a, b} \X {plain, cyclic} |->
        IF x[1] = a THEN {b} ELSE IF x[2] = cyclic THEN {a} ELSE {}]

MCRequests ==
    [x \in {a, b} \X {plain, cyclic} \X Phases |->
        IF x[3] = FULLY_SOLVED THEN {}
        ELSE {[path |-> q, level |-> x[3]] : q \in MCImports[x[1], x[2]]}]

MCFails == {<<b, plain, INTERFACE_SOLVED>>}

=============================================================================
