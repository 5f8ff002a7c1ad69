----------------------- MODULE MCConformanceRegistry ------------------------
(* Two files whose declarations contradict each other in every way: over   *)
(* an engine class, its base class, and a script class that inherits both. *)
EXTENDS ConformanceRegistry

CONSTANTS f1, f2, node, object, script, T, U, show, int, str

MCOnChain ==
    LET pairs == {<<node, object>>, <<script, node>>, <<script, object>>}
    IN  pairs \cup {<<p[2], p[1]>> : p \in pairs}

Declare(target, traits, arguments, witnesses) ==
    [target |-> target, traits |-> traits, arguments |-> arguments,
     witnesses |-> witnesses]

Version(declarations, bindings, loads) ==
    [declarations |-> declarations, bindings |-> bindings, loads |-> loads]

Binds(arguments) == [target |-> script, trait |-> T, arguments |-> arguments]

MCVersions ==
    [f \in Files |->
        IF f = f1
        THEN {Version(<<Declare(node, {T, U}, int, {show}),
                        Declare(script, {T}, int, {})>>, {}, {f2}),
              Version(<<Declare(node, {U}, NoArguments, {})>>, {Binds(int)}, {f2}),
              Version(<<>>, {Binds(int)}, {f2}),
              Version(<<>>, {}, {})}
        ELSE {Version(<<Declare(node, {T}, int, {}),
                        Declare(node, {U}, NoArguments, {show})>>, {}, {}),
              Version(<<Declare(object, {T}, str, {show})>>, {}, {}),
              Version(<<Declare(node, {T}, str, {})>>, {}, {f1}),
              Version(<<>>, {Binds(str)}, {})}]

=============================================================================
