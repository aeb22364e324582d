---------------------------- MODULE MCSupervisor ----------------------------
(***************************************************************************)
(* Instances of the supervisor for TLC: the bridge and an HTTP service,    *)
(* with command lines of up to two options and one controller, whole or    *)
(* short of a word; values that look like options or like help, a flag, an *)
(* option that does not exist.                                             *)
(***************************************************************************)
EXTENDS Supervisor

Given(program) ==
    {<<>>, <<<<"single", <<"1">>>>>>, <<<<"p", <<"-", "p">>>>>>, <<<<"z", <<"x">>>>>>,
     <<<<"p", <<"-", "h", "x">>>>>>, <<<<"p", <<"x">>>>, <<"single", <<"1">>>>>>,
     <<<<"p", <<"x">>>>, <<"p", <<"y">>>>>>, <<<<"p", <<>>>>>>}

MCAsks ==
    {ask \in UNION {[program : {p}, given : Given(p), list : {<<>>, <<<<"x">>, <<"-", "p">>>>},
                     whole : BOOLEAN] : p \in {"rs485-tcp", "history"}} :
        ask.whole \/ ask.given # <<>> \/ ask.list # <<>>}
    \union [program : {"controller_read", "webserver"}, given : {<<<<"p", <<"x">>>>>>},
            list : {<<>>}, whole : {TRUE}]
=============================================================================
