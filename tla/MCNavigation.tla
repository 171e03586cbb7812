--------------------------- MODULE MCNavigation ---------------------------
(* Navigation on both boards: a compiled and a scanned network, one server. *)
EXTENDS Navigation

OneNetwork == <<"s1">>

\* Screens an operator gets to before the first key of a run: the throttle
\* after a connection, the wizard, before and after a join that failed, and the
\* menus below the throttle.
MenuStarts ==
    {<<"Throttle", <<>>, "">>, <<"Language", <<>>, "">>,
     <<"SsidScan", <<>>, "s1">>, <<"Connecting", <<>>, "s1">>, <<"WifiFailed", <<>>, "s1">>,
     <<"IpEdit", <<"ServerMenu", "WifiSettings", "Choice">>, "">>,
     <<"Extras", <<"Throttle", "Menu">>, "">>, <<"ServerMenu", <<"Throttle", "Menu">>, "">>}

EveryKey == {"left", "right", "ok", "back", "menu", "cw", "push", "stop", "estop", "fn",
             "digit", "star", "speed", "program"}
============================================================================
