----------------------------- MODULE MCStartup -----------------------------
(* Startup with two networks: one takes the password, the other refuses it. *)
EXTENDS Startup

TwoNetworks == {<<"home", "">>, <<"home", "pw">>, <<"away", "">>}
OneTakes == {<<"home", "pw">>}

\* A handset out of the box with a weak battery, one that knows its network and
\* server, one on a charger whose network has moved, and one without a panel.
Handset(lang, server, creds, oled, usb, weak, n) ==
    [lang |-> lang, server |-> server, creds |-> creds, oled |-> oled, usb |-> usb,
     weak |-> weak, keys |-> n]

FourHandsets ==
    {Handset(FALSE, FALSE, None, TRUE, FALSE, TRUE, 4),
     Handset(TRUE, TRUE, <<"home", "pw">>, TRUE, FALSE, FALSE, 1),
     Handset(TRUE, FALSE, <<"away", "">>, TRUE, TRUE, FALSE, 3),
     Handset(FALSE, FALSE, <<"home", "pw">>, FALSE, FALSE, FALSE, 1)}
============================================================================
