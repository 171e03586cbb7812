--------------------------- MODULE MCProvisioning ---------------------------
EXTENDS Provisioning

\* A handset of the first firmware, with one network.
OldRecord == [DefaultRecord EXCEPT !.creds = <<<<"home", "pw">>>>, !.locos = <<3>>]

\* One that was set up.
KnownRecord ==
    [OldRecord EXCEPT !.id = 1, !.host = "longfred", !.login = "fred",
                      !.network = "static", !.roster = <<<<3, "a">>, <<7, "b">>>>]

ThreeStarts == {<<>>, EncodeV1(OldRecord), Encode(KnownRecord)}

SomeAsks ==
    {<<"password", <<"club", "pw">>>>, <<"language", "Pl">>}

SomePuts ==
    {[EmptyPut EXCEPT !.hostname = "", !.mode = "Static", !.pin = "1234"],
     [EmptyPut EXCEPT !.ssid = "club", !.password = "pw",
                      !.roster = <<<<9, "c">>, <<4, "d">>>>],
     [EmptyPut EXCEPT !.roster = <<<<9, "c">>, <<4, "d">>, <<5, "long">>>>]}
=============================================================================
