------------------------------ MODULE MCLedCli ------------------------------
(* The instance of LedCli that TLC checks.                                 *)
EXTENDS LedCli

MCAllLeds == <<"disk1", "disk2", "disk3">>

MCNameLists ==
    {<<>>, <<"disk1">>, <<"disk1", "disk2">>, <<"disk2", "disk1", "disk2">>,
     <<"disk1", "disk3">>, <<"all">>, <<"disk2", "all">>, <<"disk1", "unknown">>}

Mode(kind) == [kind |-> kind]
Blink(kind, on, off) == [kind |-> kind, on |-> on, off |-> off]
Set(kind, val) == [kind |-> kind, val |-> val]

Some ==
    {Mode("on"), Mode("status"), Mode("usage"), Blink("blink", 400, 600),
     Blink("breath", 65535, 65535), Set("color", 1), Set("brightness", 1)}

(* All sequences of up to two operations, and one of three.                *)
MCOpLists ==
    {<<>>} \cup {<<a>> : a \in Some} \cup {<<a, b>> : a, b \in Some}
    \cup {<<Set("color", 1), Blink("blink", 0, 65535), Mode("off")>>}
=============================================================================
