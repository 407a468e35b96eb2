------------------------------ MODULE MCShell -------------------------------
(* Two letters and the blank, a buffer of four cells, one command of each kind. *)
EXTENDS Shell

MCChars == {" ", "a", "b"}

Cmd(t, k) == [text |-> t, kind |-> k]

\* "b" also starts a longer word that comes first, as a prefix test allows.
MCWords == <<Cmd(<<"a", "a">>, "simple"), Cmd(<<"b", "a">>, "gui"),
             Cmd(<<"a", " ">>, "program"), Cmd(<<"a", "b">>, "reboot"),
             Cmd(<<"b">>, "shutdown")>>
=============================================================================
