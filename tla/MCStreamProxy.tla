----------------------------- MODULE MCStreamProxy -----------------------------
(* Instances of StreamProxy for TLC.                                        *)
EXTENDS StreamProxy

Line(t) == t \o CRLF
Request == Line(<<"text">>)
Field == Line(<<"host">>)

(* One Host field and a body; two; none; one in the middle of a line; a     *)
(* head that leaves room for one byte behind it and one that is too long;   *)
(* an unfinished head.                                                      *)
SomeStreams ==
    {Request \o Field \o CRLF \o <<"text">>,
     Request \o Field \o Field \o CRLF \o <<"host">>,
     Request \o Line(<<"text">>) \o CRLF,
     Request \o Line(<<"text", "host">>) \o Field \o CRLF \o <<"text">>,
     Request \o Field \o Line(<<"text", "text", "text">>) \o CRLF,
     Request \o Field \o <<"cr">>}
================================================================================
