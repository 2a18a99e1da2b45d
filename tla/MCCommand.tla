----------------------------- MODULE MCCommand -----------------------------
(* The calls of a snapshot run, and a command alone.                         *)
EXTENDS Command

RunPasses == {<<"transfer", "release">>, <<"estimate", "release">>,
              <<"once", "release">>, <<"command">>}
=============================================================================
