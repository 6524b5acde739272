--------------------------- MODULE MCPhpCgiProxy ---------------------------
(***************************************************************************)
(* PhpCgiProxy for TLC: replies with and without headers, and with text of *)
(* STDERR in place of the blank line.                                      *)
(***************************************************************************)
EXTENDS PhpCgiProxy

SomeReplies ==
  {<<"header", "blank">>,
   <<"status", "header", "blank", "text", "blank", "header">>,
   <<"header", "header", "blank", "text">>,
   <<"header", "text", "blank", "text">>,
   <<"header", "status">>,
   <<"blank">>,
   <<"text", "text", "header">>}
=============================================================================
