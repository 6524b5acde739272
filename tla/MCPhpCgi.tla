------------------------------ MODULE MCPhpCgi ------------------------------
(***************************************************************************)
(* Four components of the PHP runtime that share no state, checked side by *)
(* side: the initial state chooses one of the parts, and only the          *)
(* variables of that part ever change.                                     *)
(*                                                                         *)
(*   client    a connection of the FastCGI client;                         *)
(*   records   the wire format of the FastCGI client;                      *)
(*   proxy     starting php-cgi and taking its replies apart;              *)
(*   wrapper   request and response of an HTTP function.                   *)
(***************************************************************************)
EXTENDS FastCgiClient, FastCgiRecords, PhpCgiProxy, PhpHttpWrapper

VARIABLE part

-----------------------------------------------------------------------------
\* FastCgiRecords: lengths at every border of the format.
Borders ==
  {0, 1, 127, 128, 129, 255, 256, 65526, 65527, 65528, 65535, 65536, 131054, 131055,
   16777215}

\* PhpCgiProxy: replies with and without headers, and with text of STDERR in
\* place of the blank line.
SomeReplies ==
  {<<"header", "blank">>,
   <<"status", "header", "blank", "text", "blank", "header">>,
   <<"header", "header", "blank", "text">>,
   <<"header", "text", "blank", "text">>,
   <<"header", "status">>,
   <<"blank">>,
   <<"text", "text", "header">>}

-----------------------------------------------------------------------------
partsVars == <<part, vars, recordsVars, proxyVars, wrapperVars>>

PartsInit ==
  /\ part \in {"client", "records", "proxy", "wrapper"}
  /\ Init /\ RecordsInit /\ ProxyInit /\ WrapperInit
  /\ part # "records" => total = 0 /\ nlen = 0 /\ vlen = 0
  /\ part # "wrapper" => params = "plain" /\ method = "GET"

\* A step of the FastCGI client and its other side.
Connection(step) ==
  /\ part = "client"
  /\ step
  /\ UNCHANGED <<part, recordsVars, proxyVars, wrapperVars>>

PartsNext ==
  \/ Connection(Next)
  \/ part = "records" /\ RecordsNext /\ UNCHANGED <<part, vars, proxyVars, wrapperVars>>
  \/ part = "proxy" /\ ProxyNext /\ UNCHANGED <<part, vars, recordsVars, wrapperVars>>
  \/ part = "wrapper" /\ WrapperNext /\ UNCHANGED <<part, vars, recordsVars, proxyVars>>

\* The FastCGI client goes on while it can; php-cgi need not.
PartsSpec == PartsInit /\ [][PartsNext]_partsVars /\ WF_partsVars(Connection(Client))

-----------------------------------------------------------------------------
\* Nobody waits for ever, also if php-cgi stalls, dies or goes on writing, unless
\* it is inside a packet for ever (wait_for_response, client.php).
WaitEnds ==
  \A id \in Ids : []<>(waiting # id) \/ <>[](backend \in {"inside", "stalled"})
=============================================================================
