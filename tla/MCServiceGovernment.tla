------------------------ MODULE MCServiceGovernment ------------------------
(***************************************************************************)
(* Model-checking instance of ServiceGovernment: the gate server's view of  *)
(* a logic server, in a file that has one server twice and one Id twice.      *)
(* MCBothConnect.cfg lets the logic server connect to the gate as well, as  *)
(* the connect list of its own file may say.                                *)
(***************************************************************************)
EXTENDS ServiceGovernment

\* The attributes of an element of ServerList.xml; every server has its address.
Element(id, type, index, connect) ==
    <<<<"Id", id>>, <<"ServerType", <<type>>>>, <<"ServerName", <<>>>>,
      <<"ServerIndex", <<index>>>>, <<"ServerIp", <<1, Blank, 9, 9, 9, type>>>>,
      <<"ConnectList", connect>>>>
\* The gate's list names its own type as well and ends with a separator.
TheElements == <<Element(<<1, 1>>, 1, 1, <<2, Colon, 1, Colon>>),
                 Element(<<2, 1>>, 2, 2, <<>>),
                 Element(<<3, 1>>, 3, 1, <<2>>),
                 Element(<<2, 1>>, 2, 1, <<>>),
                 Element(<<2, 2>>, 2, 1, <<1>>)>>
TheOrder == <<22, 31, 11, 21>>
TheCrc == ("u1" :> 5) @@ ("u2" :> 8)
Gate == Server(1, 1)
TheKnownTo == {Server(2, 1)}
=============================================================================
