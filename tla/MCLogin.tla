------------------------------ MODULE MCLogin ------------------------------
(***************************************************************************)
(* Model-checking instance of Login: a gate server and two logic servers,   *)
(* each of which is the home of a user.                                     *)
(***************************************************************************)
EXTENDS Login

\* The attributes of an element of ServerList.xml; every server has its address.
Element(id, type, index, connect) ==
    <<<<"Id", id>>, <<"ServerType", <<type>>>>, <<"ServerName", <<>>>>,
      <<"ServerIndex", <<index>>>>, <<"ServerIp", <<1, Blank, 9, 9, 9, type>>>>,
      <<"ConnectList", connect>>>>
TheElements == <<Element(<<1, 1>>, 1, 1, <<2>>), Element(<<2, 1>>, 2, 1, <<>>),
                 Element(<<2, 2>>, 2, 2, <<>>), Element(<<3, 1>>, 3, 1, <<2>>)>>
TheOrder == <<31, 11, 22, 21>>
TheCrc == ("u1" :> 5) @@ ("u2" :> 8)
TheUsers == {"u1", "u2"}
ClientSymmetry == Permutations(Clients)
=============================================================================
