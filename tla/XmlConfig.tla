------------------------------ MODULE XmlConfig ------------------------------
(***************************************************************************)
(* How the server list is read: elements of an XML file with attributes,    *)
(* attributes with texts, texts with numbers, lists and addresses in them.  *)
(*                                                                         *)
(* A text is a sequence of characters, each given by its distance from '0':  *)
(* the digits are 0..9, the colon is the next character and the blank is    *)
(* sixteen before.                                                          *)
(***************************************************************************)
EXTENDS Integers, Sequences, FiniteSets, SequencesExt

CONSTANTS Elements,       \* the elements of the file: sequences of attributes
          IterationOrder  \* the Ids in the order in which the unordered_map
                          \* is gone through

Colon == 10
Blank == -16

\* The pieces between the separators, empty ones too; an empty text has none.
SplitString(data, split) ==
    LET cuts == SelectSeq([i \in 1..Len(data) |-> i], LAMBDA i : data[i] = split)
        start(k) == IF k = 1 THEN 1 ELSE cuts[k - 1] + 1
        end(k) == IF k > Len(cuts) THEN Len(data) ELSE cuts[k] - 1
    IN  IF data = <<>> THEN <<>>
        ELSE [k \in 1..(Len(cuts) + 1) |-> SubSeq(data, start(k), end(k))]

\* atoi: the number the digits at the front make up, 0 if there are none.
ConfigValueToInt(data) ==
    LET other == SelectInSeq(data, LAMBDA c : c \notin 0..9)
        digits == IF other = 0 THEN data ELSE SubSeq(data, 1, other - 1)
    IN  FoldLeft(LAMBDA n, c : 10 * n + c, 0, digits)

ConfigValueToVecInt32(data) ==
    LET pieces == SplitString(data, Colon)
    IN  [k \in 1..Len(pieces) |-> ConfigValueToInt(pieces[k])]

(***************************************************************************)
(* An attribute is a name and a text. ServerName, PublicIp, HttpIp and the  *)
(* numbers of threads are read like the others and play no part here; other *)
(* names are skipped. A list is appended to what is there already.          *)
(***************************************************************************)
NewRow == [nId |-> 0, nServerType |-> 0, nServerIndex |-> 0,
           strServerIp |-> <<>>, vecConnectList |-> <<>>]

LoadXmlElement(row, attribute) ==
    LET name == attribute[1]
        text == attribute[2]
        number == [Id |-> "nId", ServerType |-> "nServerType", ServerIndex |-> "nServerIndex"]
    IN  CASE name \in DOMAIN number -> [row EXCEPT ![number[name]] = ConfigValueToInt(text)]
          [] name = "ServerIp" -> [row EXCEPT !.strServerIp = text]
          [] name = "ConnectList" ->
                [row EXCEPT !.vecConnectList = @ \o ConfigValueToVecInt32(text)]
          [] OTHER -> row

\* The map from Ids to rows: a later element replaces one with the same Id.
LoadXmlFile ==
    LET rows == [i \in 1..Len(Elements) |-> FoldLeft(LoadXmlElement, NewRow, Elements[i])]
        ids == {rows[i].nId : i \in 1..Len(rows)}
    IN  [id \in ids |-> rows[SelectLastInSeq(rows, LAMBDA r : r.nId = id)]]

\* The ip and the port of an address; without a blank both stay as they were.
AddressToIpPort(address) ==
    LET posSpace == SelectInSeq(address, LAMBDA c : c = Blank)
    IN  IF posSpace = 0 THEN [ip |-> <<>>, port |-> 0]
        ELSE [ip |-> SubSeq(address, 1, posSpace - 1),
              port |-> ConfigValueToInt(SubSeq(address, posSpace + 1, Len(address)))]

\* ServerListConfigDataMap, in the order of its iterators.
Config == [i \in 1..Len(IterationOrder) |-> LoadXmlFile[IterationOrder[i]]]

ASSUME OrderAssumption ==
    /\ Len(IterationOrder) = Cardinality(DOMAIN LoadXmlFile)
    /\ ToSet(IterationOrder) = DOMAIN LoadXmlFile
=============================================================================
