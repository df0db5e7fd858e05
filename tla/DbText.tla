------------------------------- MODULE DbText -------------------------------
(***************************************************************************)
(* The fields of a message as text: what both stores make keys, arguments   *)
(* and columns of.                                                          *)
(*                                                                         *)
(* A text is empty or the text of one value. Numbers are written in         *)
(* decimal, so in a field of the same type the text of a value is read back *)
(* as that value, and the empty text, which is also that of NULL, as the    *)
(* default of the type. (Repeated fields, of which client_cache has one,    *)
(* are written as the whole message around them; they are left out.)        *)
(***************************************************************************)
EXTENDS Sequences

CONSTANT Default        \* 0 or the empty string; the message without any field

DBProtoMessageToString(v) == <<v>>
DBStringToProtoMessage(s) == IF s = <<>> THEN Default ELSE Head(s)
=============================================================================
