------------------------------- MODULE MCSse -------------------------------
(***************************************************************************)
(* Replies over one letter and the line break; the token is "[a]".         *)
(***************************************************************************)
EXTENDS SseRelay

OneLetter == {"a"}
OneOther  == {"\n"}
OneToken  == {<<"[", "a", "]">>}
ValueOf(token) == "value"

OneStream == {"content"}

OwnChannel(s) == s

=============================================================================
