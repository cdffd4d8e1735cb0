---------------------------- MODULE MCFileTable ----------------------------
(***************************************************************************)
(* Volumes and requests for checking FileTable: a file "a" in the root     *)
(* directory and another "a" in its subdirectory "d".                      *)
(***************************************************************************)
EXTENDS FileTable

MCNodes == {"root", "hello", "sub", "inner"}
MCDirs == {"root", "sub"}
MCLinks == {<<"root", "a", "hello">>, <<"root", "d", "sub">>, <<"sub", "a", "inner">>}
MCSizes == [x \in MCNodes |-> CASE x = "hello" -> 3 [] x = "inner" -> 5 [] OTHER -> 0]

Path(parts, mode) == [valid |-> TRUE, drive |-> 0, parts |-> parts, mode |-> mode]

\* Every way through fopen, but a missing part in the middle.
AllRequests ==
  { Path(<<"a">>, "r"), Path(<<"d">>, "r"), Path(<<"d", "a">>, "r"),
    Path(<<"a", "a">>, "r"), Path(<<"b">>, "r"), Path(<<"b", "a">>, "r"), Path(<<>>, "r"),
    Path(<<"a">>, "invalid"),
    [valid |-> TRUE, drive |-> 1, parts |-> <<"a">>, mode |-> "r"],
    [valid |-> FALSE, drive |-> 0, parts |-> <<>>, mode |-> "r"] }

ASSUME RequestsAreReads == Requests = AllRequests => OnlyReads /\ MiddlePartsExist

\* Requests that end badly when memory, the disk or a directory fails them.
ErrorRequests ==
  { Path(<<"a">>, "r"), Path(<<"d">>, "r"), Path(<<"d", "b", "a">>, "r"),
    Path(<<"a">>, "w") }

=============================================================================
