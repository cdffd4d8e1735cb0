--------------------------- MODULE MCFatDirectory ---------------------------
(***************************************************************************)
(* Six slots: clusters of two, a root directory of three.  Either the      *)
(* first four slots are any entries, with fields of two and one characters *)
(* and the attribute behind them, or all six are END, DELETED or one of    *)
(* two files.  The chains are those of up to three clusters.               *)
(***************************************************************************)
EXTENDS FatDirectory

MCNames == {<<"a">>, <<"a", "b">>}
MCExts == {<<>>, <<"t">>}
MCAttributes == {SPC, "ro"}

AllSlots ==
  { END, DELETED,
    File(<<"a">>, <<>>, SPC), File(<<"a">>, <<"t">>, SPC), File(<<"a">>, <<"t">>, "ro"),
    File(<<"a", "b">>, <<>>, SPC), File(<<"a", "b">>, <<"t">>, SPC) }

FewSlots == {END, DELETED, File(<<"a">>, <<>>, SPC), File(<<"a", "b">>, <<>>, SPC)}

AllDisks ==
  {s \o <<END, END>> : s \in [1 .. 4 -> AllSlots]} \cup [1 .. 6 -> FewSlots]

AllChains == {<<1>>, <<1, 2>>, <<1, 3>>, <<1, 2, 3>>, <<1, 3, 2>>}

=============================================================================
