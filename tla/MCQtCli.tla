------------------------------- MODULE MCQtCli -------------------------------
(* Two polls can overlap; the third opening of the socket can find an old    *)
(* connection still closing after one that was lost.                         *)
EXTENDS QtCli
=============================================================================
