----------------------------- MODULE MCConnPool -----------------------------
(* Model values for ConnPool. *)
EXTENDS ConnPool

CONSTANTS f1, f2, f3, k1, k2, c1, c2, c3

MCFetchers == {f1, f2, f3}
MCClosers == {k1, k2}
MCOneCloser == {k1}
MCConns == {c1, c2, c3}
MCConnsTwo == {c1, c2}
=============================================================================
