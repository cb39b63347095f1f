----------------------------- MODULE MCHttpdPost -----------------------------
(* HttpdPost for TLC: the bodies that clients send.                        *)
EXTENDS HttpdPost

(* One pair; two pairs; a good pair before a bad one; a key nobody knows   *)
(* before a good pair; an empty value and a key without one; a last value  *)
(* that is empty; a key and a value that are too long; the empty body.     *)
FewBodies ==
    {<<"k", "=", "k">>,
     <<"k", "=", "k", "&", "k", "=", "k", "k">>,
     <<"k", "=", "k", "&", "k", "=", "x">>,
     <<"x", "=", "k", "&", "k", "=", "k">>,
     <<"k", "=", "&", "k">>,
     <<"k", "=", "k", "&", "k", "=">>,
     <<"k", "=", "k", "&", "k", "k", "k", "=", "k">>,
     <<"k", "=", "k", "&", "k", "=", "k", "k", "k">>,
     <<>>}

(* These, and every body of at most three bytes.                           *)
SharedBodies == FewBodies \cup UNION {[1 .. n -> Bytes] : n \in 0 .. 3}

(* The line end that some clients add, and a surplus that ends the pair    *)
(* under way and brings another one.                                       *)
LineEnds == {<<"x">>, <<"&", "k", "=", "k", "&">>}
=============================================================================
