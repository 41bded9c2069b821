------------------------------- MODULE MCListing -------------------------------
(* A small instance of Listing for TLC: page sizes 1 and 2 out of every kind of limit *)
(* parameter, keys with equal and with different times. *)
EXTENDS Listing

Keys == {<<1, 1>>, <<1, 2>>, <<2, 1>>}

RawLimits == {Nil, -1, 1, 9}
=============================================================================
