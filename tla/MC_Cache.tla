------------------------------ MODULE MC_Cache ------------------------------
(* Instances of the cache for TLC: strings of one or three characters.    *)
EXTENDS Cache

MCChars == {"a", "b", "u", "r", "d", "x", "1", ":"}

\* A request of tenant t by user s on (d, x): fields without ':'.
Req(t, s) == [tenant |-> <<t>>, kind |-> <<"u">>, subject |-> <<s>>,
              action |-> <<"r">>, rtype |-> <<"d">>, rid |-> <<"x">>]

\* Two subjects of tenant a and one of tenant b.
MCRequests == {Req("a", "a"), Req("a", "b"), Req("b", "a")}

\* Two requests of the same subject whose resource fields contain ':':
\* resource (d, "x:1") and resource ("d:x", 1).
MCCollidingRequests ==
    {[tenant |-> <<"a">>, kind |-> <<"u">>, subject |-> <<"a">>,
      action |-> <<"r">>, rtype |-> <<"d">>, rid |-> <<"x", ":", "1">>],
     [tenant |-> <<"a">>, kind |-> <<"u">>, subject |-> <<"a">>,
      action |-> <<"r">>, rtype |-> <<"d", ":", "x">>, rid |-> <<"1">>]}
=============================================================================
