--------------------------- MODULE MCNegotiation ---------------------------
EXTENDS Negotiation

\* A password longer than every name, and one that ends in a zero byte.
MCUsers ==
  <<[username |-> <<7>>, password |-> <<8, 9, 8>>],
    [username |-> <<7, 0>>, password |-> <<8>>]>>

Login(name, password) == LoginFrame([username |-> name, password |-> password])

\* Methods: none, unknown, each, both in either order; another version.
MCGreetings ==
  {<<5, 0>>, <<5, 1, 1>>, <<5, 1, 0>>, <<5, 1, 2>>, <<5, 3, 0, 1, 2>>, <<4, 1, 0>>}

\* Right, nearly right, of another user, empty, of another version, left out.
MCLogins ==
  {Login(<<7>>, <<8, 9, 8>>), Login(<<7>>, <<8, 9, 7>>), Login(<<7, 0>>, <<8>>),
   Login(<<7>>, <<8>>), Login(<<7>>, <<8, 9, 8, 0>>), Login(<< >>, << >>),
   [Login(<<7>>, <<8, 9, 8>>) EXCEPT ![1] = 5], << >>}

\* Each command and address type, an empty name, and what is not supported.
MCRequests ==
  {<<5, 1, 0, 1, 10, 0, 0, 1, 1, 187>>,
   <<5, 2, 9, 3, 2, 97, 98, 0, 80>>,
   <<5, 1, 0, 3, 0, 0, 80>>,
   <<5, 3, 0, 4, 32, 1, 0, 0, 0, 0, 0, 0, 0, 0, 0, 0, 0, 0, 0, 1, 4, 56>>,
   <<5, 3, 0, 1, 0, 0, 0, 0, 0, 0>>,
   <<5, 4, 0, 1, 0, 0>>, <<5, 1, 0, 2, 0>>, <<4, 1, 0, 1, 0, 0>>}

\* A pipelining client: everything at once, and three bytes for the target.
MCInputs == {g \o l \o r \o <<5, 1, 2>> : g \in MCGreetings, l \in MCLogins, r \in MCRequests}

MCSources ==
  {[ip |-> <<10, 0, 0, 2>>, port |-> 443],
   [ip |-> <<32, 1, 0, 0, 0, 0, 0, 0, 0, 0, 0, 0, 0, 0, 0, 2>>, port |-> 65535]}

\* Well-formed ones, a fragment, an unknown type, and every truncation.
MCDatagrams ==
  UNION {{SubSeq(d, 1, n) : n \in 0..Len(d)} :
    d \in {encode_udp_header(s) \o <<1, 2>> : s \in MCSources}
            \cup {<<0, 0, 0, 3, 2, 97, 98, 0, 53, 1>>, <<9, 9, 0, 3, 0, 1, 0>>,
                  <<0, 0, 1, 1, 10, 0, 0, 2, 1, 187, 1>>,
                  <<0, 0, 0, 2, 10, 0, 0, 2, 1, 187, 1>>}}
=============================================================================
