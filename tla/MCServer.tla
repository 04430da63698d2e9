------------------------------ MODULE MCServer ------------------------------
EXTENDS Server

Plain ==
  [no_auth |-> FALSE, users |-> FALSE, allow_insecure |-> FALSE,
   shared_file |-> FALSE, rows |-> <<"user">>, ip |-> <<"v4">>,
   stats_addr |-> FALSE, stats_token |-> None, dns_cache_ttl |-> 0,
   max_connections |-> 0, max_connections_per_ip |-> 0]

\* Every mixture of authentication options and users files, on a name with a
\* duplicate address; and the statistics service with and without a token.
MCInvocations ==
  {[Plain EXCEPT !.no_auth = n, !.users = u, !.allow_insecure = i,
                 !.shared_file = s, !.rows = r, !.ip = <<"v4", "v6", "v4">>] :
     n \in BOOLEAN, u \in BOOLEAN, i \in BOOLEAN, s \in BOOLEAN,
     r \in {<< >>, <<"user">>, <<"user", "malformed">>}}
  \cup {[Plain EXCEPT !.stats_addr = TRUE, !.stats_token = t, !.dns_cache_ttl = 1] :
          t \in {None, "secret"}}

Get(path) == Line("GET", path)
Secret == Line("bearer", "secret")
Conditional == Line("if-none-match", "tag")
Other == Line("other", "")

\* Within, over and far over MaxHead; two tokens; a token behind the end.
MCHeads ==
  {<<Get("/stats"), Secret, End>>,
   <<Get("/clients"), Conditional, Secret, End>>,
   <<Get("/healthz"), Line("bearer", "guess"), Secret, End>>,
   <<Get("/"), Secret, Line("bearer", "guess"), End>>,
   <<Get("/other"), End, Secret>>,
   <<Line("POST", "/stats"), End>>,
   <<Other, End>>,
   <<Get("/stats"), Other, Other, Other, Other, End>>}
=============================================================================
