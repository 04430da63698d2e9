------------------------------- MODULE Server -------------------------------
(***************************************************************************)
(* The merino process: Startup brings up the accept loops and hands the    *)
(* bound statistics listener and the token to StatsHttp; the sessions that *)
(* the accept loops spawn move the counters StatsHttp reads; the end of    *)
(* the process ends everything.                                            *)
(***************************************************************************)
EXTENDS Startup, StatsHttp

vars == <<startupVars, httpVars>>

Init == StartupInit /\ HttpInit

\* TcpListener::bind succeeded, and serve_stats is spawned.
SpawnStats == BindStats /\ cmd.stats_addr /\ ServeStats(cmd.stats_token)

\* --stats-addr was not given.
WithoutStats == BindStats /\ ~cmd.stats_addr /\ UNCHANGED httpVars

Next ==
  \/ StartupStep /\ IF boot' = "exited" THEN HttpGone ELSE UNCHANGED httpVars
  \/ SpawnStats
  \/ WithoutStats
  \/ Alive /\ HttpStep /\ UNCHANGED startupVars
  \/ \E s \in Sessions : loops /\ SessionStep(s) /\ UNCHANGED startupVars

Spec == Init /\ [][Next]_vars

\* A step of the service while the process lives.
Running(A) == Alive /\ A /\ UNCHANGED startupVars

\* The scheduler runs what is ready, the timers expire, and an accept on a
\* backlog fails for now but not for ever; the backlog is served in order.
\* Nothing is asked of the clients' reads and writes.
Fairness ==
  /\ WF_vars(Running(AcquireSocket))
  /\ \A p \in Pollers :
       /\ SF_vars(Running(\E h \in Heads : AcceptPoll(p, h)))
       /\ WF_vars(Running(Handle(p)))
       /\ WF_vars(Running(RequestTimeout(p)))

FairSpec == Spec /\ Fairness

-----------------------------------------------------------------------------
(* Properties                                                              *)

\* Whoever is accepted is accepted as the command line says: on an address
\* that was asked for, by users of a private or knowingly insecure file that
\* lists some, or without authentication when no file is given, within the caps
\* that were asked for, and counted in the statistics that the service shows,
\* the DNS cache's too.
ServesAsConfigured ==
  loops =>
    /\ bound # {} /\ bound \subseteq ToSet(cmd.ip)
    /\ methods = {IF cmd.users THEN "UserPass" ELSE "NoAuth"}
    /\ cmd.users => /\ users = cmd.rows /\ ToSet(users) = {"user"}
                    /\ cmd.shared_file => cmd.allow_insecure
    /\ caps.max >= 1 /\ caps.perIp = cmd.max_connections_per_ip
    /\ cmd.max_connections >= 1 => caps.max = cmd.max_connections
    /\ statsOf = "shared" /\ noted = bound
    /\ dnsIn = (IF cmd.dns_cache_ttl > 0 THEN "shared" ELSE "none")

\* No client can hold the service: each connection is over in the end, so
\* the next one is accepted, however slowly the clients send and read.
SlowClientsAreCut ==
  \A p \in Pollers : (sock[p] = "backlog") ~> (sock[p] = "idle" \/ ~Alive)
=============================================================================
