------------------------------ MODULE Startup ------------------------------
(***************************************************************************)
(* The merino binary from its command line to its accept loops and back:   *)
(* main.rs main with select_auth_methods, load_users and                   *)
(* resolve_stats_addr, SocksServer::bind with bind_all and bind_listeners, *)
(* the setters called before the actor starts, and shutdown by a signal.   *)
(*                                                                         *)
(* A step ends where the code can fail or wait.  The name service, the     *)
(* port table and the moment at which the executor first polls the server  *)
(* actor are the environment's.                                            *)
(***************************************************************************)
EXTENDS Integers, SequencesExt

CONSTANT Invocations  \* command lines, each with the users file it names

ASSUME StartupAssumption ==
  \A i \in Invocations :
    /\ {i.no_auth, i.users, i.allow_insecure, i.stats_addr, i.shared_file}
         \subseteq BOOLEAN
    /\ {i.max_connections, i.max_connections_per_ip, i.dns_cache_ttl} \subseteq Nat
    /\ i.ip \in Seq(ToSet(i.ip)) /\ i.rows \in Seq({"user", "malformed"})

VARIABLES
  cmd,      \* Opt, and what the users file holds
  boot,     \* where main stands
  methods,  \* auth_methods
  users,    \* authed_users, in the order of the file
  todo,     \* addresses bind_listeners has not tried
  bound,    \* listeners, by address
  caps,     \* max_connections and per_ip of the server
  statsOf,  \* the Stats the server counts in: its private one or main's
  noted,    \* the listeners recorded in main's Stats
  dnsIn,    \* the Stats in which the DNS cache is registered
  loops     \* the accept loops run

startupVars ==
  <<cmd, boot, methods, users, todo, bound, caps, statsOf, noted, dnsIn, loops>>

\* The process exists.
Alive == boot # "exited"

-----------------------------------------------------------------------------
StartupInit ==
  /\ cmd \in Invocations
  /\ boot = "args"
  /\ methods = {} /\ users = << >>
  /\ todo = << >> /\ bound = {}
  /\ caps = [max |-> 0, perIp |-> 0]
  /\ statsOf = "private" /\ noted = {} /\ dnsIn = "none"
  /\ loops = FALSE

\* main returns, with an error or after System::stop: the process ends, and
\* the kernel closes whatever it had open.
Exit ==
  /\ boot' = "exited"
  /\ loops' = FALSE
  /\ todo' = << >> /\ bound' = {}
  /\ UNCHANGED <<cmd, methods, users, caps, statsOf, noted, dnsIn>>

\* The argument group "auth" admits one of --no-auth and --users.
UsageError ==
  /\ boot = "args"
  /\ cmd.no_auth /\ cmd.users
  /\ Exit

\* A users file enables USERPASS, --no-auth or neither of them NOAUTH.
select_auth_methods(no_auth, users_file) ==
  LET chosen == (IF no_auth THEN {"NoAuth"} ELSE {})
                  \cup (IF users_file THEN {"UserPass"} ELSE {})
  IN  IF chosen = {} THEN {"NoAuth"} ELSE chosen

ParseArgs ==
  /\ boot = "args"
  /\ ~(cmd.no_auth /\ cmd.users)
  /\ methods' = select_auth_methods(cmd.no_auth, cmd.users)
  /\ boot' = "users"
  /\ UNCHANGED <<cmd, users, todo, bound, caps, statsOf, noted, dnsIn, loops>>

\* load_users succeeds: the file is private or insecurity is allowed, every
\* record parses, and there is one.
Loadable ==
  /\ ~cmd.shared_file \/ cmd.allow_insecure
  /\ "malformed" \notin ToSet(cmd.rows)
  /\ cmd.rows # << >>

LoadUsers ==
  /\ boot = "users"
  /\ cmd.users => Loadable
  /\ users' = IF cmd.users THEN cmd.rows ELSE << >>
  /\ boot' = "lookup"
  /\ UNCHANGED <<cmd, methods, todo, bound, caps, statsOf, noted, dnsIn, loops>>

\* File::open fails, or the file is refused.
LoadUsersFails ==
  /\ boot = "users"
  /\ cmd.users
  /\ Exit

-----------------------------------------------------------------------------
(* SocksServer::bind                                                       *)

\* bind_all: kept lists the addresses of the name, duplicates collapsed, each
\* where it first occurs
Deduplicated(addrs, kept) ==
  \A m, n \in DOMAIN kept :
    m < n => \E i \in DOMAIN addrs : /\ addrs[i] = kept[m]
                                    /\ \A j \in 1..i : addrs[j] # kept[n]

LookupHost ==
  /\ boot = "lookup"
  /\ todo' \in [1..Cardinality(ToSet(cmd.ip)) -> ToSet(cmd.ip)]
  /\ Deduplicated(cmd.ip, todo')
  /\ boot' = "bind"
  /\ UNCHANGED <<cmd, methods, users, bound, caps, statsOf, noted, dnsIn, loops>>

LookupFails == boot = "lookup" /\ Exit

\* bind_listeners: an address that cannot be bound is skipped; one that this
\* process has bound already cannot be bound again
BindAddress ==
  /\ boot = "bind" /\ todo # << >>
  /\ \/ Head(todo) \notin bound /\ bound' = bound \cup {Head(todo)}
     \/ UNCHANGED bound
  /\ todo' = Tail(todo)
  /\ UNCHANGED <<cmd, boot, methods, users, caps, statsOf, noted, dnsIn, loops>>

NoListener ==
  /\ boot = "bind" /\ todo = << >> /\ bound = {}
  /\ Exit

\* The server is built; set_max_connections and set_max_connections_per_ip
\* follow (zero: one connection, no per-source cap).
ServerBound ==
  /\ boot = "bind" /\ todo = << >> /\ bound # {}
  /\ caps' = [max |-> IF cmd.max_connections >= 1 THEN cmd.max_connections ELSE 1,
              perIp |-> cmd.max_connections_per_ip]
  /\ boot' = "stats"
  /\ UNCHANGED <<cmd, methods, users, todo, bound, statsOf, noted, dnsIn, loops>>

-----------------------------------------------------------------------------
(* main, from the statistics to the run loop                               *)

\* resolve_stats_addr fails or yields no address
ResolveStatsFails == boot = "stats" /\ cmd.stats_addr /\ Exit

\* MUTANT of ShareStats: the server keeps its private statistics.
ShareStatsForgotten ==
  /\ boot = "stats"
  /\ noted' = bound
  /\ boot' = "dns"
  /\ UNCHANGED <<cmd, methods, users, todo, bound, caps, statsOf, dnsIn, loops>>

\* Stats::new, note_listeners and set_stats, once the address is resolved
ShareStats ==
  /\ boot = "stats"
  /\ noted' = bound
  /\ statsOf' = "shared"
  /\ boot' = "dns"
  /\ UNCHANGED <<cmd, methods, users, todo, bound, caps, dnsIn, loops>>

\* set_dns_cache registers the cache in the server's present statistics.
EnableDns ==
  /\ boot = "dns"
  /\ dnsIn' = IF cmd.dns_cache_ttl > 0 THEN statsOf ELSE dnsIn
  /\ boot' = "start"
  /\ UNCHANGED <<cmd, methods, users, todo, bound, caps, statsOf, noted, loops>>

\* server.start() schedules the actor.
StartServer ==
  /\ boot = "start"
  /\ boot' = "bind_stats"
  /\ UNCHANGED <<cmd, methods, users, todo, bound, caps, statsOf, noted, dnsIn, loops>>

\* SocksServer::started spawns a loop per listener when it is first polled,
\* which may be before or after the statistics listener is bound.
ActorStarted ==
  /\ boot \in {"bind_stats", "signals", "run"} /\ ~loops
  /\ loops' = TRUE
  /\ UNCHANGED <<cmd, boot, methods, users, todo, bound, caps, statsOf, noted, dnsIn>>

\* The statistics listener cannot be bound: main returns the error, with the
\* accept loops possibly at work already.
BindStatsFails == boot = "bind_stats" /\ cmd.stats_addr /\ Exit

\* The statistics listener is bound, or was not asked for.
BindStats ==
  /\ boot = "bind_stats"
  /\ boot' = "signals"
  /\ UNCHANGED <<cmd, methods, users, todo, bound, caps, statsOf, noted, dnsIn, loops>>

\* The two signal handlers are spawned and sys.run() takes over.
InstallSignals ==
  /\ boot = "signals"
  /\ boot' = "run"
  /\ UNCHANGED <<cmd, methods, users, todo, bound, caps, statsOf, noted, dnsIn, loops>>

\* SIGINT or SIGTERM: System::stop
Signalled == boot = "run" /\ Exit

-----------------------------------------------------------------------------
\* All of main but the bind of the statistics listener, which hands over to
\* the statistics service.
StartupStep ==
  \/ UsageError \/ ParseArgs \/ LoadUsers \/ LoadUsersFails
  \/ LookupHost \/ LookupFails \/ BindAddress \/ NoListener \/ ServerBound
  \/ ResolveStatsFails \/ ShareStats \/ EnableDns \/ StartServer \/ ActorStarted
  \/ BindStatsFails \/ InstallSignals \/ Signalled
=============================================================================
