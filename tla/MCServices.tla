------------------------------ MODULE MCServices ----------------------------
(* The instances of Services: for each component, the configurations that  *)
(* take different ways through its code.                                   *)
EXTENDS Services

MCServerKinds ==
    {[adapter |-> "chi", route |-> r, cleanup |-> c] : r \in BOOLEAN, c \in BOOLEAN}
    \cup {[adapter |-> "fiber", route |-> FALSE, cleanup |-> FALSE]}

MCCalls ==
    [client : {"base", "observable"}, attempts : {0, 1, 3, 4}, policy : Policies,
     badBackoff : {FALSE}, body : {"none", "small", "large", "broken"}]
    \cup [client : {"make"}, attempts : {0}, policy : {"none"}, badBackoff : {FALSE},
          body : {"small"}]
    \cup [client : {"base"}, attempts : {2}, policy : {"default"}, badBackoff : {TRUE},
          body : {"small"}]

Published(via, sizes) ==
    {[via |-> via, size |-> n, async |-> a, topic |-> TRUE, publisher |-> TRUE,
      strategy |-> "unset"] : n \in sizes, a \in BOOLEAN}

MCProductions ==
    Published("publish", {1}) \cup Published("batch", {0, 2})
    \cup {[via |-> "dlq", size |-> 1, async |-> FALSE, topic |-> t, publisher |-> p,
           strategy |-> s] : t, p \in BOOLEAN, s \in Strategies \cup {"unset"}}

MCJourneys ==
    {j \in [broker : {"kafka", "rabbitmq"}, publisher : BOOLEAN, consumer : BOOLEAN,
            propagator : BOOLEAN, headers : BOOLEAN, dlq : BOOLEAN, autoAck : BOOLEAN] :
        IF j.broker = "kafka" THEN ~j.autoAck ELSE j.headers /\ ~j.dlq}

Full == {"Host", "User", "Database"}

(* Setups of some kinds of configuration: what is given, what the          *)
(* environment holds, and the rest.                                        *)
SetupsOf(kinds, dsns, givens, drivers, ports, factories, blanks, migrations) ==
    [kind : kinds, dsn : dsns, given : givens, envDriver : drivers, envDSN : {"none", "url"},
     env : {{}, Full}, envPort : ports, factory : factories, blank : blanks, tuned : {FALSE},
     migrations : migrations, observed : {TRUE}]

MCSetups ==
    SetupsOf(Drivers, Forms, {{}, {"Port"}, Full, Full \cup {"Other"}}, {"unset"}, {"unset"},
             {FALSE}, {FALSE}, {"absent", "dir", "file", "fs", "badFS"})
    \cup SetupsOf({"nil"}, {"none"}, {{}}, {"unset", "postgres", "mysql", "unsupported"},
                  {"unset", "junk"}, {FALSE}, {FALSE}, {"absent", "dir"})
    \cup SetupsOf({"mssql"}, {"none", "url"}, {Full \cup {"Other"}}, {"unset"}, {"unset"},
                  {FALSE}, {TRUE}, {"absent", "dir"})
    \cup SetupsOf({"custom", "adapter"}, {"none"}, {{}}, {"unset"}, {"unset"}, BOOLEAN, {FALSE},
                  {"absent", "fs"})
    \cup SetupsOf({"postgres"}, {"none"}, {{}}, {"unset"}, {"junk"}, BOOLEAN, {FALSE}, {"dir"})
    \cup {[s EXCEPT !.tuned = TRUE, !.observed = FALSE] :
               s \in SetupsOf(Drivers, {"url"}, {{}}, {"unset"}, {"unset"}, {FALSE}, {FALSE},
                              {"absent", "dir"})}

MCQueueOf == [c1 |-> "q", c2 |-> "q", c3 |-> "other"]

MCMigratorCalls == [c1 |-> "up", c2 |-> "down", c3 |-> "force"]

MCAmounts == {-8, -7, -3, -1, 0, 1, 2, 3, 7, 8}
MCTries == 0 .. 64
MCLists == UNION {[1 .. n -> 1 .. 4] : n \in 0 .. 3}

MCNumbers == {-1, 0, 1, 5}

MCOtelConfigs ==
    [given : BOOLEAN, named : BOOLEAN, endpoint : BOOLEAN, rate : {0, 10, 11},
     protocol : {"grpc", "HTTP/protobuf", "tcp"}, insecure : BOOLEAN,
     tls : {"none", "unset", "1.0"}, global : BOOLEAN]
=============================================================================
