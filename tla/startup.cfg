\* Two servers of one database with two tables, one of them with an index, and
\* two clients; two statements fail, and servers die or are stopped three times.
SPECIFICATION ServerSpec
CONSTANTS
    Servers = {s1, s2}
    Clients = {k1, k2}
    NoServer = NoServer
    Objects = 3
    Indexes = {2}
    MaxFailures = 2
    MaxDeaths = 3
INVARIANT SeedHolds
PROPERTY ShutdownEnds
PROPERTY AllServe
