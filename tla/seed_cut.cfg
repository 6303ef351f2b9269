\* One server that dies once, and one table: its accounts.
SPECIFICATION ServerSpec
CONSTANTS
    Servers = {s1}
    Clients = {k1}
    NoServer = NoServer
    Objects = 1
    Indexes = {}
    MaxFailures = 0
    MaxDeaths = 1
INVARIANT SeedHeals
