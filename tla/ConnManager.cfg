\* One connection, a lasting websocket or an SSE connection that is not, two scripts
\* that open and close it, two lives of the process.
SPECIFICATION ConnFairSpec
CONSTANTS
    Conns = {c1, c2}
    Urls = {u1}
    NoUrl = NoUrl
    NoConn = NoConn
    Lasting = {c1}
    Sse = {c2}
    Clients = {k1, k2}
    MaxConns = 1
    MaxLives = 2
    MaxRetries = 1
INVARIANTS
  ListedIsServed

  
CHECK_DEADLOCK FALSE
