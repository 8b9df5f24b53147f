--------------------------- MODULE MCSourceRegistry ---------------------------
EXTENDS SourceRegistry, TLC
CONSTANTS bocha, tavily, feed, plain, exponent, digits
MCJsonb == (plain :> plain) @@ (exponent :> digits) @@ (digits :> digits)
MCBytes == (plain :> 1) @@ (exponent :> 1) @@ (digits :> 3)
MCStampWidth == <<1, 2>>
Web(enabled) == [owner |-> "fixed", channel |-> "web_search", enabled |-> enabled, config |-> plain, created |-> 0, updated |-> 0]
MCFixed == (bocha :> Web(TRUE)) @@ (tavily :> Web(FALSE))
Feed == [owner |-> "dynamic", channel |-> "rss", enabled |-> TRUE, config |-> plain, created |-> 0, updated |-> 0]
MCResearch == feed :> Feed
MCImports == {feed :> [Feed EXCEPT !.created = 1, !.updated = 1]}
R(op, code, enabled, config) == [op |-> op, code |-> code, enabled |-> enabled, config |-> config]
MCRequests ==
    {R("create", feed, TRUE, exponent), R("create", tavily, FALSE, digits),
     R("update", bocha, FALSE, plain), R("update", tavily, TRUE, plain),
     R("update", feed, TRUE, digits),
     R("delete", feed, FALSE, plain), R("delete", tavily, FALSE, plain),
     R("fixed", feed, FALSE, plain), R("research", feed, FALSE, plain),
     R("import", feed, FALSE, plain)}
=============================================================================
