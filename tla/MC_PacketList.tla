--------------------------- MODULE MC_PacketList ---------------------------
\* A list of at most two rows before it is trimmed, packets 1 and 2 and a tunnel 3.
EXTENDS PacketList

CaptureSessions ==
    {[stored |-> <<>>, answered |-> {}, flows |-> {1, 3}],
     [stored |-> <<1>>, answered |-> {1}, flows |-> {2, 3}],
     [stored |-> <<1, 3>>, answered |-> {}, flows |-> {2}]}
ByUrl(ids, negated)  == [field |-> "url", values |-> ids, negated |-> negated]
ByStatus(v, negated) == [field |-> "status", values |-> v, negated |-> negated]
SearchQueries == {{ByUrl({1, 3}, FALSE)}, {ByUrl({1}, TRUE), ByStatus({"none"}, FALSE)}}
FullTexts == {{[id |-> 1, tab |-> "message"], [id |-> 2, tab |-> "SslTls"]}}
=============================================================================
