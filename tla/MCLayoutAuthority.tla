------------------------- MODULE MCLayoutAuthority -------------------------
(* A small graph for LayoutAuthority: two domains, the first with a tool    *)
(* hub and a file with two symbols, the second with a memory.               *)
EXTENDS LayoutAuthority

CONSTANTS d1, d2, hub, file, s1, s2, memory

SmallNodes == {d1, d2, hub, file, s1, s2, memory}

SmallKind ==
    [n \in SmallNodes |-> IF n \in {d1, d2} THEN "domain"
                          ELSE IF n = hub THEN "tool_hub"
                          ELSE IF n = file THEN "file"
                          ELSE IF n = memory THEN "ring"
                          ELSE "symbol"]
SmallDomain == [n \in SmallNodes |-> IF n \in {d2, memory} THEN d2 ELSE d1]
SmallParent ==
    [n \in SmallNodes |-> IF n = file THEN hub
                          ELSE IF n \in {s1, s2} THEN file
                          ELSE NoNode]

Line(a, b, kind) == [source |-> a, target |-> b, kind |-> kind]
SmallEdges ==
    {Line(s1, s2, "calls"), Line(s1, s2, "imports"),
     Line(s1, file, "defined_in"), Line(memory, file, "about_entity")}

SentTwice == {s1}
=============================================================================
