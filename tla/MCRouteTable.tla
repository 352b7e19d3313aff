---------------------------- MODULE MCRouteTable ----------------------------
(* Nested, sibling and equally long prefixes over three segments.          *)
EXTENDS RouteTable

CONSTANTS a, b, long

MCSegLen   == [s \in {a, b, long} |-> IF s = long THEN 3 ELSE 1]
MCPathPrefixes == {<<a>>, <<a, a>>, <<a, b>>, <<a, long>>, <<a, a, a>>}
MCPaths    == {<<a>>, <<b>>, <<a, a>>, <<a, b, a>>, <<a, long>>, <<a, a, a, b>>, <<a, a, long>>}
MCInputs   == {<<>>, <<<<a>>>>, <<<<a>>, <<a, a>>>>, <<<<a, a, a>>, <<a, b>>>>,
               <<<<a, a>>, <<a, long>>, <<a, a>>>>, <<<<a, b>>, <<a, long>>>>}
=============================================================================
