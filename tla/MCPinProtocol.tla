--------------------------- MODULE MCPinProtocol ---------------------------
EXTENDS PinProtocol, TLC

CONSTANTS a, b, c, d
TheLayers == {{a}, {b}, {c}, {d}}
Alike == {p \in Permutations(Keys) : {{p[k] : k \in L} : L \in Layers} = Layers}
=============================================================================
