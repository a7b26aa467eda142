------------------------- MODULE MCArtworkRegistry -------------------------
EXTENDS ArtworkRegistry

CONSTANTS s1, h1, h2, artist, artist2, collector, collector2

OneSubmission == {s1}
FourUsers == {artist, artist2, collector, collector2}
ByArtist == [s \in OneSubmission |-> artist]
OneHandler == {h1}
TwoHandlers == {h1, h2}

\* A collector and another artist may buy.
TwoBuyers == {[type |-> "collector", user |-> collector], [type |-> "artist", user |-> artist2]}
OneBuyer == {[type |-> "collector", user |-> collector]}

\* Handlers are interchangeable.
HandlerSymmetry == Permutations(TwoHandlers)
=============================================================================
