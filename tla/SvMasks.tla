------------------------------ MODULE SvMasks ------------------------------
(***************************************************************************)
(* Lists of satellites and the masks the engine takes instead of them.  A  *)
(* list is a set of pairs of a constellation and an id, where id 0 is every *)
(* satellite of the constellation.  A mask is the set of the bits that are  *)
(* set in a word of 64.                                                    *)
(***************************************************************************)
EXTENDS Integers

Constellations == {"glo", "bds", "qzss", "gal", "sbas", "navic"}

Bits == 0..63

\* The id of bit 0.  SBAS has a second range of ids, from Initial2SvId, that begins at bit
\* InitialSvLength.
InitialSvId == [glo |-> 65, bds |-> 201, qzss |-> 193, gal |-> 301, sbas |-> 120, navic |-> 401]
Initial2SvId == 183
InitialSvLength == 39

\* An SBAS id of 208 or more would shift by more than the width of a mask: no caller has
\* one.
Satellites ==
    {s \in Constellations \X Nat :
        s[1] = "sbas" => s[2] < Initial2SvId + 64 - InitialSvLength}

NoMasks == [c \in Constellations |-> {}]

\* The masks and every bit of some constellations besides.
WithAllOf(masks, cs) == [c \in Constellations |-> IF c \in cs THEN Bits ELSE masks[c]]

\* Masks that hold no satellite that others do not.
IsWithin(masks, others) == \A c \in Constellations : masks[c] \subseteq others[c]

-----------------------------------------------------------------------------

\* setBlacklistedSource: the framework numbers the satellites of these constellations from 1.
FromFramework(source) ==
    IF source[2] > 0 /\ source[1] # "sbas"
    THEN <<source[1], source[2] + InitialSvId[source[1]] - 1>>
    ELSE source

\* The bit of an id, and whether there is one.
InSecondRange(c, id) == c = "sbas" /\ id >= Initial2SvId

HasBit(c, id) ==
    IF InSecondRange(c, id)
    THEN id < Initial2SvId + 64
    ELSE /\ id >= InitialSvId[c] /\ id < InitialSvId[c] + 64
         /\ c = "sbas" => id < InitialSvId[c] + InitialSvLength

BitOf(c, id) ==
    IF InSecondRange(c, id) THEN id + InitialSvLength - Initial2SvId ELSE id - InitialSvId[c]

\* convertToGnssSvIdConfig: satellites without a bit are left out.
ToMasks(list) ==
    [c \in Constellations |->
        IF <<c, 0>> \in list THEN Bits
        ELSE {BitOf(c, s[2]) : s \in {s \in list : s[1] = c /\ HasBit(c, s[2])}}]

\* convertGnssSvIdMaskToList
MaskToList(c, mask, initial) ==
    IF mask = Bits THEN {<<c, 0>>} ELSE {<<c, b + initial>> : b \in mask}

\* Mutant: the second range of SBAS is read as if it followed the first.
ToListOneRange(masks) == UNION {MaskToList(c, masks[c], InitialSvId[c]) : c \in Constellations}

\* convertFromGnssSvIdConfig
ToList(masks) ==
    LET sbas == masks["sbas"]
        second == {b - InitialSvLength : b \in {b \in sbas : b >= InitialSvLength}}
    IN  UNION ({MaskToList(c, masks[c], InitialSvId[c]) : c \in Constellations \ {"sbas"}}
               \cup {MaskToList("sbas", {b \in sbas : b < InitialSvLength}, InitialSvId["sbas"]),
                     MaskToList("sbas", second, Initial2SvId)})
=============================================================================
