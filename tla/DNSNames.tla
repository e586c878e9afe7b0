------------------------------- MODULE DNSNames -------------------------------
(***************************************************************************)
(* ToDNSName: the names of the five objects the operator owns for an       *)
(* IdlingResource.  "kidle-<name>-<suffix>" if that fits, or else the      *)
(* beginning of <name> and a hash in its place.  Names of objects are      *)
(* equal or not: of the characters of a name it matters how many there     *)
(* are, where it differs from others, and if it looks like a shortened     *)
(* one.                                                                    *)
(***************************************************************************)
EXTENDS Naturals

CONSTANTS
    IRs,         \* names of IdlingResources
    NameLength,  \* how long each is
    Common,      \* at how many characters from the start two begin to differ
    Hashed       \* those that end in a hyphen and the hash of their own beginning

ASSUME NamesAssumption ==
    /\ NameLength \in [IRs -> Nat \ {0}]
    /\ Common \in [IRs -> [IRs -> Nat]]
    /\ \A i, j \in IRs : Common[i][j] = Common[j][i] /\ Common[i][j] <= NameLength[i]
    /\ \A i, j, k \in IRs : Common[i][k] >= Common[i][j] \/ Common[i][k] >= Common[j][k]

(* What precedes the hash decides what the hash is.                        *)
ASSUME HashedAssumption ==
    /\ Hashed \subseteq IRs
    /\ \A i, j \in Hashed : /\ NameLength[i] = NameLength[j]
                            /\ Common[i][j] >= 5 /\ Common[i][j] + 7 >= NameLength[i]
                            => i = j

ResourceNameLengthLimit == 63

(* The suffixes, with the hyphen before them.                              *)
SuffixLength == [sa |-> 3, role |-> 5, rb |-> 3, idle |-> 5, wakeup |-> 7]
Parts        == DOMAIN SuffixLength

(* "kidle-".                                                               *)
PrefixLength == 6

FullLength(i, p) == PrefixLength + NameLength[i] + SuffixLength[p]

Shortened(i, p) == FullLength(i, p) > ResourceNameLengthLimit

(* name[:left-7]: the hash takes the place of seven characters, with its   *)
(* hyphen.                                                                 *)
Kept(p) == ResourceNameLengthLimit - (PrefixLength + SuffixLength[p]) - 7

Length(i, p) ==
    IF Shortened(i, p) THEN PrefixLength + Kept(p) + 7 + SuffixLength[p] ELSE FullLength(i, p)

(* The first six characters of a base64 encoding stand for 36 bits: they   *)
(* are those of the first five characters, or do not tell them apart.      *)
SameBase64(i, j) == Common[i][j] >= 5

(* What is made from i ends like a shortened name: it is one, or it has the *)
(* same length and spells one in full.                                     *)
Looks(i, p) ==
    Shortened(i, p) \/ (i \in Hashed /\ FullLength(i, p) = ResourceNameLengthLimit)

SameName(i, j, p) ==
    \/ i = j
    \/ /\ Looks(i, p) /\ Looks(j, p)
       /\ Common[i][j] >= Kept(p) /\ SameBase64(i, j)

(* A name stands for the IdlingResources it is made from.                  *)
ToDNSName(i, p) == <<{j \in IRs : SameName(i, j, p)}, p>>
=============================================================================
