--------------------------- MODULE WildcardMatch ---------------------------
(***************************************************************************)
(* wildcard_matches of src/src/search.c: the loop that decides whether a   *)
(* file name matches a FindFirstFileExW pattern.  It backtracks to the     *)
(* last star only, with four indices; the specification below runs one     *)
(* call of it from every pattern, every name and both case modes.          *)
(* Indices count from 0, as in the source; s[i + 1] is its unit i.         *)
(***************************************************************************)
EXTENDS Naturals, SequencesExt

CONSTANTS Units,        \* UTF-16 units of names
          Fold(_),      \* ASCII case folding of a unit
          MaxPattern,   \* bound on the length of a pattern
          MaxName       \* bound on the length of a name

Star == "*"
AnyUnit == "?"
Dot == "."

\* Folding changes letters only.
ASSUME WildcardMatchAssumption ==
    /\ MaxPattern \in Nat
    /\ MaxName \in Nat
    /\ \A unit \in Units : Fold(unit) = Fold(Star) => unit = Star

VARIABLES pattern, name, caseSensitive,
          patternIndex, nameIndex,
          starIndex,      \* the last star met, NoStar before the first
          starNameIndex,  \* where that star's text ends
          verdict         \* "running", then the value returned

inputs == <<pattern, name, caseSensitive>>
matchVars == <<inputs, patternIndex, nameIndex, starIndex, starNameIndex, verdict>>

\* SIZE_MAX, an index no pattern has.
NoStar == MaxPattern

MatchTypeOK ==
    /\ pattern \in Seq(Units \cup {Star, AnyUnit}) /\ Len(pattern) <= MaxPattern
    /\ name \in Seq(Units) /\ Len(name) <= MaxName
    /\ caseSensitive \in BOOLEAN
    /\ patternIndex \in 0 .. Len(pattern)
    /\ nameIndex \in 0 .. Len(name)
    /\ starIndex \in 0 .. MaxPattern
    /\ starNameIndex \in 0 .. Len(name)
    /\ verdict \in {"running", "match", "mismatch"}

MatchInit ==
    /\ pattern \in BoundedSeq(Units \cup {Star, AnyUnit}, MaxPattern)
    /\ name \in BoundedSeq(Units, MaxName)
    /\ caseSensitive \in BOOLEAN
    /\ patternIndex = 0
    /\ nameIndex = 0
    /\ starIndex = NoStar
    /\ starNameIndex = 0
    /\ verdict = IF pattern = <<Star, Dot, Star>> THEN "match" ELSE "running"

UnitsEqual(first, second) ==
    IF caseSensitive THEN first = second ELSE Fold(first) = Fold(second)

InPattern == patternIndex < Len(pattern)

AtUnit ==
    /\ InPattern
    /\ \/ pattern[patternIndex + 1] = AnyUnit
       \/ UnitsEqual(pattern[patternIndex + 1], name[nameIndex + 1])

AtStar == InPattern /\ pattern[patternIndex + 1] = Star

InLoop == verdict = "running" /\ nameIndex < Len(name)

Advance ==
    /\ InLoop
    /\ AtUnit
    /\ patternIndex' = patternIndex + 1
    /\ nameIndex' = nameIndex + 1
    /\ UNCHANGED <<inputs, starIndex, starNameIndex, verdict>>

OpenStar ==
    /\ InLoop
    /\ ~AtUnit
    /\ AtStar
    /\ starIndex' = patternIndex
    /\ patternIndex' = patternIndex + 1
    /\ starNameIndex' = nameIndex
    /\ UNCHANGED <<inputs, nameIndex, verdict>>

\* Backtracking to the name index of the failure instead of the star's.
BacktrackMutant ==
    /\ InLoop
    /\ ~AtUnit
    /\ ~AtStar
    /\ starIndex # NoStar
    /\ patternIndex' = starIndex + 1
    /\ starNameIndex' = nameIndex + 1
    /\ nameIndex' = nameIndex + 1
    /\ UNCHANGED <<inputs, starIndex, verdict>>

Backtrack ==
    /\ InLoop
    /\ ~AtUnit
    /\ ~AtStar
    /\ starIndex # NoStar
    /\ patternIndex' = starIndex + 1
    /\ starNameIndex' = starNameIndex + 1
    /\ nameIndex' = starNameIndex + 1
    /\ UNCHANGED <<inputs, starIndex, verdict>>

Mismatch ==
    /\ InLoop
    /\ ~AtUnit
    /\ ~AtStar
    /\ starIndex = NoStar
    /\ verdict' = "mismatch"
    /\ UNCHANGED <<inputs, patternIndex, nameIndex, starIndex, starNameIndex>>

AfterLoop == verdict = "running" /\ nameIndex = Len(name)

SkipStar ==
    /\ AfterLoop
    /\ AtStar
    /\ patternIndex' = patternIndex + 1
    /\ UNCHANGED <<inputs, nameIndex, starIndex, starNameIndex, verdict>>

ReturnVerdict ==
    /\ AfterLoop
    /\ ~AtStar
    /\ verdict' = IF patternIndex = Len(pattern) THEN "match" ELSE "mismatch"
    /\ UNCHANGED <<inputs, patternIndex, nameIndex, starIndex, starNameIndex>>

MatchNext == Advance \/ OpenStar \/ Backtrack \/ Mismatch \/ SkipStar \/ ReturnVerdict

MatchSpec == MatchInit /\ [][MatchNext]_matchVars

-----------------------------------------------------------------------------

(* The reference: the relation "units p from i on match units n from j on" *)
(* by dynamic programming, with every split of the name at every star.     *)
SuffixMatches ==
    LET m[i \in 0 .. Len(pattern)] ==
          [j \in 0 .. Len(name) |->
             IF i = Len(pattern) THEN j = Len(name)
             ELSE IF pattern[i + 1] = Star
                  THEN \E k \in j .. Len(name) : m[i + 1][k]
                  ELSE /\ j < Len(name)
                       /\ \/ pattern[i + 1] = AnyUnit
                          \/ UnitsEqual(pattern[i + 1], name[j + 1])
                       /\ m[i + 1][j + 1]]
    IN  m
Reference == SuffixMatches[0][0]

IsDosAll == pattern = <<Star, Dot, Star>>

(* The greedy loop of wildcard_matches, which remembers only the last      *)
(* star, reports no name the pattern does not match and, if the name holds *)
(* no star itself, misses none; the DOS pattern *.* also matches the names *)
(* without a dot.                                                          *)
MatchesExactly ==
    /\ MatchTypeOK
    /\ verdict = "match" => Reference \/ IsDosAll
    /\ verdict = "mismatch" /\ (\A i \in DOMAIN name : name[i] # Star)
            => ~Reference

(* docs/ARCHITECTURE.md has the matching implement the star, for every     *)
(* host name.  wildcard_matches compares the two units before it looks for *)
(* a star: a star of the pattern that stands on a star of the name is      *)
(* taken for a literal unit and is never opened.                           *)
StarIsImplemented == verdict = "mismatch" => ~Reference

=============================================================================
