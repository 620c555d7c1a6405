----------------------------- MODULE ClaimCode -----------------------------
(***************************************************************************)
(* The claim code as the phones handle it: mobile/src/lib/claim.ts.  A     *)
(* code is a sequence of characters, and so is whatever a person writes    *)
(* down, reads out or types.  The hash is a constructor, so that two codes *)
(* have the same hash only when they are equal.                            *)
(*                                                                         *)
(* A definition whose comment starts with "Fault" is no part of the model: *)
(* it is a wrong version of the definition after it, one that a property   *)
(* of the module Mobile is shown to notice.                                *)
(***************************************************************************)
EXTENDS Naturals, Sequences, Sifting

CONSTANTS
    ALPHABET,           \* the symbols of a code, in upper case (32 of them)
    CLAIM_CODE_LENGTH,  \* characters in a code (32)
    GROUP_SIZE          \* characters in a group of its display (4)

\* The characters on a keyboard: lower case folds to upper, and what is
\* neither a letter nor a digit is a separator.
lower == [a |-> "A", b |-> "B", i |-> "I", l |-> "L", o |-> "O", u |-> "U"]
toUpperCase(ch) == IF ch \in DOMAIN lower THEN lower[ch] ELSE ch
Separators == {"-", " "}

\* Crockford's base32 has no I, L, O and U.
ASSUME CodeAssumption ==
    /\ CLAIM_CODE_LENGTH \in Nat \ {0} /\ GROUP_SIZE \in Nat \ {0}
    /\ ALPHABET \subseteq STRING
    /\ ALPHABET \cap ({"I", "L", "O", "U"} \cup DOMAIN lower \cup Separators) = {}

repair(ch) == CASE ch \in {"I", "L"} -> "1" [] ch = "O" -> "0" [] OTHER -> ch

\* Fault: a letter O is left as it was typed.
RepairsOnlyOnes(input) ==
    LET kept == Without(input, Separators)
    IN  [i \in DOMAIN kept |->
            IF toUpperCase(kept[i]) = "O" THEN "O" ELSE repair(toUpperCase(kept[i]))]

normaliseClaimCode(input) ==
    LET kept == Without(input, Separators)
    IN  [i \in DOMAIN kept |-> repair(toUpperCase(kept[i]))]

isCanonical(code) == \A i \in DOMAIN code : code[i] \in ALPHABET

isWellFormedClaimCode(code) ==
    LET canonical == normaliseClaimCode(code)
    IN  Len(canonical) = CLAIM_CODE_LENGTH /\ isCanonical(canonical)

\* What generateClaimCode may draw.
ClaimCodes == [1 .. CLAIM_CODE_LENGTH -> ALPHABET]

\* Defined for well-formed codes; the code throws on any other.
hashClaimCode(code) == [sha256 |-> normaliseClaimCode(code)]

verifyClaimCode(code, expectedHash) ==
    CASE ~ isWellFormedClaimCode(code) -> "malformed"
      [] isWellFormedClaimCode(code) /\ hashClaimCode(code) # expectedHash -> "mismatch"
      [] OTHER -> "matches"

\* The display form: one separator after each group of the code.
formatClaimCode(code) ==
    LET canonical == normaliseClaimCode(code)
    IN  [i \in 1 .. Len(canonical) + (Len(canonical) - 1) \div GROUP_SIZE |->
            IF i % (GROUP_SIZE + 1) = 0 THEN "-"
            ELSE canonical[i - i \div (GROUP_SIZE + 1)]]

\* How people write a displayed symbol down.
Written(ch) ==
    CASE ch = "0" -> {"0", "O", "o"}
      [] ch = "1" -> {"1", "I", "i", "L", "l"}
      [] ch \in Separators -> Separators
      [] OTHER -> {ch} \cup {c \in DOMAIN lower : lower[c] = ch}
=============================================================================
