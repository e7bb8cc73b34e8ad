------------------------------ MODULE SigningStatus ------------------------------
(***************************************************************************)
(* scripts/verify-gpg-status.py: whether GnuPG's status lines prove one    *)
(* valid signature by the pinned primary key.                              *)
(*                                                                         *)
(* A line is a record; its argument is the record `of'.                    *)
(***************************************************************************)
EXTENDS Naturals, Sequences, SequencesExt

AllowedTag == {"NEWSIG", "KEY_CONSIDERED", "SIG_ID", "GOODSIG", "VALIDSIG", "TRUST_UNDEFINED",
               "TRUST_NEVER", "TRUST_MARGINAL", "TRUST_FULLY", "TRUST_ULTIMATE",
               "VERIFICATION_COMPLIANCE_MODE"}
TrustTag == {"TRUST_UNDEFINED", "TRUST_NEVER", "TRUST_MARGINAL", "TRUST_FULLY", "TRUST_ULTIMATE"}

Lines(status, tags) == {i \in DOMAIN status : status[i].tag \in tags}
\* Mutant: a line may be repeated.
Occurs(status, tag) == Lines(status, {tag}) # {}

Once(status, tag) == \E i \in DOMAIN status : Lines(status, {tag}) = {i}
The(status, tag) == status[CHOOSE i \in Lines(status, {tag}) : TRUE].of

(* The VALIDSIG line: a detached binary signature over SHA-512, by a key that descends
   from the pinned one. *)
ValidAccepted(valid, pin) ==
    /\ valid.primary = pin
    /\ valid.version \in {4, 5, 6}
    /\ valid.algorithm \in {"approved"}
    /\ valid.hash = "SHA512"
    /\ valid.class = "binary"

(* validate. *)
Proven(status, pin) ==
    /\ status # <<>>
    /\ \A i \in DOMAIN status : status[i].tag \in AllowedTag
    /\ \A tag \in {"NEWSIG", "GOODSIG", "VALIDSIG", "SIG_ID"} : Once(status, tag)
    /\ Lines(status, {"KEY_CONSIDERED"}) # {}
    /\ ValidAccepted(The(status, "VALIDSIG"), pin)
    /\ The(status, "GOODSIG") = The(status, "VALIDSIG").key
    /\ \A i \in Lines(status, {"KEY_CONSIDERED"}) : status[i].of = [key |-> pin, usable |-> TRUE]
    /\ \A i, j \in Lines(status, TrustTag) : i = j
    /\ \A i, j \in Lines(status, {"VERIFICATION_COMPLIANCE_MODE"}) : i = j

(* What GnuPG writes about one signature, with a trust line under some trust models, and
   about those of a file in turn. *)
LinesOf(signature) ==
    LET line(tag, of) == [tag |-> tag, of |-> of]
        trust == IF signature.trusted THEN <<line("TRUST_ULTIMATE", "none")>> ELSE <<>>
        outcome ==
            [good |-> <<line("SIG_ID", "none"), line("GOODSIG", signature.key),
                        line("VALIDSIG", signature)>> \o trust,
             bad |-> <<line("BADSIG", signature.key)>>,
             expired |-> <<line("EXPKEYSIG", signature.key), line("VALIDSIG", signature)>>]
    IN  <<line("NEWSIG", "none"),
          line("KEY_CONSIDERED", [key |-> signature.primary, usable |-> TRUE])>>
        \o outcome[signature.verdict]

StatusOf(signatures) == FlattenSeq([i \in DOMAIN signatures |-> LinesOf(signatures[i])])
================================================================================
