--------------------------- MODULE MCZoneTransfer ---------------------------
(***************************************************************************)
(* A zone with two names: a serial changes both of them, or the first.     *)
(***************************************************************************)
EXTENDS ZoneTransfer

LOCAL INSTANCE SequencesExt

CONSTANTS n1, n2, addr

MCNames   == {n1, n2}
OneName   == {n1}
OneChange == {{<<n1, addr>>}}
MCChanges == {{<<n1, addr>>, <<n2, addr>>}, {<<n1, addr>>}}

(* ApplyAll is what taking the steps of an IXFR one after the other gives. *)
MCSteps == [from : {0}, to : {0}, remove : SUBSET Records, add : SUBSET Records]
ASSUME ApplyAllIsAFold ==
    \A R \in SUBSET Records, sent \in UNION {[1..n -> MCSteps] : n \in 0..2} :
        ApplyAll(R, sent) = FoldLeft(LAMBDA acc, e : (acc \ e.remove) \cup e.add,
                                     R, sent)
=============================================================================
