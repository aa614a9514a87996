-------------------------- MODULE SignaturePromise --------------------------
(***************************************************************************)
(* What an electronic signature promises (Lifecycle, the head comment of   *)
(* esign.service.ts): every signer consents, proves that the mailbox is    *)
(* theirs, and signs, in this order; a signed document is made only when   *)
(* all of them have, and nothing of this is ever undone.                   *)
(***************************************************************************)
EXTENDS Naturals

CONSTANT Signers

VARIABLES
    stage,  \* how far each signer has come
    sealed  \* a signed document exists

Stages == <<"invited", "consented", "proved", "signed">>

Init ==
    /\ stage = [s \in Signers |-> 1]
    /\ sealed = FALSE

Advance(s) ==
    /\ stage[s] < 4
    /\ stage' = [stage EXCEPT ![s] = @ + 1]
    /\ UNCHANGED sealed

Seal ==
    /\ \A s \in Signers : Stages[stage[s]] = "signed"
    /\ sealed' = TRUE
    /\ UNCHANGED stage

Next == Seal \/ \E s \in Signers : Advance(s)

Spec == Init /\ [][Next]_<<stage, sealed>>

=============================================================================
