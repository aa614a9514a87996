---------------------------- MODULE EsignProofs ----------------------------
(***************************************************************************)
(* Theorems about Esign for every set of signers and handlers: its six     *)
(* properties, and that it implements SignaturePromise.                    *)
(*                                                                         *)
(* The invariant has three parts, each inductive given the ones before it. *)
(* Typed: a handler knows its signer, and challenge numbers only grow.     *)
(* Order: what a handler has read of consents, proofs and signatures is    *)
(* still so when it acts, since none of them is ever taken back; this is   *)
(* what the refinement rests on.  Alone: while no signatures overlapped,   *)
(* one handler at most counts signatures or completes.                     *)
(***************************************************************************)
EXTENDS Esign, FiniteSetTheorems, TLAPS

\* A signer's request knows its signer, and no challenge that does not exist;
\* a code that is about to be verified has been counted as an attempt.
Named == \A h \in Handlers :
    /\ pc[h] \notin {"idle", "send"} => loc[h].who \in Signers
    /\ loc[h].no <= codes
    /\ pc[h] = "verify" /\ Latest(h) => otp[loc[h].who].attempts > 0

Numbered == \A s \in Signers : otp[s].no <= codes

Typed == TypeOK /\ Named /\ Numbered

-----------------------------------------------------------------------------
(* How a handler moves *)

LEMMA Goes ==
    ASSUME TypeOK, NEW h \in Handlers, NEW l \in Pc, Goto(h, l)
    PROVE  /\ pc' \in [Handlers -> Pc] /\ loc' \in [Handlers -> Loc] /\ loc' = loc
           /\ pc'[h] = l /\ \A g \in Handlers \ {h} : pc'[g] = pc[g]
  BY DEF TypeOK, Goto

LEMMA Starts ==
    ASSUME TypeOK, NEW h \in Handlers, NEW l \in Pc,
           NEW w \in Signers \cup {Nobody}, NEW n \in 0 .. MaxCodes, Start(h, l, w, n)
    PROVE  /\ pc' \in [Handlers -> Pc] /\ loc' \in [Handlers -> Loc]
           /\ pc[h] = "idle" /\ pc'[h] = l /\ loc'[h] = [who |-> w, no |-> n]
           /\ \A g \in Handlers \ {h} : pc'[g] = pc[g] /\ loc'[g] = loc[g]
  BY DEF TypeOK, Start, Loc

LEMMA Returns ==
    ASSUME TypeOK, NEW h \in Handlers, Return(h)
    PROVE  /\ pc' \in [Handlers -> Pc] /\ loc' \in [Handlers -> Loc]
           /\ pc'[h] = "idle" /\ loc'[h] = NoLoc
           /\ \A g \in Handlers \ {h} : pc'[g] = pc[g] /\ loc'[g] = loc[g]
<1>1. NoLoc \in Loc /\ "idle" \in Pc
  BY EsignAssumption DEF NoLoc, Loc, Pc
<1>2. QED
  BY <1>1 DEF TypeOK, Return

-----------------------------------------------------------------------------
(* Types *)

LEMMA NewChallenge ==
    ASSUME NEW n \in 0 .. MaxCodes, NEW c
    PROVE  Inserted(n, c) \in Challenge /\ Inserted(n, c).no = n
  BY EsignAssumption DEF Inserted, Challenge, NoChallenge

\* A handler that starts is named by the caller.
LEMMA NamedStart ==
    ASSUME Typed, NEW h \in Handlers, NEW l \in Pc, l # "verify",
           NEW w \in Signers \cup {Nobody}, l \notin {"idle", "send"} => w \in Signers,
           NEW n \in 0 .. MaxCodes, n <= codes, Start(h, l, w, n), UNCHANGED <<codes, otp>>
    PROVE  pc' \in [Handlers -> Pc] /\ loc' \in [Handlers -> Loc] /\ Named' /\ Numbered'
<1>1. /\ pc' \in [Handlers -> Pc] /\ loc' \in [Handlers -> Loc]
      /\ pc'[h] = l /\ loc'[h] = [who |-> w, no |-> n]
      /\ \A g \in Handlers \ {h} : pc'[g] = pc[g] /\ loc'[g] = loc[g]
  BY Starts DEF Typed
<1>2. Named'
  BY <1>1 DEF Typed, Named, Latest
<1>3. QED
  BY <1>1, <1>2 DEF Typed, Numbered

LEMMA InitTyped == Init => Typed
<1> SUFFICES ASSUME Init PROVE Typed
  OBVIOUS
<1>1. NoChallenge \in Challenge /\ NoLoc \in Loc
  BY EsignAssumption DEF NoChallenge, Challenge, NoLoc, Loc
<1>2. TypeOK
  <2>1. /\ status \in Status /\ links \in {"none", "sent", "expired"} /\ raced \in BOOLEAN
        /\ signer \in [Signers -> SignerStatus] /\ otp \in [Signers -> Challenge]
    BY <1>1 DEF Init, Status, SignerStatus
  <2>2. pc \in [Handlers -> Pc] /\ loc \in [Handlers -> Loc]
    BY <1>1 DEF Init, Pc
  <2>3. codes \in 0 .. MaxCodes /\ faults \in 0 .. MaxFaults /\ docs \in Nat
    BY EsignAssumption DEF Init
  <2> QED
    BY <2>1, <2>2, <2>3 DEF Init, TypeOK
<1>3. Named /\ Numbered
  BY EsignAssumption DEF Init, Named, Numbered, NoLoc, NoChallenge
<1>4. QED
  BY <1>2, <1>3 DEF Typed

LEMMA NextTyped == Typed /\ [Next]_vars => Typed'
<1> SUFFICES ASSUME Typed, [Next]_vars PROVE Typed'
  OBVIOUS
<1> USE DEF Typed
<1>1. ASSUME NEW h \in Handlers, BeginSend(h) PROVE Typed'
  <2>1. "send" \in Pc /\ Start(h, "send", Nobody, 0) /\ 0 \in 0 .. MaxCodes /\ 0 <= codes
    BY <1>1, EsignAssumption DEF BeginSend, Pc, TypeOK
  <2>2. UNCHANGED <<codes, otp>>
    BY <1>1 DEF BeginSend, people
  <2>3. pc' \in [Handlers -> Pc] /\ loc' \in [Handlers -> Loc] /\ Named' /\ Numbered'
    BY <2>1, <2>2, NamedStart
  <2> QED
    BY <1>1, <2>3 DEF BeginSend, people, TypeOK
<1>2. ASSUME NEW h \in Handlers, Sent(h) PROVE Typed'
  BY <1>2, Returns, EsignAssumption DEF Sent, people, TypeOK, Named, Numbered, Latest, NoLoc, Status
<1>3. ASSUME Cancel \/ Expires PROVE Typed'
  BY <1>3 DEF Cancel, Expires, people, TypeOK, Named, Numbered, Latest, Status
<1>4. ASSUME NEW s \in Signers, Open(s) \/ ProvideConsent(s) PROVE Typed'
  BY <1>4 DEF Open, ProvideConsent, TypeOK, Named, Numbered, Latest, SignerStatus
<1>5. ASSUME NEW s \in Signers, OtpExpires(s) PROVE Typed'
  <2>1. /\ otp' \in [Signers -> Challenge]
        /\ \A t \in Signers : otp'[t].no = otp[t].no /\ otp'[t].attempts = otp[t].attempts
    BY <1>5 DEF OtpExpires, TypeOK, Challenge
  <2> QED
    BY <1>5, <2>1 DEF OtpExpires, TypeOK, Named, Numbered, Latest
<1>6. ASSUME NEW h \in Handlers, NEW s \in Signers, RequestOtp(h, s) PROVE Typed'
  <2>1. codes' = codes + 1 /\ codes' \in 0 .. MaxCodes /\ codes \in Nat
    BY <1>6, EsignAssumption DEF RequestOtp, TypeOK
  <2>2. /\ otp' \in [Signers -> Challenge] /\ otp'[s].no = codes'
        /\ \A t \in Signers \ {s} : otp'[t] = otp[t]
    BY <1>6, <2>1, NewChallenge DEF RequestOtp, TypeOK
  <2>3. "otp_sent" \in Pc /\ 0 \in 0 .. MaxCodes /\ Start(h, "otp_sent", s, 0)
    BY <1>6, EsignAssumption DEF RequestOtp, Pc
  <2>4. /\ pc' \in [Handlers -> Pc] /\ loc' \in [Handlers -> Loc]
        /\ pc'[h] = "otp_sent" /\ loc'[h] = [who |-> s, no |-> 0]
        /\ \A g \in Handlers \ {h} : pc'[g] = pc[g] /\ loc'[g] = loc[g]
    BY <2>3, Starts
  <2>5. TypeOK'
    BY <1>6, <2>1, <2>2, <2>4 DEF RequestOtp, TypeOK
  <2>6. Numbered'
    BY <2>1, <2>2 DEF Numbered, TypeOK, Challenge
  <2>7. Named'
    <3> SUFFICES ASSUME NEW g \in Handlers
                 PROVE  /\ pc'[g] \notin {"idle", "send"} => loc'[g].who \in Signers
                        /\ loc'[g].no <= codes'
                        /\ pc'[g] = "verify" /\ Latest(g)' => otp'[loc'[g].who].attempts > 0
      BY DEF Named
    <3>1. CASE g = h
      BY <3>1, <2>1, <2>4
    <3>2. CASE g # h
      <4>1. loc[g].no <= codes /\ loc[g].no \in Nat
        BY <2>1 DEF Named, TypeOK, Loc
      <4>2. loc'[g].no # otp'[s].no
        BY <4>1, <2>1, <2>2, <2>4, <3>2
      <4> QED
        BY <4>1, <4>2, <2>1, <2>2, <2>4, <3>2 DEF Named, Latest
    <3> QED
      BY <3>1, <3>2
  <2> QED
    BY <2>5, <2>6, <2>7
<1>7. ASSUME NEW h \in Handlers, OtpSent(h) PROVE Typed'
  BY <1>7, Returns, EsignAssumption
     DEF OtpSent, TypeOK, Named, Numbered, Latest, NoLoc, SignerStatus
<1>8. ASSUME NEW h \in Handlers, NEW s \in Signers, BeginVerify(h, s) PROVE Typed'
  <2>1. "attempt" \in Pc /\ Start(h, "attempt", s, otp[s].no) /\ otp[s].no \in 0 .. MaxCodes
        /\ otp[s].no <= codes
    BY <1>8 DEF BeginVerify, Pc, TypeOK, Challenge, Numbered
  <2>2. UNCHANGED <<codes, otp>>
    BY <1>8 DEF BeginVerify, people
  <2>3. pc' \in [Handlers -> Pc] /\ loc' \in [Handlers -> Loc] /\ Named' /\ Numbered'
    BY <2>1, <2>2, NamedStart
  <2> QED
    BY <1>8, <2>3 DEF BeginVerify, people, TypeOK
<1>9. ASSUME NEW h \in Handlers, CountAttempt(h) PROVE Typed'
  <2>1. loc[h].who \in Signers
    BY <1>9 DEF CountAttempt, Named
  <2>2. /\ otp' \in [Signers -> Challenge]
        /\ \A t \in Signers : otp'[t].no = otp[t].no /\ otp'[t].attempts >= otp[t].attempts
        /\ Latest(h) => otp'[loc[h].who].attempts > 0
    BY <1>9, <2>1 DEF CountAttempt, TypeOK, Challenge
  <2>3. CASE Goto(h, "verify")
    <3>1. /\ pc' \in [Handlers -> Pc] /\ loc' \in [Handlers -> Loc] /\ loc' = loc
          /\ pc'[h] = "verify" /\ \A g \in Handlers \ {h} : pc'[g] = pc[g]
      BY <2>3, Goes DEF Pc
    <3>2. TypeOK' /\ Numbered'
      BY <1>9, <2>2, <3>1 DEF CountAttempt, TypeOK, Numbered
    <3>3. Named'
      BY <1>9, <2>1, <2>2, <3>1 DEF CountAttempt, TypeOK, Named, Latest, Challenge
    <3>4. QED
      BY <3>2, <3>3 DEF Typed
  <2>4. CASE Return(h)
    <3>1. /\ pc' \in [Handlers -> Pc] /\ loc' \in [Handlers -> Loc]
          /\ pc'[h] = "idle" /\ loc'[h].no = 0
          /\ \A g \in Handlers \ {h} : pc'[g] = pc[g] /\ loc'[g] = loc[g]
      BY <2>4, Returns DEF NoLoc
    <3>2. TypeOK' /\ Numbered'
      BY <1>9, <2>2, <3>1 DEF CountAttempt, TypeOK, Numbered
    <3>3. Named'
      BY <1>9, <2>2, <3>1 DEF CountAttempt, TypeOK, Named, Latest, Challenge
    <3>4. QED
      BY <3>2, <3>3 DEF Typed
  <2> QED
    BY <1>9, <2>3, <2>4 DEF CountAttempt
<1>10. ASSUME NEW h \in Handlers, Verified(h) PROVE Typed'
  <2>1. loc[h].who \in Signers
    BY <1>10 DEF Verified, Named
  <2>2. /\ otp' \in [Signers -> Challenge]
        /\ \A t \in Signers : otp'[t].no = otp[t].no /\ otp'[t].attempts = otp[t].attempts
    <3>1. CASE Latest(h)
      <4>1. [otp[loc[h].who] EXCEPT !.verified = TRUE] \in Challenge
        <5>1. otp[loc[h].who] \in Challenge /\ otp[loc[h].who].attempts > 0
          BY <1>10, <2>1, <3>1 DEF Verified, TypeOK, Named
        <5>2. ASSUME NEW c \in Challenge, c.attempts > 0 PROVE [c EXCEPT !.verified = TRUE] \in Challenge
          BY <5>2 DEF Challenge
        <5>3. QED
          BY <5>1, <5>2
      <4>2. otp' = [otp EXCEPT ![loc[h].who] = [otp[loc[h].who] EXCEPT !.verified = TRUE]]
        BY <1>10, <3>1 DEF Verified
      <4>3. otp \in [Signers -> Challenge]
        BY DEF TypeOK
      <4>4. QED
        BY <2>1, <4>1, <4>2, <4>3 DEF Challenge
    <3>2. CASE ~Latest(h)
      BY <1>10, <3>2 DEF Verified, TypeOK
    <3>3. QED
      BY <3>1, <3>2
  <2>3. Goto(h, "otp_verified") /\ "otp_verified" \in Pc
    BY <1>10 DEF Verified, Pc
  <2> QED
    BY <1>10, <2>1, <2>2, <2>3, Goes DEF Verified, TypeOK, Named, Numbered, Latest
<1>11. ASSUME NEW h \in Handlers, OtpVerified(h) PROVE Typed'
  BY <1>11, Returns, EsignAssumption
     DEF OtpVerified, TypeOK, Named, Numbered, Latest, NoLoc, SignerStatus
<1>12. ASSUME NEW h \in Handlers, NEW s \in Signers, BeginSign(h, s) PROVE Typed'
  <2>1. "sign" \in Pc /\ Start(h, "sign", s, 0) /\ 0 \in 0 .. MaxCodes /\ 0 <= codes
    BY <1>12, EsignAssumption DEF BeginSign, Pc, TypeOK
  <2>2. UNCHANGED <<codes, otp>>
    BY <1>12 DEF BeginSign, people
  <2>3. pc' \in [Handlers -> Pc] /\ loc' \in [Handlers -> Loc] /\ Named' /\ Numbered'
    BY <2>1, <2>2, NamedStart
  <2> QED
    BY <1>12, <2>3 DEF BeginSign, people, TypeOK
<1>13. ASSUME NEW h \in Handlers, Signed(h) PROVE Typed'
  <2>1. Goto(h, "count") /\ "count" \in Pc /\ loc[h].who \in Signers
    BY <1>13 DEF Signed, Pc, Named
  <2> QED
    BY <1>13, <2>1, Goes DEF Signed, TypeOK, Named, Numbered, Latest, SignerStatus
<1>14. ASSUME NEW h \in Handlers, CountRemaining(h) PROVE Typed'
  <2>1. \E l \in {"store", "partial"} : Goto(h, l)
    BY <1>14 DEF CountRemaining
  <2> QED
    BY <1>14, <2>1, Goes DEF CountRemaining, Pc, people, TypeOK, Named, Numbered, Latest
<1>15. ASSUME NEW h \in Handlers, StoreDocument(h) PROVE Typed'
  <2>1. Goto(h, "complete") /\ "complete" \in Pc
    BY <1>15 DEF StoreDocument, Pc
  <2> QED
    BY <1>15, <2>1, Goes DEF StoreDocument, people, TypeOK, Named, Numbered, Latest
<1>16. ASSUME NEW h \in Handlers, Partial(h) \/ Completed(h) \/ Declined(h) PROVE Typed'
  <2>1. Return(h)
    BY <1>16 DEF Partial, Completed, Declined
  <2> QED
    BY <1>16, <2>1, Returns, EsignAssumption
       DEF Partial, Completed, Declined, people, TypeOK, Named, Numbered, Latest, NoLoc, Status
<1>17. ASSUME NEW h \in Handlers, NEW s \in Signers, BeginDecline(h, s) PROVE Typed'
  <2>1. "decline" \in Pc /\ Start(h, "decline", s, 0) /\ 0 \in 0 .. MaxCodes /\ 0 <= codes
    BY <1>17, EsignAssumption DEF BeginDecline, Pc, TypeOK
  <2>2. UNCHANGED <<codes, otp>>
    BY <1>17 DEF BeginDecline, people
  <2>3. pc' \in [Handlers -> Pc] /\ loc' \in [Handlers -> Loc] /\ Named' /\ Numbered'
    BY <2>1, <2>2, NamedStart
  <2> QED
    BY <1>17, <2>3 DEF BeginDecline, TypeOK, SignerStatus
<1>18. ASSUME NEW h \in Handlers, Fail(h) PROVE Typed'
  BY <1>18, Returns, EsignAssumption
     DEF Fail, people, TypeOK, Named, Numbered, Latest, NoLoc
<1>19. CASE UNCHANGED vars
  BY <1>19 DEF vars, people, TypeOK, Named, Numbered, Latest
<1>20. QED
  BY <1>1, <1>2, <1>3, <1>4, <1>5, <1>6, <1>7, <1>8, <1>9, <1>10, <1>11, <1>12, <1>13,
     <1>14, <1>15, <1>16, <1>17, <1>18, <1>19 DEF Next, Request, Work

-----------------------------------------------------------------------------
(* The order of a signer's acts, and all of them before the document *)

ActsInOrder ==
    /\ \A s \in Signers : otp[s].no > 0 => s \in consented
    /\ proved \subseteq consented /\ signedAt \subseteq proved
    /\ \A s \in Signers :
          /\ signer[s] = "otp_verified" => s \in proved
          /\ signer[s] = "signed" => s \in signedAt

\* What a handler has seen, and has not yet acted on, stays true.
SeenStands == \A h \in Handlers :
    /\ pc[h] \in {"attempt", "verify"} => loc[h].who \in consented
    /\ pc[h] \in {"otp_verified", "sign"} => loc[h].who \in proved
    /\ pc[h] \in {"store", "complete"} => signedAt = Signers

SealedBySigners == docs > 0 \/ status = "completed" => signedAt = Signers

Order == ActsInOrder /\ SeenStands /\ SealedBySigners

LEMMA InitOrder == Init => Order
<1> SUFFICES ASSUME Init PROVE Order
  OBVIOUS
<1>1. ActsInOrder
  BY DEF Init, ActsInOrder, NoChallenge
<1>2. SeenStands /\ SealedBySigners
  BY DEF Init, SeenStands, SealedBySigners
<1>3. QED
  BY <1>1, <1>2 DEF Order

\* A handler that starts or returns, where the rest only grows.
LEMMA OrderMoves ==
    ASSUME Typed, Order, NEW h \in Handlers,
           \A g \in Handlers \ {h} : pc'[g] = pc[g] /\ loc'[g] = loc[g],
           pc'[h] \notin {"attempt", "verify", "otp_verified", "sign", "store", "complete"},
           UNCHANGED <<consented, proved, signedAt>>
    PROVE  SeenStands'
  BY DEF Order, SeenStands

LEMMA NextOrder == Typed /\ Order /\ [Next]_vars => Order'
<1> SUFFICES ASSUME Typed, Order, [Next]_vars PROVE Order'
  OBVIOUS
<1>a. TypeOK /\ Named
  BY DEF Typed
<1>1. ASSUME NEW h \in Handlers, BeginSend(h) PROVE Order'
  <2>1. Start(h, "send", Nobody, 0) /\ "send" \in Pc /\ 0 \in 0 .. MaxCodes
    BY <1>1, EsignAssumption DEF BeginSend, Pc
  <2>2. SeenStands'
    <3>1. pc'[h] = "send" /\ \A g \in Handlers \ {h} : pc'[g] = pc[g] /\ loc'[g] = loc[g]
      BY <1>a, <2>1, Starts
    <3>2. QED
      BY <1>1, <3>1, OrderMoves DEF BeginSend, people
  <2> QED
    BY <1>1, <2>2 DEF BeginSend, people, Order, ActsInOrder, SealedBySigners
<1>2. ASSUME NEW h \in Handlers, Sent(h) \/ Partial(h) \/ Completed(h) \/ Declined(h) \/ Fail(h)
      PROVE Order'
  <2>1. Return(h) /\ UNCHANGED <<people, docs>>
    BY <1>2 DEF Sent, Partial, Completed, Declined, Fail
  <2>2. SeenStands'
    BY <1>a, <2>1, Returns, OrderMoves DEF people
  <2>3. SealedBySigners'
    BY <1>2, <2>1 DEF Sent, Partial, Completed, Declined, Fail, people, Order,
                      SealedBySigners, SeenStands
  <2> QED
    BY <2>1, <2>2, <2>3 DEF people, Order, ActsInOrder
<1>3. ASSUME Cancel \/ Expires PROVE Order'
  BY <1>3 DEF Cancel, Expires, people, Order, ActsInOrder, SeenStands, SealedBySigners
<1>4. ASSUME NEW s \in Signers, Open(s) PROVE Order'
  BY <1>4, <1>a DEF Open, TypeOK, Order, ActsInOrder, SeenStands, SealedBySigners
<1>5. ASSUME NEW s \in Signers, ProvideConsent(s) PROVE Order'
  BY <1>5 DEF ProvideConsent, Order, ActsInOrder, SeenStands, SealedBySigners
<1>6. ASSUME NEW s \in Signers, OtpExpires(s) PROVE Order'
  <2>1. \A t \in Signers : otp'[t].no = otp[t].no
    BY <1>6, <1>a DEF OtpExpires, TypeOK, Challenge
  <2> QED
    BY <1>6, <2>1 DEF OtpExpires, Order, ActsInOrder, SeenStands, SealedBySigners
<1>7. ASSUME NEW h \in Handlers, NEW s \in Signers, RequestOtp(h, s) PROVE Order'
  <2>1. Start(h, "otp_sent", s, 0) /\ "otp_sent" \in Pc /\ 0 \in 0 .. MaxCodes
    BY <1>7, EsignAssumption DEF RequestOtp, Pc
  <2>2. SeenStands'
    <3>1. pc'[h] = "otp_sent" /\ \A g \in Handlers \ {h} : pc'[g] = pc[g] /\ loc'[g] = loc[g]
      BY <1>a, <2>1, Starts
    <3>2. QED
      BY <1>7, <3>1, OrderMoves DEF RequestOtp
  <2>3. s \in consented /\ \A t \in Signers \ {s} : otp'[t] = otp[t]
    BY <1>7, <1>a DEF RequestOtp, TypeOK
  <2> QED
    BY <1>7, <2>2, <2>3 DEF RequestOtp, Order, ActsInOrder, SealedBySigners
<1>8. ASSUME NEW h \in Handlers, OtpSent(h) PROVE Order'
  <2>1. SeenStands'
    BY <1>8, <1>a, Returns, OrderMoves DEF OtpSent
  <2> QED
    BY <1>8, <1>a, <2>1 DEF OtpSent, TypeOK, Order, ActsInOrder, SealedBySigners
<1>9. ASSUME NEW h \in Handlers, NEW s \in Signers, BeginVerify(h, s) PROVE Order'
  <2>1. Start(h, "attempt", s, otp[s].no) /\ "attempt" \in Pc /\ otp[s].no \in 0 .. MaxCodes
        /\ s \in consented
    BY <1>9, <1>a DEF BeginVerify, Active, Pc, TypeOK, Challenge, Order, ActsInOrder
  <2>2. SeenStands'
    <3>1. /\ pc'[h] = "attempt" /\ loc'[h] = [who |-> s, no |-> otp[s].no]
          /\ \A g \in Handlers \ {h} : pc'[g] = pc[g] /\ loc'[g] = loc[g]
      BY <1>a, <2>1, Starts
    <3> QED
      BY <1>9, <2>1, <3>1 DEF BeginVerify, people, Order, SeenStands
  <2> QED
    BY <1>9, <2>2 DEF BeginVerify, people, Order, ActsInOrder, SealedBySigners
<1>10. ASSUME NEW h \in Handlers, CountAttempt(h) PROVE Order'
  <2>1. loc[h].who \in Signers
    BY <1>10, <1>a DEF CountAttempt, Named
  <2>2. \A t \in Signers : otp'[t].no = otp[t].no
    BY <1>10, <1>a, <2>1 DEF CountAttempt, TypeOK, Challenge
  <2>3. ASSUME Goto(h, "verify") PROVE SeenStands'
    <3>1. "verify" \in Pc
      BY DEF Pc
    <3> QED
      BY <1>10, <1>a, <2>3, <3>1, Goes DEF CountAttempt, Order, SeenStands
  <2>4. ASSUME Return(h) PROVE SeenStands'
    BY <1>10, <1>a, <2>4, Returns, OrderMoves DEF CountAttempt
  <2>5. SeenStands'
    BY <1>10, <2>2, <2>3, <2>4 DEF CountAttempt, Order
  <2> QED
    BY <1>10, <2>2, <2>5 DEF CountAttempt, Order, ActsInOrder, SealedBySigners
<1>11. ASSUME NEW h \in Handlers, Verified(h) PROVE Order'
  <2>1. loc[h].who \in Signers /\ loc[h].who \in consented
    BY <1>11, <1>a DEF Verified, Named, Order, SeenStands
  <2>2. \A t \in Signers : otp'[t].no = otp[t].no
    BY <1>11, <1>a, <2>1 DEF Verified, TypeOK, Challenge
  <2>3. Goto(h, "otp_verified") /\ "otp_verified" \in Pc
    BY <1>11 DEF Verified, Pc
  <2>4. SeenStands'
    BY <1>11, <1>a, <2>3, Goes DEF Verified, Order, SeenStands
  <2> QED
    BY <1>11, <2>1, <2>2, <2>4 DEF Verified, Order, ActsInOrder, SealedBySigners
<1>12. ASSUME NEW h \in Handlers, OtpVerified(h) PROVE Order'
  <2>1. SeenStands'
    BY <1>12, <1>a, Returns, OrderMoves DEF OtpVerified
  <2>2. loc[h].who \in proved
    BY <1>12 DEF OtpVerified, Order, SeenStands
  <2> QED
    BY <1>12, <1>a, <2>1, <2>2 DEF OtpVerified, TypeOK, Order, ActsInOrder, SealedBySigners
<1>13. ASSUME NEW h \in Handlers, NEW s \in Signers, BeginSign(h, s) PROVE Order'
  <2>1. s \in proved
    BY <1>13 DEF BeginSign, MaySign, Order, ActsInOrder
  <2>2. SeenStands'
    <3>1. Start(h, "sign", s, 0) /\ "sign" \in Pc /\ 0 \in 0 .. MaxCodes
      BY <1>13, EsignAssumption DEF BeginSign, Pc
    <3>2. /\ pc'[h] = "sign" /\ loc'[h] = [who |-> s, no |-> 0]
          /\ \A g \in Handlers \ {h} : pc'[g] = pc[g] /\ loc'[g] = loc[g]
      BY <1>a, <3>1, Starts
    <3> QED
      BY <1>13, <2>1, <3>2 DEF BeginSign, people, Order, SeenStands
  <2> QED
    BY <1>13, <2>2 DEF BeginSign, people, Order, ActsInOrder, SealedBySigners
<1>14. ASSUME NEW h \in Handlers, Signed(h) PROVE Order'
  <2>1. Goto(h, "count") /\ "count" \in Pc /\ loc[h].who \in Signers /\ loc[h].who \in proved
    BY <1>14, <1>a DEF Signed, Pc, Named, Order, SeenStands
  <2>2. signedAt = Signers => signedAt' = Signers
    BY <1>14, <2>1 DEF Signed
  <2>3. SeenStands'
    BY <1>14, <1>a, <2>1, <2>2, Goes DEF Signed, Order, SeenStands
  <2> QED
    BY <1>14, <1>a, <2>1, <2>2, <2>3 DEF Signed, TypeOK, Order, ActsInOrder, SealedBySigners
<1>15. ASSUME NEW h \in Handlers, CountRemaining(h) PROVE Order'
  <2>1. Remaining = {} => signedAt = Signers
    BY <1>a DEF Remaining, TypeOK, Order, ActsInOrder
  <2>2. \E l \in {"store", "partial"} : Goto(h, l) /\ (l = "store" => signedAt = Signers)
    BY <1>15, <2>1 DEF CountRemaining
  <2>3. SeenStands'
    BY <1>15, <1>a, <2>2, Goes DEF CountRemaining, people, Pc, Order, SeenStands
  <2> QED
    BY <1>15, <2>3 DEF CountRemaining, people, Order, ActsInOrder, SealedBySigners
<1>16. ASSUME NEW h \in Handlers, StoreDocument(h) PROVE Order'
  <2>1. Goto(h, "complete") /\ "complete" \in Pc /\ signedAt = Signers
    BY <1>16 DEF StoreDocument, Pc, Order, SeenStands
  <2>2. SeenStands'
    BY <1>16, <1>a, <2>1, Goes DEF StoreDocument, people, Order, SeenStands
  <2> QED
    BY <1>16, <2>1, <2>2 DEF StoreDocument, people, Order, ActsInOrder, SealedBySigners
<1>17. ASSUME NEW h \in Handlers, NEW s \in Signers, BeginDecline(h, s) PROVE Order'
  <2>1. Start(h, "decline", s, 0) /\ "decline" \in Pc /\ 0 \in 0 .. MaxCodes
    BY <1>17, EsignAssumption DEF BeginDecline, Pc
  <2>2. SeenStands'
    <3>1. pc'[h] = "decline" /\ \A g \in Handlers \ {h} : pc'[g] = pc[g] /\ loc'[g] = loc[g]
      BY <1>a, <2>1, Starts
    <3>2. QED
      BY <1>17, <3>1, OrderMoves DEF BeginDecline
  <2> QED
    BY <1>17, <1>a, <2>2 DEF BeginDecline, TypeOK, Order, ActsInOrder, SealedBySigners
<1>18. CASE UNCHANGED vars
  BY <1>18 DEF vars, people, Order, ActsInOrder, SeenStands, SealedBySigners
<1>19. QED
  BY <1>1, <1>2, <1>3, <1>4, <1>5, <1>6, <1>7, <1>8, <1>9, <1>10, <1>11, <1>12, <1>13,
     <1>14, <1>15, <1>16, <1>17, <1>18 DEF Next, Request, Work

-----------------------------------------------------------------------------
(* What holds as long as no signatures overlapped *)

Counting == {"count", "partial", "store", "complete"}

Alone == ~raced =>
    /\ \A g, h \in Handlers : pc[g] \in Counting /\ pc[h] \in Counting => g = h
    /\ \A h \in Handlers : pc[h] \in Counting => status # "completed"
    /\ \A h \in Handlers : docs > 0 /\ pc[h] \in Counting => pc[h] = "complete"
    /\ docs <= 1

LEMMA InitAlone == Init => Alone
  BY DEF Init, Alone, Counting

\* Handlers that count nothing come and go.
LEMMA AloneMoves ==
    ASSUME Alone, UNCHANGED <<raced, docs>>, status' = status \/ status' # "completed",
           \A g \in Handlers : pc'[g] = pc[g] \/ pc'[g] \notin Counting
    PROVE  Alone'
  BY DEF Alone, Counting

LEMMA NextAlone == Typed /\ Order /\ Alone /\ [Next]_vars => Alone'
<1> SUFFICES ASSUME Typed, Order, Alone, [Next]_vars PROVE Alone'
  OBVIOUS
<1>a. TypeOK /\ Named
  BY DEF Typed
<1>1. ASSUME NEW h \in Handlers, Request(h) PROVE Alone'
  <2>1. /\ UNCHANGED <<raced, docs, status>>
        /\ \A g \in Handlers : pc'[g] = pc[g] \/ pc'[g] \in {"send", "otp_sent", "attempt", "sign", "decline"}
    BY <1>1, <1>a DEF Request, BeginSend, RequestOtp, BeginVerify, BeginSign, BeginDecline, Start, TypeOK
  <2> QED
    BY <2>1, AloneMoves DEF Counting
<1>2. ASSUME NEW h \in Handlers, OtpSent(h) \/ OtpVerified(h) \/ Fail(h) \/ CountAttempt(h) \/ Verified(h)
      PROVE  Alone'
  <2>1. /\ UNCHANGED <<raced, docs, status>>
        /\ \A g \in Handlers : pc'[g] = pc[g] \/ pc'[g] \in {"idle", "verify", "otp_verified"}
    BY <1>2, <1>a DEF OtpSent, OtpVerified, Fail, CountAttempt, Verified, Goto, Return, TypeOK
  <2> QED
    BY <2>1, AloneMoves DEF Counting
<1>3. ASSUME NEW h \in Handlers, Sent(h) PROVE Alone'
  BY <1>3, <1>a, Returns DEF Sent, Alone, Counting
<1>4. ASSUME NEW h \in Handlers, Partial(h) \/ Declined(h) PROVE Alone'
  <2>1. /\ UNCHANGED <<raced, docs>> /\ status' # "completed"
        /\ \A g \in Handlers : pc'[g] = pc[g] \/ pc'[g] = "idle"
    BY <1>4, <1>a, Returns DEF Partial, Declined
  <2> QED
    BY <2>1, AloneMoves DEF Counting
<1>5. ASSUME NEW h \in Handlers, Signed(h) PROVE Alone'
  <2>1. loc[h].who \in Signers /\ Goto(h, "count") /\ "count" \in Pc
    BY <1>5, <1>a DEF Signed, Named, Pc
  <2>2. ~raced' => /\ ~raced /\ loc[h].who \notin signedAt
                   /\ \A g \in Handlers : pc[g] \notin Counting
    BY <1>5 DEF Signed, Counting
  <2>3. ~raced' => status # "completed" /\ ~(docs > 0)
    BY <2>1, <2>2 DEF Order, SealedBySigners
  <2>4. pc'[h] = "count" /\ \A g \in Handlers \ {h} : pc'[g] = pc[g]
    BY <1>a, <2>1, Goes
  <2> QED
    BY <1>5, <2>2, <2>3, <2>4 DEF Signed, Alone, Counting
<1>6. ASSUME NEW h \in Handlers, CountRemaining(h) PROVE Alone'
  <2>1. \E l \in {"store", "partial"} : Goto(h, l)
    BY <1>6 DEF CountRemaining
  <2>2. pc'[h] \in {"store", "partial"} /\ \A g \in Handlers \ {h} : pc'[g] = pc[g]
    BY <1>a, <2>1, Goes DEF Pc
  <2> QED
    BY <1>6, <2>2 DEF CountRemaining, Alone, Counting
<1>7. ASSUME NEW h \in Handlers, StoreDocument(h) PROVE Alone'
  <2>1. Goto(h, "complete") /\ "complete" \in Pc
    BY <1>7 DEF StoreDocument, Pc
  <2>2. pc'[h] = "complete" /\ \A g \in Handlers \ {h} : pc'[g] = pc[g]
    BY <1>a, <2>1, Goes
  <2> QED
    BY <1>7, <1>a, <2>2 DEF StoreDocument, TypeOK, Alone, Counting
<1>8. ASSUME NEW h \in Handlers, Completed(h) PROVE Alone'
  BY <1>8, <1>a, Returns DEF Completed, Alone, Counting
<1>9. ASSUME Cancel \/ Expires \/ \E s \in Signers : Open(s) \/ ProvideConsent(s) \/ OtpExpires(s)
      PROVE  Alone'
  BY <1>9, AloneMoves DEF Cancel, Expires, Open, ProvideConsent, OtpExpires
<1>10. CASE UNCHANGED vars
  BY <1>10, AloneMoves DEF vars
<1>11. QED
  BY <1>1, <1>2, <1>3, <1>4, <1>5, <1>6, <1>7, <1>8, <1>9, <1>10 DEF Next, Work

LEMMA StepCompletion == Typed /\ Order /\ Alone /\ [Next]_vars =>
                          [status = "completed" => status' \in {"completed", "declined"} \/ raced']_vars
<1> SUFFICES ASSUME Typed, Alone, Next, status = "completed"
             PROVE  status' \in {"completed", "declined"} \/ raced'
  BY DEF vars
<1>1. ASSUME NEW h \in Handlers, Request(h) \/ Work(h) \/ Fail(h)
      PROVE  status' \in {"completed", "declined"} \/ raced'
  <2>1. CASE Sent(h)
    BY <2>1 DEF Sent
  <2>2. CASE Partial(h)
    BY <2>2 DEF Partial, Alone, Counting
  <2>3. CASE Declined(h) \/ Completed(h)
    BY <2>3 DEF Declined, Completed
  <2>4. CASE Request(h) \/ Fail(h)
    BY <2>4 DEF Request, BeginSend, RequestOtp, BeginVerify, BeginSign, BeginDecline, Fail
  <2>5. CASE OtpSent(h) \/ CountAttempt(h) \/ Verified(h) \/ OtpVerified(h) \/ Signed(h)
               \/ CountRemaining(h) \/ StoreDocument(h)
    BY <2>5 DEF OtpSent, CountAttempt, Verified, OtpVerified, Signed, CountRemaining, StoreDocument
  <2> QED
    BY <1>1, <2>1, <2>2, <2>3, <2>4, <2>5 DEF Work
<1>2. ASSUME Cancel \/ Expires \/ \E s \in Signers : Open(s) \/ ProvideConsent(s) \/ OtpExpires(s)
      PROVE  status' \in {"completed", "declined"}
  BY <1>2 DEF Cancel, Expires, Open, ProvideConsent, OtpExpires
<1>3. QED
  BY <1>1, <1>2 DEF Next

-----------------------------------------------------------------------------
(* The signed document is made or under way *)

LEMMA InitSeal == Init => SealIsUnderWay
  BY EsignAssumption DEF Init, SealIsUnderWay, Remaining

LEMMA NextSeal == Typed /\ SealIsUnderWay /\ [Next]_vars => SealIsUnderWay'
<1> SUFFICES ASSUME Typed, SealIsUnderWay, [Next]_vars PROVE SealIsUnderWay'
  OBVIOUS
<1>a. TypeOK /\ Named
  BY DEF Typed
\* The signer stays as they are and the handlers that count go on.
<1>b. ASSUME UNCHANGED <<signer, docs, faults>>,
             \A g \in Handlers : pc[g] \in {"count", "store"} => pc'[g] = pc[g]
      PROVE  SealIsUnderWay'
  BY <1>b DEF SealIsUnderWay, Remaining
\* A signer who has not signed remains.
<1>c. ASSUME NEW s \in Signers, signer'[s] # "signed" PROVE SealIsUnderWay'
  BY <1>c DEF SealIsUnderWay, Remaining
<1>1. ASSUME NEW h \in Handlers, BeginSend(h) PROVE SealIsUnderWay'
  BY <1>1, <1>a, <1>b DEF BeginSend, Start, people, TypeOK
<1>2. ASSUME NEW h \in Handlers, Sent(h) \/ Partial(h) \/ Completed(h) \/ Declined(h)
      PROVE  SealIsUnderWay'
  BY <1>2, <1>a, <1>b, Returns DEF Sent, Partial, Completed, Declined, people
<1>3. ASSUME NEW h \in Handlers, NEW s \in Signers, RequestOtp(h, s) \/ BeginVerify(h, s) \/ BeginSign(h, s)
      PROVE  SealIsUnderWay'
  BY <1>3, <1>a, <1>b DEF RequestOtp, BeginVerify, BeginSign, Start, people, TypeOK
<1>4. ASSUME NEW h \in Handlers, NEW s \in Signers, BeginDecline(h, s) PROVE SealIsUnderWay'
  BY <1>4, <1>a, <1>c DEF BeginDecline, TypeOK
<1>5. ASSUME NEW h \in Handlers, OtpSent(h) \/ OtpVerified(h) PROVE SealIsUnderWay'
  BY <1>5, <1>a, <1>c DEF OtpSent, OtpVerified, TypeOK, Named
<1>6. ASSUME NEW h \in Handlers, CountAttempt(h) \/ Verified(h) PROVE SealIsUnderWay'
  BY <1>6, <1>a, <1>b DEF CountAttempt, Verified, Goto, Return, TypeOK
<1>7. ASSUME NEW h \in Handlers, Signed(h) PROVE SealIsUnderWay'
  BY <1>7, <1>a DEF Signed, Goto, TypeOK, SealIsUnderWay
<1>8. ASSUME NEW h \in Handlers, CountRemaining(h) PROVE SealIsUnderWay'
  BY <1>8, <1>a DEF CountRemaining, Goto, people, TypeOK, SealIsUnderWay, Remaining
<1>9. ASSUME NEW h \in Handlers, StoreDocument(h) PROVE SealIsUnderWay'
  BY <1>9, <1>a DEF StoreDocument, TypeOK, SealIsUnderWay
<1>10. ASSUME NEW h \in Handlers, Fail(h) PROVE SealIsUnderWay'
  BY <1>10, <1>a DEF Fail, TypeOK, SealIsUnderWay
<1>11. ASSUME Cancel \/ Expires \/ \E s \in Signers : ProvideConsent(s) \/ OtpExpires(s)
      PROVE  SealIsUnderWay'
  BY <1>11, <1>b DEF Cancel, Expires, ProvideConsent, OtpExpires, people
<1>12. ASSUME NEW s \in Signers, Open(s) PROVE SealIsUnderWay'
  BY <1>12, <1>a, <1>c DEF Open, TypeOK
<1>13. CASE UNCHANGED vars
  BY <1>13, <1>b DEF vars, people
<1>14. QED
  BY <1>1, <1>2, <1>3, <1>4, <1>5, <1>6, <1>7, <1>8, <1>9, <1>10, <1>11, <1>12, <1>13
     DEF Next, Request, Work

-----------------------------------------------------------------------------
(* Attempts *)

LEMMA TryingFinite ==
    ASSUME NEW s \in Signers
    PROVE  /\ IsFiniteSet(Trying(s)) /\ Cardinality(Trying(s)) \in Nat
           /\ Cardinality(Trying(s)) <= Cardinality(Handlers) /\ Cardinality(Handlers) \in Nat
<1>1. Trying(s) \subseteq Handlers /\ IsFiniteSet(Handlers)
  BY EsignAssumption DEF Trying
<1>2. QED
  BY <1>1, FS_Subset, FS_CardinalityType

LEMMA TryingFiniteNext ==
    ASSUME NEW s \in Signers
    PROVE  /\ IsFiniteSet(Trying(s)') /\ Cardinality(Trying(s)') \in Nat
           /\ Cardinality(Trying(s)') <= Cardinality(Handlers) /\ Cardinality(Handlers) \in Nat
<1>1. Trying(s)' \subseteq Handlers /\ IsFiniteSet(Handlers)
  BY EsignAssumption DEF Trying
<1>2. QED
  BY <1>1, FS_Subset, FS_CardinalityType

BoundedFor(s) ==
    otp[s].attempts + Cardinality(Trying(s)) <= OTP_MAX_ATTEMPTS + Cardinality(Handlers) - 1

\* Nothing is tried, and no request joins those that will.
LEMMA TryingShrinks ==
    ASSUME TypeOK, NEW s \in Signers, BoundedFor(s), TypeOK',
           otp'[s].no = otp[s].no, otp'[s].attempts = otp[s].attempts,
           \A g \in Handlers : pc'[g] = "attempt" => pc[g] = "attempt" /\ loc'[g] = loc[g]
    PROVE  BoundedFor(s)'
<1>1. Trying(s)' \subseteq Trying(s)
  BY DEF Trying
<1>2. Cardinality(Trying(s)') <= Cardinality(Trying(s))
  BY <1>1, TryingFinite, FS_Subset
<1>3. otp[s].attempts \in Nat /\ OTP_MAX_ATTEMPTS \in Nat
  BY EsignAssumption DEF TypeOK, Challenge
<1>4. QED
  BY <1>2, <1>3, TryingFinite, TryingFiniteNext DEF BoundedFor

LEMMA NextAttempts == Typed /\ AttemptsBounded /\ [Next]_vars => AttemptsBounded'
<1> SUFFICES ASSUME Typed, AttemptsBounded, [Next]_vars, NEW s \in Signers
             PROVE  BoundedFor(s)'
  BY DEF AttemptsBounded, BoundedFor
<1>a. TypeOK /\ Named /\ Numbered /\ TypeOK' /\ BoundedFor(s)
  BY NextTyped DEF Typed, AttemptsBounded, BoundedFor
<1>b. OTP_MAX_ATTEMPTS \in Nat /\ OTP_MAX_ATTEMPTS > 0 /\ otp[s].attempts \in Nat
  BY <1>a, EsignAssumption DEF TypeOK, Challenge
<1>c. ASSUME UNCHANGED otp, \A g \in Handlers : pc'[g] = "attempt" => pc[g] = "attempt" /\ loc'[g] = loc[g]
      PROVE  BoundedFor(s)'
  BY <1>a, <1>c, TryingShrinks
<1>1. ASSUME NEW h \in Handlers, BeginSend(h) PROVE BoundedFor(s)'
  BY <1>1, <1>a, <1>c DEF BeginSend, Start, people, TypeOK
<1>2. ASSUME NEW h \in Handlers, NEW t \in Signers, BeginSign(h, t) \/ BeginDecline(h, t)
      PROVE BoundedFor(s)'
  BY <1>2, <1>a, <1>c DEF BeginSign, BeginDecline, Start, people, TypeOK
<1>3. ASSUME NEW h \in Handlers, Sent(h) \/ OtpSent(h) \/ OtpVerified(h) \/ Partial(h)
                                  \/ Completed(h) \/ Declined(h) \/ Fail(h)
      PROVE BoundedFor(s)'
  <2>1. Return(h) /\ UNCHANGED otp
    BY <1>3 DEF Sent, OtpSent, OtpVerified, Partial, Completed, Declined, Fail, people
  <2> QED
    BY <1>a, <1>c, <2>1, Returns
<1>4. ASSUME NEW h \in Handlers, Signed(h) \/ CountRemaining(h) \/ StoreDocument(h)
      PROVE BoundedFor(s)'
  BY <1>4, <1>a, <1>c DEF Signed, CountRemaining, StoreDocument, Goto, people, TypeOK
<1>5. ASSUME NEW h \in Handlers, Verified(h) PROVE BoundedFor(s)'
  <2>1. otp'[s].no = otp[s].no /\ otp'[s].attempts = otp[s].attempts
    BY <1>5, <1>a DEF Verified, TypeOK, Challenge, Named
  <2>2. \A g \in Handlers : pc'[g] = "attempt" => pc[g] = "attempt" /\ loc'[g] = loc[g]
    BY <1>5, <1>a DEF Verified, Goto, TypeOK
  <2> QED
    BY <1>a, <2>1, <2>2, TryingShrinks
<1>6. ASSUME NEW h \in Handlers, CountAttempt(h) PROVE BoundedFor(s)'
  <2>1. /\ pc'[h] # "attempt"
        /\ \A g \in Handlers : pc'[g] = "attempt" => pc[g] = "attempt" /\ loc'[g] = loc[g]
    BY <1>6, <1>a DEF CountAttempt, Goto, Return, TypeOK
  <2>2. CASE Latest(h) /\ loc[h].who = s
    <3>1. otp'[s].no = otp[s].no /\ otp'[s].attempts = otp[s].attempts + 1
      BY <1>6, <1>a, <2>2 DEF CountAttempt, TypeOK, Challenge
    <3>2. h \in Trying(s)
      BY <1>6, <1>a, <2>2 DEF CountAttempt, Latest, Trying, TypeOK, Loc
    <3>3. Trying(s)' \subseteq Trying(s) \ {h}
      BY <2>1, <3>1 DEF Trying
    <3>4. Cardinality(Trying(s)') <= Cardinality(Trying(s)) - 1
      <4>1. /\ IsFiniteSet(Trying(s) \ {h})
            /\ Cardinality(Trying(s) \ {h}) = Cardinality(Trying(s)) - 1
        BY <3>2, TryingFinite, FS_RemoveElement
      <4>2. Cardinality(Trying(s)') <= Cardinality(Trying(s) \ {h})
        BY <3>3, <4>1, FS_Subset
      <4> QED
        BY <4>1, <4>2
    <3> QED
      BY <1>a, <1>b, <3>1, <3>4, TryingFinite, TryingFiniteNext DEF BoundedFor
  <2>3. CASE ~(Latest(h) /\ loc[h].who = s)
    <3>1. otp'[s].no = otp[s].no /\ otp'[s].attempts = otp[s].attempts
      BY <1>6, <1>a, <2>3 DEF CountAttempt, TypeOK, Challenge, Named
    <3> QED
      BY <1>a, <2>1, <3>1, TryingShrinks
  <2> QED
    BY <2>2, <2>3
<1>7. ASSUME NEW h \in Handlers, NEW t \in Signers, BeginVerify(h, t) PROVE BoundedFor(s)'
  <2>1. otp[t].attempts < OTP_MAX_ATTEMPTS /\ UNCHANGED otp
    BY <1>7 DEF BeginVerify, Active, people
  <2>2. CASE t = s
    BY <1>b, <2>1, <2>2, TryingFiniteNext DEF BoundedFor
  <2>3. CASE t # s
    <3>1. Trying(s)' \subseteq Trying(s)
      <4>1. /\ loc'[h] = [who |-> t, no |-> otp[t].no]
            /\ \A g \in Handlers \ {h} : pc'[g] = pc[g] /\ loc'[g] = loc[g]
        BY <1>7, <1>a DEF BeginVerify, Start, TypeOK
      <4> QED
        BY <2>1, <2>3, <4>1 DEF Trying
    <3>2. Cardinality(Trying(s)') <= Cardinality(Trying(s))
      BY <3>1, TryingFinite, FS_Subset
    <3> QED
      BY <1>a, <1>b, <2>1, <3>2, TryingFinite, TryingFiniteNext DEF BoundedFor
  <2> QED
    BY <2>2, <2>3
<1>8. ASSUME NEW h \in Handlers, NEW t \in Signers, RequestOtp(h, t) PROVE BoundedFor(s)'
  <2>1. \A g \in Handlers : pc'[g] = "attempt" => pc[g] = "attempt" /\ loc'[g] = loc[g]
    BY <1>8, <1>a DEF RequestOtp, Start, TypeOK
  <2>2. CASE t = s
    <3>1. otp'[s].no = codes + 1 /\ otp'[s].attempts = 0
      BY <1>8, <1>a, <2>2 DEF RequestOtp, Inserted, NoChallenge, TypeOK
    <3>2. \A g \in Handlers : loc[g].no <= codes /\ loc[g].no \in Nat /\ codes \in Nat
      BY <1>a, EsignAssumption DEF Named, TypeOK, Loc
    <3>3. Trying(s)' = {}
      BY <2>1, <3>1, <3>2 DEF Trying
    <3>4. Cardinality(Trying(s)') = 0
      BY <3>3, FS_EmptySet
    <3> QED
      BY <1>b, <3>1, <3>4, TryingFiniteNext DEF BoundedFor
  <2>3. CASE t # s
    <3>1. otp'[s] = otp[s]
      BY <1>8, <1>a, <2>3 DEF RequestOtp, TypeOK
    <3> QED
      BY <1>a, <2>1, <3>1, TryingShrinks
  <2> QED
    BY <2>2, <2>3
<1>9. ASSUME NEW t \in Signers, OtpExpires(t) PROVE BoundedFor(s)'
  <2>1. otp'[s].no = otp[s].no /\ otp'[s].attempts = otp[s].attempts
    BY <1>9, <1>a DEF OtpExpires, TypeOK, Challenge
  <2> QED
    BY <1>9, <1>a, <2>1, TryingShrinks DEF OtpExpires
<1>10. ASSUME Cancel \/ Expires \/ \E t \in Signers : Open(t) \/ ProvideConsent(t)
       PROVE  BoundedFor(s)'
  BY <1>10, <1>c DEF Cancel, Expires, Open, ProvideConsent, people
<1>11. CASE UNCHANGED vars
  BY <1>11, <1>c DEF vars, people
<1>12. QED
  BY <1>1, <1>2, <1>3, <1>4, <1>5, <1>6, <1>7, <1>8, <1>9, <1>10, <1>11
     DEF Next, Request, Work

LEMMA InitAttempts == Init => AttemptsBounded
<1> SUFFICES ASSUME Init, NEW s \in Signers PROVE BoundedFor(s)
  BY DEF AttemptsBounded, BoundedFor
<1>1. otp[s].attempts = 0 /\ OTP_MAX_ATTEMPTS \in Nat /\ OTP_MAX_ATTEMPTS > 0
  BY EsignAssumption DEF Init, NoChallenge
<1>2. Trying(s) = {}
  BY DEF Init, Trying
<1>3. Cardinality(Trying(s)) = 0
  BY <1>2, FS_EmptySet
<1>4. QED
  BY <1>1, <1>3, TryingFinite DEF BoundedFor

-----------------------------------------------------------------------------
(* The promise *)

LEMMA StutterStages ==
    ASSUME UNCHANGED <<consented, proved, signedAt, docs>>
    PROVE  UNCHANGED <<stages, docs > 0>>
  BY DEF stages, Stage

LEMMA InitPromise == Init => Promise!Init
<1> SUFFICES ASSUME Init PROVE Promise!Init
  OBVIOUS
<1>1. stages = [s \in Signers |-> 1]
  BY DEF Init, stages, Stage
<1>2. (docs > 0) = FALSE
  BY DEF Init
<1>3. QED
  BY <1>1, <1>2 DEF Promise!Init

\* One more signer has come to one more stage, and the rest is as it was.
LEMMA Advances ==
    ASSUME NEW s \in Signers, UNCHANGED docs, Stage(s)' = Stage(s) + 1, Stage(s) < 4,
           \A t \in Signers \ {s} : Stage(t)' = Stage(t)
    PROVE  Promise!Next
<1>1. stages' = [stages EXCEPT ![s] = @ + 1] /\ stages[s] < 4
  BY DEF stages
<1>2. UNCHANGED (docs > 0)
  OBVIOUS
<1>3. Promise!Advance(s)
  BY <1>1, <1>2 DEF Promise!Advance
<1>4. QED
  BY <1>3 DEF Promise!Next

LEMMA NextPromise == Typed /\ Order /\ [Next]_vars => [Promise!Next]_<<stages, docs > 0>>
<1> SUFFICES ASSUME Typed, Order, [Next]_vars PROVE [Promise!Next]_<<stages, docs > 0>>
  OBVIOUS
<1>a. TypeOK /\ Named /\ proved \subseteq consented /\ signedAt \subseteq proved
  BY DEF Typed, Order, ActsInOrder
<1>1. ASSUME NEW s \in Signers, ProvideConsent(s) PROVE [Promise!Next]_<<stages, docs > 0>>
  <2>1. CASE s \in consented
    <3>1. UNCHANGED <<consented, proved, signedAt, docs>>
      BY <1>1, <2>1 DEF ProvideConsent
    <3> QED
      BY <3>1, StutterStages
  <2>2. CASE s \notin consented
    <3>1. /\ UNCHANGED docs /\ Stage(s) = 1 /\ Stage(s)' = 2
          /\ \A t \in Signers \ {s} : Stage(t)' = Stage(t)
      BY <1>1, <1>a, <2>2 DEF ProvideConsent, Stage
    <3> QED
      BY <3>1, Advances
  <2> QED
    BY <2>1, <2>2
<1>2. ASSUME NEW h \in Handlers, Verified(h) PROVE [Promise!Next]_<<stages, docs > 0>>
  <2>1. PICK s \in Signers : s = loc[h].who
    BY <1>2, <1>a DEF Verified, Named
  <2>2. s \in consented /\ proved' = proved \cup {s}
    BY <1>2, <2>1 DEF Verified, Order, SeenStands
  <2>3. CASE s \in proved
    <3>1. UNCHANGED <<consented, proved, signedAt, docs>>
      BY <1>2, <2>2, <2>3 DEF Verified
    <3> QED
      BY <3>1, StutterStages
  <2>4. CASE s \notin proved
    <3>1. /\ UNCHANGED docs /\ Stage(s) = 2 /\ Stage(s)' = 3
          /\ \A t \in Signers \ {s} : Stage(t)' = Stage(t)
      BY <1>2, <1>a, <2>2, <2>4 DEF Verified, Stage
    <3> QED
      BY <3>1, Advances
  <2> QED
    BY <2>3, <2>4
<1>3. ASSUME NEW h \in Handlers, Signed(h) PROVE [Promise!Next]_<<stages, docs > 0>>
  <2>1. PICK s \in Signers : s = loc[h].who
    BY <1>3, <1>a DEF Signed, Named
  <2>2. s \in proved /\ signedAt' = signedAt \cup {s}
    BY <1>3, <2>1 DEF Signed, Order, SeenStands
  <2>3. CASE s \in signedAt
    <3>1. UNCHANGED <<consented, proved, signedAt, docs>>
      BY <1>3, <2>2, <2>3 DEF Signed
    <3> QED
      BY <3>1, StutterStages
  <2>4. CASE s \notin signedAt
    <3>1. /\ UNCHANGED docs /\ Stage(s) = 3 /\ Stage(s)' = 4
          /\ \A t \in Signers \ {s} : Stage(t)' = Stage(t)
      BY <1>3, <1>a, <2>2, <2>4 DEF Signed, Stage
    <3> QED
      BY <3>1, Advances
  <2> QED
    BY <2>3, <2>4
<1>4. ASSUME NEW h \in Handlers, StoreDocument(h) PROVE [Promise!Next]_<<stages, docs > 0>>
  <2>1. signedAt = Signers
    BY <1>4 DEF StoreDocument, Order, SeenStands
  <2>2. \A s \in Signers : Promise!Stages[stages[s]] = "signed"
    BY <2>1 DEF stages, Stage, Promise!Stages
  <2>3. (docs > 0)' = TRUE /\ UNCHANGED stages
    BY <1>4, <1>a DEF StoreDocument, people, stages, Stage, TypeOK
  <2> QED
    BY <2>2, <2>3 DEF Promise!Next, Promise!Seal
<1>5. ASSUME NEW h \in Handlers,
             BeginSend(h) \/ Sent(h) \/ OtpSent(h) \/ CountAttempt(h) \/ OtpVerified(h)
             \/ CountRemaining(h) \/ Partial(h) \/ Completed(h) \/ Declined(h) \/ Fail(h)
      PROVE [Promise!Next]_<<stages, docs > 0>>
  <2>1. UNCHANGED <<consented, proved, signedAt, docs>>
    BY <1>5 DEF BeginSend, Sent, OtpSent, CountAttempt, OtpVerified, CountRemaining,
                Partial, Completed, Declined, Fail, people
  <2> QED
    BY <2>1, StutterStages
<1>6. ASSUME NEW h \in Handlers, NEW s \in Signers,
             RequestOtp(h, s) \/ BeginVerify(h, s) \/ BeginSign(h, s) \/ BeginDecline(h, s)
      PROVE [Promise!Next]_<<stages, docs > 0>>
  <2>1. UNCHANGED <<consented, proved, signedAt, docs>>
    BY <1>6 DEF RequestOtp, BeginVerify, BeginSign, BeginDecline, people
  <2> QED
    BY <2>1, StutterStages
<1>7. ASSUME Cancel \/ Expires \/ \E s \in Signers : Open(s) \/ OtpExpires(s)
      PROVE [Promise!Next]_<<stages, docs > 0>>
  <2>1. UNCHANGED <<consented, proved, signedAt, docs>>
    BY <1>7 DEF Cancel, Expires, Open, OtpExpires, people
  <2> QED
    BY <2>1, StutterStages
<1>8. CASE UNCHANGED vars
  <2>1. UNCHANGED <<consented, proved, signedAt, docs>>
    BY <1>8 DEF vars, people
  <2> QED
    BY <2>1, StutterStages
<1>9. QED
  BY <1>1, <1>2, <1>3, <1>4, <1>5, <1>6, <1>7, <1>8 DEF Next, Request, Work

-----------------------------------------------------------------------------
(* The theorems *)

IInv == Typed /\ Order /\ Alone

LEMMA IInvHolds == Spec => []IInv
<1>1. Init => IInv
  BY InitTyped, InitOrder, InitAlone DEF IInv
<1>2. IInv /\ [Next]_vars => IInv'
  BY NextTyped, NextOrder, NextAlone DEF IInv
<1>3. QED
  BY <1>1, <1>2, PTL DEF Spec

\* Every variable keeps its type; a challenge is verified only after an
\* attempt on it was counted (verifyOtp).
THEOREM TypeCorrect == Spec => []TypeOK
<1>1. IInv => TypeOK
  BY DEF IInv, Typed
<1>2. QED
  BY <1>1, IInvHolds, PTL

\* The limit on a code is exceeded by less than the requests that can run at
\* the same time, although it is compared with a count read earlier (verifyOtp).
THEOREM AttemptsLimited == Spec => []AttemptsBounded
<1>1. IInv /\ AttemptsBounded /\ [Next]_vars => AttemptsBounded'
  BY NextAttempts DEF IInv
<1>2. QED
  BY <1>1, IInvHolds, InitAttempts, PTL DEF Spec

\* A second signed document needs signatures that overlapped (sign, complete).
THEOREM DocumentMadeOnce == Spec => []OneDocument
<1>1. IInv => OneDocument
  BY DEF IInv, Typed, TypeOK, Alone, OneDocument
<1>2. QED
  BY <1>1, IInvHolds, PTL

\* The last signature always finds that it is the last (sign).
THEOREM SealFollows == Spec => []SealIsUnderWay
<1>1. IInv /\ SealIsUnderWay /\ [Next]_vars => SealIsUnderWay'
  BY NextSeal DEF IInv
<1>2. QED
  BY <1>1, IInvHolds, InitSeal, PTL DEF Spec

\* Without overlapping signatures nothing but a refusal takes the completion
\* back (sign, cancel, decline).
THEOREM CompletedStays == Spec => CompletionStands
<1>1. IInv /\ [Next]_vars => [status = "completed" => status' \in {"completed", "declined"} \/ raced']_vars
  BY StepCompletion DEF IInv
<1>2. QED
  BY <1>1, IInvHolds, PTL DEF Spec, CompletionStands

\* The service implements the promise: consent, proof of the mailbox,
\* signature, in this order for every signer, and no document before all.
THEOREM Implements == Spec => PromiseKept
<1>1. IInv /\ [Next]_vars => [Promise!Next]_<<stages, docs > 0>>
  BY NextPromise DEF IInv
<1>2. QED
  BY <1>1, IInvHolds, InitPromise, PTL DEF Spec, PromiseKept, Promise!Spec

\* A document that is there, or a request that is shown as completed, has the
\* signature of every signer, each given with consent and a proved mailbox,
\* whatever overlapped or failed on the way (provideConsent, verifyOtp, sign,
\* complete).  The promise speaks of the document only.
THEOREM EveryoneSigned ==
  Spec => [](docs > 0 \/ status = "completed"
                 => signedAt = Signers /\ proved = Signers /\ consented = Signers)
<1>1. IInv => (docs > 0 \/ status = "completed"
                   => signedAt = Signers /\ proved = Signers /\ consented = Signers)
  BY DEF IInv, Typed, TypeOK, Order, ActsInOrder, SealedBySigners
<1>2. QED
  BY <1>1, IInvHolds, PTL

=============================================================================
