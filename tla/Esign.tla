------------------------------- MODULE Esign --------------------------------
(***************************************************************************)
(* One signature request (esign.service.ts): the request, its signers, the *)
(* one-time codes mailed to them, and the signed document.                 *)
(*                                                                         *)
(* Every signer acts through a link of their own (esign.routes.ts), from   *)
(* as many windows as they like; the firm sends and cancels.  A handler is *)
(* one HTTP request and takes one step per statement, so handlers          *)
(* interleave where the code awaits.  A request that is one statement is   *)
(* one action and needs no handler.                                        *)
(***************************************************************************)
EXTENDS Naturals, FiniteSets

CONSTANTS
    Signers,
    Nobody,            \* the signer of a request made by the firm
    Handlers,          \* requests that can run at the same time
    OTP_MAX_ATTEMPTS,  \* 5
    MaxCodes,          \* bound: codes mailed
    MaxFaults          \* bound: crashes and storage failures

\* create refuses a request without signers.
ASSUME EsignAssumption ==
    /\ Signers # {} /\ Nobody \notin Signers /\ IsFiniteSet(Handlers)
    /\ OTP_MAX_ATTEMPTS \in Nat \ {0} /\ MaxCodes \in Nat /\ MaxFaults \in Nat

VARIABLES
    status,    \* esign_requests.status
    links,     \* the signing links: not mailed, usable, or past expires_at
    signer,    \* esign_signers.status
    consented, \* signers with consent_at
    codes,     \* rows of esign_otp_challenges
    otp,       \* each signer's latest one
    proved,    \* signers with a challenge that has verified_at
    signedAt,  \* signers with signed_at
    docs,      \* signed documents made
    pc, loc,   \* where each handler stands, and for whom
    raced,     \* history: requests overlapped, or a signer signed again
    faults

people == <<signer, consented, codes, otp, proved, signedAt>>
vars == <<status, links, people, docs, pc, loc, raced, faults>>

-----------------------------------------------------------------------------
Status == {"draft", "sent", "partially_signed", "completed", "declined", "cancelled"}
SignerStatus == {"pending", "viewed", "otp_sent", "otp_verified", "signed", "declined"}

\* no: its number, 0 for none; only a code that was tried is verified.
Challenge ==
    {c \in [no : 0 .. MaxCodes, attempts : Nat, verified : BOOLEAN, expired : BOOLEAN] :
        c.verified => c.attempts > 0}
NoChallenge == [no |-> 0, attempts |-> 0, verified |-> FALSE, expired |-> FALSE]
Inserted_Upsert(no, previous) == [NoChallenge EXCEPT !.no = no, !.verified = previous.verified]  \* mutant: one row per signer, written over

\* The insert of a new one; attempts and verified_at have defaults.
Inserted(no, previous) == [NoChallenge EXCEPT !.no = no]

\* who: the signer of the link; no: the challenge this handler has read.
Loc == [who : Signers \cup {Nobody}, no : 0 .. MaxCodes]
NoLoc == [who |-> Nobody, no |-> 0]
Pc == {"idle", "send", "otp_sent", "attempt", "verify", "otp_verified",
       "sign", "count", "partial", "store", "complete", "decline"}

\* create: the request and its signers, in one transaction.
Init ==
    /\ status = "draft" /\ links = "none"
    /\ consented = {} /\ proved = {} /\ signedAt = {}
    /\ signer = [s \in Signers |-> "pending"]
    /\ otp = [s \in Signers |-> NoChallenge] /\ codes = 0
    /\ docs = 0
    /\ pc = [h \in Handlers |-> "idle"] /\ loc = [h \in Handlers |-> NoLoc]
    /\ raced = FALSE /\ faults = 0

Goto(h, l) == pc' = [pc EXCEPT ![h] = l] /\ UNCHANGED loc
Start(h, l, who, no) ==
    /\ pc[h] = "idle"
    /\ pc' = [pc EXCEPT ![h] = l]
    /\ loc' = [loc EXCEPT ![h] = [who |-> who, no |-> no]]
Return(h) == pc' = [pc EXCEPT ![h] = "idle"] /\ loc' = [loc EXCEPT ![h] = NoLoc]

\* resolveToken.  A signer whose mail is lost is one who does not act.
Resolves == links = "sent"

-----------------------------------------------------------------------------
(* The firm *)

BeginSend(h) ==
    /\ status = "draft"
    /\ Start(h, "send", Nobody, 0)
    /\ UNCHANGED <<status, links, people, docs, raced, faults>>

Sent(h) ==
    /\ pc[h] = "send"
    /\ status' = "sent"
    /\ links' = IF links = "none" THEN "sent" ELSE links
    /\ raced' = (raced \/ status # "draft")
    /\ Return(h)
    /\ UNCHANGED <<people, docs, faults>>

Cancel_Late ==  \* mutant: a completed request can be cancelled
    /\ status # "cancelled"
    /\ status' = "cancelled"
    /\ UNCHANGED <<links, people, docs, pc, loc, raced, faults>>

Cancel ==
    /\ status \notin {"completed", "cancelled"}
    /\ status' = "cancelled"
    /\ UNCHANGED <<links, people, docs, pc, loc, raced, faults>>

-----------------------------------------------------------------------------
(* A signer up to the signature *)

Open(s) ==
    /\ Resolves /\ signer[s] = "pending"
    /\ signer' = [signer EXCEPT ![s] = "viewed"]
    /\ UNCHANGED <<status, links, consented, codes, otp, proved, signedAt,
                   docs, pc, loc, raced, faults>>

ProvideConsent(s) ==
    /\ Resolves
    /\ consented' = consented \cup {s}
    /\ UNCHANGED <<status, links, signer, codes, otp, proved, signedAt,
                   docs, pc, loc, raced, faults>>

RequestOtp(h, s) ==
    /\ Resolves /\ s \in consented /\ codes < MaxCodes
    /\ Start(h, "otp_sent", s, 0)
    /\ codes' = codes + 1
    /\ otp' = [otp EXCEPT ![s] = Inserted(codes', @)]
    /\ UNCHANGED <<status, links, signer, consented, proved, signedAt,
                   docs, raced, faults>>

\* The signer's status is set after the mail, whatever it has become.
OtpSent(h) ==
    /\ pc[h] = "otp_sent"
    /\ signer' = [signer EXCEPT ![loc[h].who] = "otp_sent"]
    /\ Return(h)
    /\ UNCHANGED <<status, links, consented, codes, otp, proved, signedAt,
                   docs, raced, faults>>

Active_NoLimit(c) == c.no > 0 /\ ~c.verified /\ ~c.expired  \* mutant: attempts are not limited

\* The challenge can still be tried.
Active(c) ==
    /\ c.no > 0 /\ ~c.verified
    /\ ~c.expired /\ c.attempts < OTP_MAX_ATTEMPTS

\* The expiry of a code that could not be tried anyway changes nothing.
OtpExpires(s) ==
    /\ Active(otp[s])
    /\ otp' = [otp EXCEPT ![s].expired = TRUE]
    /\ UNCHANGED <<status, links, signer, consented, codes, proved, signedAt,
                   docs, pc, loc, raced, faults>>

BeginVerify(h, s) ==
    /\ Resolves /\ Active(otp[s])
    /\ Start(h, "attempt", s, otp[s].no)
    /\ UNCHANGED <<status, links, people, docs, raced, faults>>

\* A row that a newer code has replaced is never read again.
Latest(h) == otp[loc[h].who].no = loc[h].no

\* The attempt is counted before the code is compared.
CountAttempt(h) ==
    /\ pc[h] = "attempt"
    /\ otp' = IF Latest(h) THEN [otp EXCEPT ![loc[h].who].attempts = @ + 1] ELSE otp
    /\ \/ Goto(h, "verify")
       \/ Return(h)
    /\ UNCHANGED <<status, links, signer, consented, codes, proved, signedAt,
                   docs, raced, faults>>

Verified(h) ==
    /\ pc[h] = "verify"
    /\ otp' = IF Latest(h) THEN [otp EXCEPT ![loc[h].who].verified = TRUE] ELSE otp
    /\ proved' = proved \cup {loc[h].who}
    /\ Goto(h, "otp_verified")
    /\ UNCHANGED <<status, links, signer, consented, codes, signedAt,
                   docs, raced, faults>>

OtpVerified(h) ==
    /\ pc[h] = "otp_verified"
    /\ signer' = [signer EXCEPT ![loc[h].who] = "otp_verified"]
    /\ Return(h)
    /\ UNCHANGED <<status, links, consented, codes, otp, proved, signedAt,
                   docs, raced, faults>>

-----------------------------------------------------------------------------
(* The signature, and what the last one sets off *)

MaySign_Sent(s) == signer[s] \in {"otp_sent", "otp_verified"}  \* mutant: a code that was sent is enough

MaySign(s) == signer[s] = "otp_verified"

BeginSign(h, s) ==
    /\ Resolves /\ MaySign(s)
    /\ Start(h, "sign", s, 0)
    /\ UNCHANGED <<status, links, people, docs, raced, faults>>

\* raced: the count of another signature is under way, or this is not the
\* signer's first.
Signed(h) ==
    /\ pc[h] = "sign"
    /\ signer' = [signer EXCEPT ![loc[h].who] = "signed"]
    /\ signedAt' = signedAt \cup {loc[h].who}
    /\ raced' = (raced \/ loc[h].who \in signedAt
                       \/ \E g \in Handlers : pc[g] \in {"count", "partial", "store", "complete"})
    /\ Goto(h, "count")
    /\ UNCHANGED <<status, links, consented, codes, otp, proved, docs, faults>>

Remaining_OffByOne ==  \* mutant: one signer may be missing
    IF Cardinality({s \in Signers : signer[s] # "signed"}) <= 1 THEN {} ELSE Signers

Remaining == {s \in Signers : signer[s] # "signed"}

CountRemaining_PartialOnly(h) ==  \* mutant: only a partially signed request can complete
    /\ pc[h] = "count"
    /\ Goto(h, IF Remaining = {} /\ status = "partially_signed" THEN "store" ELSE "partial")
    /\ UNCHANGED <<status, links, people, docs, raced, faults>>

CountRemaining(h) ==
    /\ pc[h] = "count"
    /\ Goto(h, IF Remaining = {} THEN "store" ELSE "partial")
    /\ UNCHANGED <<status, links, people, docs, raced, faults>>

Partial(h) ==
    /\ pc[h] = "partial"
    /\ status' = "partially_signed"
    /\ Return(h)
    /\ UNCHANGED <<links, people, docs, raced, faults>>

\* complete: render, store, and make the document's row; then the request's.
StoreDocument(h) ==
    /\ pc[h] = "store"
    /\ docs' = docs + 1
    /\ Goto(h, "complete")
    /\ UNCHANGED <<status, links, people, raced, faults>>

Completed(h) ==
    /\ pc[h] = "complete"
    /\ status' = "completed"
    /\ Return(h)
    /\ UNCHANGED <<links, people, docs, raced, faults>>

-----------------------------------------------------------------------------
BeginDecline(h, s) ==
    /\ Resolves
    /\ Start(h, "decline", s, 0)
    /\ signer' = [signer EXCEPT ![s] = "declined"]
    /\ UNCHANGED <<status, links, consented, codes, otp, proved, signedAt,
                   docs, raced, faults>>

Declined(h) ==
    /\ pc[h] = "decline"
    /\ status' = "declined"
    /\ Return(h)
    /\ UNCHANGED <<links, people, docs, raced, faults>>

\* A process dies, or the storage or the database refuses the next step.
Fail(h) ==
    /\ pc[h] # "idle" /\ faults < MaxFaults
    /\ faults' = faults + 1
    /\ Return(h)
    /\ UNCHANGED <<status, links, people, docs, raced>>

Expires ==
    /\ links = "sent" /\ links' = "expired"
    /\ UNCHANGED <<status, people, docs, pc, loc, raced, faults>>

-----------------------------------------------------------------------------
Work(h) ==
    \/ Sent(h) \/ OtpSent(h) \/ CountAttempt(h) \/ Verified(h) \/ OtpVerified(h)
    \/ Signed(h) \/ CountRemaining(h) \/ Partial(h) \/ StoreDocument(h)
    \/ Completed(h) \/ Declined(h)

Request(h) ==
    \/ BeginSend(h)
    \/ \E s \in Signers :
          RequestOtp(h, s) \/ BeginVerify(h, s) \/ BeginSign(h, s) \/ BeginDecline(h, s)

Next ==
    \/ Cancel \/ Expires
    \/ \E s \in Signers : Open(s) \/ ProvideConsent(s) \/ OtpExpires(s)
    \/ \E h \in Handlers : Request(h) \/ Work(h) \/ Fail(h)

Spec == Init /\ [][Next]_vars

-----------------------------------------------------------------------------
(* Properties *)

TypeOK ==
    /\ status \in Status /\ links \in {"none", "sent", "expired"}
    /\ consented \subseteq Signers
    /\ proved \subseteq Signers /\ signedAt \subseteq Signers
    /\ signer \in [Signers -> SignerStatus]
    /\ codes \in 0 .. MaxCodes /\ otp \in [Signers -> Challenge]
    /\ docs \in Nat
    /\ pc \in [Handlers -> Pc] /\ loc \in [Handlers -> Loc]
    /\ raced \in BOOLEAN /\ faults \in 0 .. MaxFaults

\* The requests that have found the latest code of s fit to be tried.
Trying(s) ==
    {h \in Handlers : pc[h] = "attempt" /\ loc[h] = [who |-> s, no |-> otp[s].no]}

\* A code is tried OTP_MAX_ATTEMPTS times.  The limit is compared with a count
\* read earlier, so requests at the same time may each have one more: the
\* excess is never more than the requests that were under way together.
AttemptsBounded ==
    \A s \in Signers :
        otp[s].attempts + Cardinality(Trying(s)) <= OTP_MAX_ATTEMPTS + Cardinality(Handlers) - 1

\* One signed document per request, unless the last two signers signed at the
\* same time or somebody signed again after everybody had.
OneDocument == docs > 1 => raced

\* A request that is completed stays so, unless the signatures overlapped
\* or a signer declines what they have signed (decline looks at nothing).
CompletionStands ==
    [][status = "completed" => status' \in {"completed", "declined"} \/ raced']_vars

\* While all signers stand as signed, the signed document is made or one of
\* the signatures is about to make it, however they overlapped: the last one
\* always finds nobody remaining.  Only a step that fails leaves a request that
\* everybody signed and nothing completes.
SealIsUnderWay ==
    Remaining = {} =>
        docs > 0 \/ faults > 0 \/ \E h \in Handlers : pc[h] \in {"count", "store"}

\* The order of the acts and the all-signed condition hold whatever interleaves.
Stage(s) ==
    IF s \in signedAt THEN 4 ELSE IF s \in proved THEN 3
    ELSE IF s \in consented THEN 2 ELSE 1
stages == [s \in Signers |-> Stage(s)]
Promise == INSTANCE SignaturePromise WITH stage <- stages, sealed <- docs > 0
PromiseKept == Promise!Spec

=============================================================================
