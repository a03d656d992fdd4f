------------------------------- MODULE Gateway -------------------------------
(***************************************************************************)
(* The execution gateway (src/backend/src/gateway): the key-holding        *)
(* service that signs and broadcasts FAK orders, Polygon pUSD transfers,   *)
(* Jupiter swaps and the Solana USDC split of a withdrawal.  Every request *)
(* carries an idempotency key; the signed payload is journaled under that  *)
(* key before it leaves the process, and a retry replays the journal.      *)
(*                                                                         *)
(* Calls are concurrent HTTP requests.  A call can end at any await: an    *)
(* RPC error, a refused signature, a timeout or a crash of the process;    *)
(* the caller then sends the same request again.  The two chains are       *)
(* external: a broadcast transaction may be dropped, replaced by one of    *)
(* the same nonce, included, reorganised out, reverted, or expire.         *)
(*                                                                         *)
(* Amounts, fees, signer policy and the shape of a message are abstracted: *)
(* a check on them that fails is one more way for a call to end.           *)
(***************************************************************************)
EXTENDS Integers, FiniteSetsExt

CONSTANTS
    Calls,       \* slots of concurrent HTTP requests
    Keys,        \* idempotency keys, one per external effect
    Contents,    \* what a request hash covers
    Receipts,    \* finalized bridge receipts on the settlement account
    KindOf,      \* the endpoint a key belongs to
    ContentsOf,  \* the contents callers send under a key
    SourcesOf,   \* the swap signatures and receipts a split's content names
    MaxSigned,   \* bound: signatures made
    None

Kinds == {"fak_order", "pusd_transfer", "solana_split", "jupiter_swap"}

\* The payloads signed for a key, in the order they were signed, which also stand
\* for the signatures and hashes of their transactions.
Ids == Keys \X (1 .. MaxSigned)
Nothing == <<None, 0>>
Sources == Ids \cup Receipts
Claimants == Keys \X Contents
Rows == [content : Contents, payload : Ids, reference : Ids \cup {Nothing},
         state : {"prepared", "submitted", "finalized"}]

ASSUME GatewayAssumption ==
    /\ KindOf \in [Keys -> Kinds]
    /\ ContentsOf \in [Keys -> SUBSET Contents]
    /\ SourcesOf \in [Contents -> SUBSET Sources]
    /\ MaxSigned \in Nat
    /\ None \notin Keys \cup Contents
    /\ None \notin Claimants \cup Rows

VARIABLES
    requests,   \* execution_gateway_requests, by request_key
    claims,     \* execution_gateway_capital_source_claims, by source
    chain,      \* where the transaction of each payload stands
    nonce,      \* the account nonce signed into a transfer
    released,   \* the payloads that left the gateway
    call        \* the HTTP requests being served

vars == <<requests, claims, chain, nonce, released, call>>

Idle == [pc |-> "idle", key |-> None, content |-> None, seen |-> "none",
         payload |-> Nothing, reference |-> Nothing]

Stages == {"idle", "locking", "signed", "prepared", "claimed", "sending",
           "waiting", "executing", "submitting", "finalizing"}
Serving == [pc : Stages, key : Keys \cup {None}, content : Contents \cup {None},
            seen : {"none", "open", "finalized"}, payload : Ids \cup {Nothing},
            reference : Ids \cup {Nothing}]

Included == {"included", "final", "reverted"}
Settled == {"final", "reverted"}
Statuses == Included \cup {"unsigned", "offchain", "pending", "expired"}

TypeOK ==
    /\ requests \in [Keys -> {None} \cup Rows]
    /\ claims \in [Sources -> {None} \cup Claimants]
    /\ chain \in [Ids -> Statuses]
    /\ nonce \in [Ids -> 0 .. MaxSigned]
    /\ released \subseteq Ids
    /\ call \in [Calls -> Serving]

Init ==
    /\ requests = [k \in Keys |-> None]
    /\ claims = [s \in Sources |-> None]
    /\ chain = [i \in Ids |-> "unsigned"]
    /\ nonce = [i \in Ids |-> 0]
    /\ released = {}
    /\ call = [c \in Calls |-> Idle]

At(c, stage, kind) == call[c].pc = stage /\ KindOf[call[c].key] = kind
To(c, stage) == call' = [call EXCEPT ![c].pc = stage]
\* A call is answered, or ends with an error: nothing of it is kept in memory.
Ends(c) == call' = [call EXCEPT ![c] = Idle]

Signed == {i \in Ids : chain[i] # "unsigned"}
Transfers == {i \in Signed : KindOf[i[1]] = "pusd_transfer"}
Rivals(i) == {j \in Transfers \ {i} : i \in Transfers /\ nonce[j] = nonce[i]}

-----------------------------------------------------------------------------
(* The journal: PostgresGatewayRequestStore.prepare                        *)

\* Every swap the request names is finalized in the gateway's own journal,
\* and its bridge receipt is final on Solana (findFinalizedByTransactionReference).
SourcesFinalized(content) ==
    \A s \in SourcesOf[content] \cap Ids :
        \E k \in Keys : /\ KindOf[k] = "jupiter_swap"
                        /\ requests[k] # None
                        /\ requests[k].reference = s
                        /\ requests[k].state = "finalized"

\* A request arrives.  The snapshot of its serializable transaction is taken
\* by the statement that waits for the advisory lock, before the lock is held.
Receive(c, k, content) ==
    /\ call[c].pc = "idle"
    /\ content \in ContentsOf[k]
    /\ KindOf[k] = "solana_split" => SourcesFinalized(content)
    /\ call' = [call EXCEPT ![c] =
           [pc |-> "locking", key |-> k, content |-> content,
            payload |-> Nothing, reference |-> Nothing,
            seen |-> IF requests[k] = None THEN "none"
                    ELSE IF requests[k].state = "finalized" THEN "finalized" ELSE "open"]]
    /\ UNCHANGED <<requests, claims, chain, nonce, released>>

HoldsLock(k) == \E c \in Calls : call[c].pc = "signed" /\ call[c].key = k

\* The row was there: it is replayed when the content is the same.  A row with
\* other content ends the call ("reused with different content").
Replay(c) ==
    /\ call[c].pc = "locking"
    /\ ~HoldsLock(call[c].key)
    /\ call[c].seen # "none"
    /\ requests[call[c].key].content = call[c].content
    /\ call' = [call EXCEPT ![c].pc = "prepared",
                            ![c].payload = requests[call[c].key].payload,
                            ![c].reference = requests[call[c].key].reference]
    /\ UNCHANGED <<requests, claims, chain, nonce, released>>

\* The pending transaction count of the execution wallet.
UsedNonces == {nonce[i] : i \in {j \in Transfers : chain[j] \in Included \cup {"pending"}}}
PendingNonce(n) == n \notin UsedNonces /\ \A m \in 0 .. n - 1 : m \in UsedNonces

\* build() knows the hash of a transfer and the signature of a split; that of a
\* swap is what Jupiter will report.
ReferenceOf(i) ==
    IF KindOf[i[1]] \in {"pusd_transfer", "solana_split"} THEN i ELSE Nothing

\* build(): the transaction is made of what the chain says now and signed,
\* inside the journal's transaction and not yet journaled.
Sign(c) ==
    /\ call[c].pc = "locking"
    /\ ~HoldsLock(call[c].key)
    /\ call[c].seen = "none"
    /\ Cardinality(Signed) < MaxSigned
    /\ \E i \in Ids, n \in 0 .. MaxSigned :
           /\ i[1] = call[c].key
           /\ i \notin Signed /\ \A m \in 1 .. i[2] - 1 : <<i[1], m>> \in Signed
           /\ IF KindOf[i[1]] = "pusd_transfer" THEN PendingNonce(n) ELSE n = 0
           /\ chain' = [chain EXCEPT ![i] = "offchain"]
           /\ nonce' = [nonce EXCEPT ![i] = n]
           /\ call' = [call EXCEPT ![c].pc = "signed", ![c].payload = i,
                                   ![c].reference = ReferenceOf(i)]
    /\ UNCHANGED <<requests, claims, released>>

\* The INSERT commits unless the key has a row by now: request_key is the primary
\* key, and a call that loses this race ends with an error.
\* (mutant: ON CONFLICT DO UPDATE)
Unjournaled_Upserts(k) == TRUE
Unjournaled(k) == requests[k] = None

\* (mutant: the row is inserted before the payload is built)
Journal_BeforeSigning(c) ==
    LET k == call[c].key IN
    /\ call[c].pc \in {"locking", "signed"}
    /\ Unjournaled(k)
    /\ requests' = [requests EXCEPT ![k] = [content |-> call[c].content,
                       payload |-> call[c].payload, reference |-> call[c].reference,
                       state |-> "prepared"]]
    /\ To(c, "prepared")
    /\ UNCHANGED <<claims, chain, nonce, released>>

\* The signed payload is committed to the journal, and prepare() returns it.
Journal(c) ==
    LET k == call[c].key IN
    /\ call[c].pc = "signed"
    /\ Unjournaled(k)
    /\ requests' = [requests EXCEPT ![k] = [content |-> call[c].content,
                       payload |-> call[c].payload, reference |-> call[c].reference,
                       state |-> "prepared"]]
    /\ To(c, "prepared")
    /\ UNCHANGED <<claims, chain, nonce, released>>

\* The journal as prepare() returned it to this call.
ReplayedFinal(c) == call[c].seen = "finalized"

\* A journaled result answers the call without touching the chain.
AnswerFinalized(c) ==
    /\ \/ call[c].pc = "prepared" /\ KindOf[call[c].key] \in {"pusd_transfer", "jupiter_swap"}
       \/ At(c, "claimed", "solana_split")
    /\ ReplayedFinal(c)
    /\ Ends(c)
    /\ UNCHANGED <<requests, claims, chain, nonce, released>>

\* The UPDATE finds the row only while it names no other transaction; a conflict
\* ends the call with an error.
SameReference(k, reference) == requests[k].reference \in {Nothing, reference}

\* markSubmitted never takes a row back from finalized.
markSubmitted(k, reference) ==
    /\ SameReference(k, reference)
    /\ requests' = [requests EXCEPT
           ![k].state = IF @ = "prepared" THEN "submitted" ELSE @,
           ![k].reference = IF @ = Nothing THEN reference ELSE @]

\* markFinalized, and the answer to the caller.  A second, differing result of
\* the same request is refused by the UPDATE and ends the call too.
MarkFinalized(c) ==
    /\ call[c].pc = "finalizing"
    /\ SameReference(call[c].key, call[c].reference)
    /\ requests' = [requests EXCEPT ![call[c].key].state = "finalized",
                                    ![call[c].key].reference = call[c].reference]
    /\ Ends(c)
    /\ UNCHANGED <<claims, chain, nonce, released>>

\* A call ends: an RPC or signer error, a timeout, a failed check, a crash.
Fail(c) ==
    /\ call[c].pc # "idle"
    /\ Ends(c)
    /\ UNCHANGED <<requests, claims, chain, nonce, released>>

-----------------------------------------------------------------------------
(* signFakOrder: the journaled body goes to the caller, with fresh headers *)

ReturnOrder(c) ==
    /\ At(c, "prepared", "fak_order")
    /\ released' = released \cup {call[c].payload}
    /\ Ends(c)
    /\ UNCHANGED <<requests, claims, chain, nonce>>

-----------------------------------------------------------------------------
(* transferPusd                                                            *)

\* The finalized receipt of the journaled hash: success goes on, a revert ends
\* the call.
TransferFound(c) ==
    /\ At(c, "prepared", "pusd_transfer")
    /\ ~ReplayedFinal(c)
    /\ chain[call[c].payload] = "final"
    /\ To(c, "finalizing")
    /\ UNCHANGED <<requests, claims, chain, nonce, released>>

TransferMissing(c) ==
    /\ At(c, "prepared", "pusd_transfer")
    /\ ~ReplayedFinal(c)
    /\ chain[call[c].payload] \notin Settled
    /\ To(c, "sending")
    /\ UNCHANGED <<requests, claims, chain, nonce, released>>

\* sendRawTransaction is accepted: a pending transaction of the same nonce is
\* replaced.  markSubmitted follows at once in the handler's next await.
SendTransfer(c) ==
    LET i == call[c].payload IN
    /\ At(c, "sending", "pusd_transfer")
    /\ \A j \in Rivals(i) : chain[j] \notin Included
    /\ released' = released \cup {i}
    /\ chain' = [j \in Ids |->
           IF j = i /\ chain[j] = "offchain" THEN "pending"
           ELSE IF j \in Rivals(i) /\ chain[j] = "pending" THEN "offchain" ELSE chain[j]]
    /\ To(c, "submitting")
    /\ UNCHANGED <<requests, claims, nonce>>

\* The node refuses the transaction (already known, nonce too low): the receipt
\* is read once more, and the call ends when there is none.
SendRefused(c) ==
    /\ At(c, "sending", "pusd_transfer")
    /\ chain[call[c].payload] = "final"
    /\ To(c, "submitting")
    /\ UNCHANGED <<requests, claims, chain, nonce, released>>

MarkSubmitted(c) ==
    /\ call[c].pc = "submitting"
    /\ markSubmitted(call[c].key, call[c].reference)
    /\ To(c, IF KindOf[call[c].key] = "jupiter_swap" THEN "finalizing" ELSE "waiting")
    /\ UNCHANGED <<claims, chain, nonce, released>>

\* waitForTransactionReceipt follows a replacement: it resolves with the receipt
\* of whichever transaction of the wallet took the nonce.
WaitTransfer(c) ==
    LET i == call[c].payload IN
    /\ At(c, "waiting", "pusd_transfer")
    /\ \E j \in Rivals(i) \cup {i} : chain[j] = "final"
    /\ To(c, "finalizing")
    /\ UNCHANGED <<requests, claims, chain, nonce, released>>

-----------------------------------------------------------------------------
(* executeExactIn                                                          *)

\* POST /execute with the journaled order: Jupiter broadcasts it, and a replay
\* of the same requestId is the same transaction.
SubmitSwap(c) ==
    LET i == call[c].payload IN
    /\ At(c, "prepared", "jupiter_swap")
    /\ ~ReplayedFinal(c)
    /\ released' = released \cup {i}
    /\ chain' = [chain EXCEPT ![i] = IF @ = "offchain" THEN "pending" ELSE @]
    /\ To(c, "executing")
    /\ UNCHANGED <<requests, claims, nonce>>

\* The transaction that Jupiter's success report names is final and traded for
\* the wallet.
SwapVerified(i) == chain[i] = "final"

\* Jupiter reports success and a signature.  What that names is verified; whether
\* it is the journaled transaction is not.
VerifySwap(c) ==
    /\ At(c, "executing", "jupiter_swap")
    /\ \E i \in Signed :
           /\ KindOf[i[1]] = "jupiter_swap"
           /\ SwapVerified(i)
           /\ call' = [call EXCEPT ![c].pc = "submitting", ![c].reference = i]
    /\ UNCHANGED <<requests, claims, chain, nonce, released>>

-----------------------------------------------------------------------------
(* splitSolanaUsdc                                                         *)

\* claimCapitalSources: all the sources in one transaction, each inserted
\* unless it has a row, which must be this request's.
\* (mutant: the row that was there is not compared)
MayClaim_Unchecked(c) == TRUE
MayClaim(c) ==
    \A s \in SourcesOf[call[c].content] :
        claims[s] \in {None, <<call[c].key, call[c].content>>}

Claim(c) ==
    /\ At(c, "prepared", "solana_split")
    /\ MayClaim(c)
    /\ claims' = [s \in Sources |->
           IF s \in SourcesOf[call[c].content]
           THEN <<call[c].key, call[c].content>> ELSE claims[s]]
    /\ To(c, "claimed")
    /\ UNCHANGED <<requests, chain, nonce, released>>

\* getSignatureStatuses knows the journaled signature: it has to be final.
\* (mutant: a confirmed split is taken for final)
SplitAccepted_Confirmed(i) == chain[i] \in {"included", "final"}
SplitAccepted(i) == chain[i] = "final"

SplitFound(c) ==
    /\ At(c, "claimed", "solana_split")
    /\ ~ReplayedFinal(c)
    /\ SplitAccepted(call[c].payload)
    /\ To(c, "finalizing")
    /\ UNCHANGED <<requests, claims, chain, nonce, released>>

\* It does not: the journaled bytes are sent, past the preflight that refuses
\* an expired blockhash.
SendSplit(c) ==
    LET i == call[c].payload IN
    /\ At(c, "claimed", "solana_split")
    /\ ~ReplayedFinal(c)
    /\ chain[i] \in {"offchain", "pending"}
    /\ released' = released \cup {i}
    /\ chain' = [chain EXCEPT ![i] = "pending"]
    /\ To(c, "submitting")
    /\ UNCHANGED <<requests, claims, nonce>>

\* confirmTransaction at "finalized": a failed transaction or a timeout ends
\* the call.
ConfirmSplit(c) ==
    /\ At(c, "waiting", "solana_split")
    /\ chain[call[c].payload] = "final"
    /\ To(c, "finalizing")
    /\ UNCHANGED <<requests, claims, chain, nonce, released>>

-----------------------------------------------------------------------------
(* The chains                                                              *)

Becomes(i, status) ==
    /\ chain' = [chain EXCEPT ![i] = status]
    /\ UNCHANGED <<requests, claims, nonce, released, call>>

\* A Polygon transaction is included in nonce order, one for each nonce.
InNonceOrder(i, done) ==
    i \in Transfers =>
        /\ \A j \in Rivals(i) : chain[j] \notin Included
        /\ \A n \in 0 .. nonce[i] - 1 :
               \E j \in Transfers : nonce[j] = n /\ chain[j] \in done

Include(i) ==
    /\ chain[i] = "pending"
    /\ InNonceOrder(i, Included)
    /\ chain' = [j \in Ids |->
           IF j = i THEN "included"
           ELSE IF j \in Rivals(i) /\ chain[j] = "pending" THEN "offchain" ELSE chain[j]]
    /\ UNCHANGED <<requests, claims, nonce, released, call>>

Finalize(i) ==
    /\ chain[i] = "included"
    /\ InNonceOrder(i, Settled)
    /\ \E status \in Settled : Becomes(i, status)

Reorganise(i) ==
    /\ chain[i] = "included"
    /\ \A j \in Transfers : i \in Transfers /\ nonce[j] > nonce[i]
                             => chain[j] \notin Included
    /\ Becomes(i, "pending")

Evict(i) == chain[i] = "pending" /\ Becomes(i, "offchain")

\* A Solana blockhash is valid for a minute or so, also for a transaction that
\* was signed and never sent.
Expire(i) ==
    /\ KindOf[i[1]] \in {"solana_split", "jupiter_swap"}
    /\ chain[i] \in {"offchain", "pending"}
    /\ Becomes(i, "expired")

Serve(c) ==
    \/ \E k \in Keys, content \in Contents : Receive(c, k, content)
    \/ Replay(c) \/ Sign(c) \/ Journal(c) \/ AnswerFinalized(c)
    \/ MarkSubmitted(c) \/ MarkFinalized(c) \/ Fail(c)
    \/ ReturnOrder(c)
    \/ TransferFound(c) \/ TransferMissing(c) \/ SendTransfer(c)
    \/ SendRefused(c) \/ WaitTransfer(c)
    \/ SubmitSwap(c) \/ VerifySwap(c)
    \/ Claim(c) \/ SplitFound(c) \/ SendSplit(c) \/ ConfirmSplit(c)

Chains ==
    \E i \in Signed : Include(i) \/ Finalize(i) \/ Reorganise(i) \/ Evict(i) \/ Expire(i)

Next == Chains \/ \E c \in Calls : Serve(c)

Spec == Init /\ [][Next]_vars

-----------------------------------------------------------------------------
(* Properties                                                              *)

\* At most one signed payload of a request ever leaves the gateway, however
\* many calls race or retry and whatever was signed again in between: a retry
\* cannot become a second order, transfer, swap or split.
OnePayloadPerRequest ==
    \A i, j \in released : i[1] = j[1] => i = j

\* A finalized bridge receipt or swap pays for one split only: two splits that
\* were broadcast under different keys name no source in common.
SplitsOut == {k \in Keys : KindOf[k] = "solana_split" /\ \E i \in released : i[1] = k}

SourcePaysOneSplit ==
    \A k, l \in SplitsOut :
        k # l => SourcesOf[requests[k].content] \cap SourcesOf[requests[l].content] = {}

\* The swap or split that the journal calls finalized is: the transaction that
\* its row names is final, whichever call recorded it and whatever another call
\* was told in the meantime.
FinalizedIsOnChain ==
    \A k \in Keys :
        (/\ requests[k] # None
         /\ requests[k].state = "finalized"
         /\ KindOf[k] # "pusd_transfer") => chain[requests[k].reference] = "final"
=============================================================================
