---------------------------- MODULE GatewayProofs ----------------------------
(***************************************************************************)
(* Theorems about the execution gateway of module Gateway, for every set   *)
(* of concurrent calls, keys, contents and receipts.                       *)
(*                                                                         *)
(* The argument: what the stores hold only grows (GrowOnly), so what a     *)
(* call has read from the journal stays true while other calls run, and    *)
(* each call carries what it has established up to its next step (Knows).  *)
(***************************************************************************)
EXTENDS Gateway, TLAPS

-----------------------------------------------------------------------------
(* The inductive invariant                                                 *)

Journaled(k) == requests[k] # None

\* The transaction i that is reported of a swap or a split is final.
Landed(k, i) == KindOf[k] # "pusd_transfer" => i \in Ids /\ chain[i] = "final"

ClaimedBy(k, content) == \A s \in SourcesOf[content] : claims[s] = <<k, content>>

AfterJournal == Stages \ {"idle", "locking", "signed"}

\* What a call r has established by the stage it is in.
Knows(r) ==
    /\ r.pc # "idle" => r.key \in Keys /\ r.content \in Contents
    /\ r.pc = "locking" /\ r.seen # "none" => Journaled(r.key)
    /\ r.pc = "signed" =>
           /\ r.payload \in Ids /\ r.payload[1] = r.key
           /\ KindOf[r.key] = "solana_split" => r.reference = r.payload
    /\ r.pc \in AfterJournal =>
           /\ Journaled(r.key)
           /\ requests[r.key].payload = r.payload
           /\ requests[r.key].content = r.content
           /\ KindOf[r.key] = "solana_split" => r.reference = r.payload
    /\ r.pc \in {"claimed", "submitting", "waiting", "finalizing"}
         /\ KindOf[r.key] = "solana_split" => ClaimedBy(r.key, r.content)
    /\ r.pc = "submitting" /\ KindOf[r.key] = "jupiter_swap" => Landed(r.key, r.reference)
    /\ r.pc = "finalizing" => Landed(r.key, r.reference)

\* What the stores say of each other.
RowIsSound(k) ==
    Journaled(k) =>
        /\ requests[k].payload[1] = k
        /\ KindOf[k] = "solana_split" => requests[k].reference = requests[k].payload
        /\ requests[k].state = "finalized" => Landed(k, requests[k].reference)

ReleasedIsSound(i) ==
    /\ Journaled(i[1])
    /\ requests[i[1]].payload = i
    /\ KindOf[i[1]] = "solana_split" => ClaimedBy(i[1], requests[i[1]].content)

IInv ==
    /\ TypeOK
    /\ \A c \in Calls : Knows(call[c])
    /\ \A k \in Keys : RowIsSound(k)
    /\ \A i \in released : ReleasedIsSound(i)

-----------------------------------------------------------------------------
(* The stores only grow                                                    *)

RowsKept ==
    \A k \in Keys : requests[k] # None =>
        /\ requests'[k] # None
        /\ requests'[k].payload = requests[k].payload
        /\ requests'[k].content = requests[k].content

ClaimsKept == \A s \in Sources : claims[s] # None => claims'[s] = claims[s]

ChainKept ==
    \A i \in Ids : chain[i] # "unsigned" =>
        /\ chain'[i] # "unsigned"
        /\ nonce'[i] = nonce[i]
        /\ chain[i] = "final" => chain'[i] = "final"

GrowOnly == RowsKept /\ ClaimsKept /\ ChainKept

StoresSound == TypeOK /\ \A k \in Keys : RowIsSound(k)

\* The payload a call carries past the journal is a payload of its key.
LEMMA PayloadOfKey ==
  ASSUME StoresSound, NEW r \in Serving, Knows(r), r.pc \in AfterJournal
  PROVE  /\ r.key \in Keys /\ r.content \in Contents
         /\ requests[r.key] \in Rows
         /\ r.payload \in Ids /\ r.payload[1] = r.key
<1>1. r.key \in Keys /\ r.content \in Contents
  BY DEF Knows, AfterJournal
<1>2. requests[r.key] \in Rows
  BY <1>1 DEF Knows, StoresSound, TypeOK, Journaled
<1>3. QED
  BY <1>1, <1>2 DEF Knows, StoresSound, RowIsSound, Journaled, Rows

\* What has landed stays.
LEMMA LandedKept ==
  ASSUME ChainKept, NEW k \in Keys, NEW i, Landed(k, i)
  PROVE  Landed(k, i)'
  BY DEF Landed, ChainKept

\* A source once claimed stays with the split that claimed it.
LEMMA ClaimKept ==
  ASSUME ClaimsKept
  PROVE  \A k \in Keys, content \in Contents :
             ClaimedBy(k, content) => ClaimedBy(k, content)'
<1> SUFFICES ASSUME NEW k \in Keys, NEW content \in Contents, ClaimedBy(k, content)
             PROVE  ClaimedBy(k, content)'
  OBVIOUS
<1>1. <<k, content>> # None
  BY GatewayAssumption DEF Claimants
<1>2. SourcesOf[content] \subseteq Sources
  BY GatewayAssumption
<1>3. QED
  BY <1>1, <1>2 DEF ClaimedBy, ClaimsKept

\* What a call knows stays true while others move.
LEMMA KnowledgeKept ==
  ASSUME StoresSound, GrowOnly
  PROVE  \A r \in Serving : Knows(r) => Knows(r)'
<1> SUFFICES ASSUME NEW r \in Serving, Knows(r)
             PROVE  Knows(r)'
  OBVIOUS
<1>1. CASE r.pc \notin AfterJournal
  BY <1>1 DEF Knows, AfterJournal, Stages, Journaled, GrowOnly, RowsKept
<1>2. CASE r.pc \in AfterJournal
  <2>1. r.key \in Keys /\ r.content \in Contents /\ r.payload \in Ids
    BY <1>2, PayloadOfKey
  <2>2. Journaled(r.key)'
          /\ requests'[r.key].payload = r.payload
          /\ requests'[r.key].content = r.content
    BY <1>2, <2>1 DEF Knows, Journaled, GrowOnly, RowsKept
  <2>3. ClaimedBy(r.key, r.content) => ClaimedBy(r.key, r.content)'
    BY <2>1, ClaimKept DEF GrowOnly
  <2>4. Landed(r.key, r.reference) => Landed(r.key, r.reference)'
    BY <2>1, LandedKept DEF GrowOnly
  <2>5. QED
    BY <1>2, <2>1, <2>2, <2>3, <2>4 DEF Knows, AfterJournal
<1>3. QED
  BY <1>1, <1>2

\* So a step has to account only for what it moves itself.
LEMMA StepKeepsIInv ==
  ASSUME IInv, GrowOnly, TypeOK',
         \A d \in Calls : call'[d] = call[d] \/ \E s \in Serving : call'[d] = s /\ Knows(s)',
         \A k \in Keys : requests'[k] = requests[k] \/ RowIsSound(k)',
         \A i \in released' : i \in released \/ ReleasedIsSound(i)'
  PROVE  IInv'
<1>1. ASSUME NEW k \in Keys, requests'[k] = requests[k]
      PROVE  RowIsSound(k)'
  <2>1. RowIsSound(k) /\ TypeOK
    BY DEF IInv
  <2>2. Landed(k, requests[k].reference) => Landed(k, requests[k].reference)'
    BY <1>1, LandedKept DEF GrowOnly
  <2>3. QED
    BY <1>1, <2>1, <2>2 DEF RowIsSound, Journaled
<1>2. ASSUME NEW i \in released
      PROVE  ReleasedIsSound(i)'
  <2>1. ReleasedIsSound(i) /\ TypeOK
    BY <1>2 DEF IInv
  <2>2. i \in Ids /\ i[1] \in Keys
    BY <1>2, <2>1 DEF TypeOK, Ids
  <2>3. requests[i[1]].content \in Contents
    BY <2>1, <2>2 DEF TypeOK, ReleasedIsSound, Journaled, Rows
  <2>4. \A content \in Contents :
            ClaimedBy(i[1], content) => ClaimedBy(i[1], content)'
    BY <2>2, ClaimKept DEF GrowOnly
  <2>5. requests'[i[1]] # None /\ requests'[i[1]].payload = i
          /\ requests'[i[1]].content = requests[i[1]].content
    BY <2>1, <2>2 DEF ReleasedIsSound, Journaled, GrowOnly, RowsKept
  <2>6. QED
    BY <2>1, <2>3, <2>4, <2>5 DEF ReleasedIsSound, Journaled
<1>3. \A d \in Calls : Knows(call[d])'
  <2>1. SUFFICES ASSUME NEW d \in Calls PROVE Knows(call[d])'
    OBVIOUS
  <2>2. PICK r \in Serving : r = call'[d] /\ Knows(r)'
    <3>1. CASE call'[d] = call[d]
      BY <3>1, KnowledgeKept DEF IInv, StoresSound, TypeOK
    <3>2. QED
      BY <3>1
  <2>3. QED
    BY <2>2 DEF Knows
<1>4. QED
  BY <1>1, <1>2, <1>3 DEF IInv
-----------------------------------------------------------------------------
(* The steps of a call                                                     *)

stores == <<requests, claims, chain, nonce, released>>

\* A call that moves nothing but itself, to a record it knows the facts of.
LEMMA QuietStep ==
  ASSUME IInv, UNCHANGED stores, NEW c \in Calls, NEW r \in Serving, Knows(r),
         call' = [call EXCEPT ![c] = r]
  PROVE  IInv'
<1>1. GrowOnly
  BY DEF stores, GrowOnly, RowsKept, ClaimsKept, ChainKept
<1>2. TypeOK'
  BY DEF IInv, TypeOK, stores
<1>3. Knows(r)'
  BY <1>1, KnowledgeKept DEF IInv, StoresSound
<1>4. \A d \in Calls : call'[d] = call[d] \/ \E s \in Serving : call'[d] = s /\ Knows(s)'
  BY <1>3 DEF IInv, TypeOK
<1>5. QED
  BY <1>1, <1>2, <1>4, StepKeepsIInv DEF stores

\* The record of a call that is not idle, and what it knows of its payload.
LEMMA CallRecord ==
  ASSUME IInv, NEW c \in Calls
  PROVE  /\ call[c] \in Serving
         /\ Knows(call[c])
         /\ StoresSound
         /\ call[c].pc # "idle" => call[c].key \in Keys /\ call[c].content \in Contents
         /\ call[c].pc \in AfterJournal =>
                /\ requests[call[c].key] \in Rows
                /\ requests[call[c].key].payload = call[c].payload
                /\ requests[call[c].key].content = call[c].content
                /\ call[c].payload \in Ids
                /\ call[c].payload[1] = call[c].key
                /\ KindOf[call[c].key] = "solana_split" =>
                       call[c].reference = call[c].payload
<1>1. call[c] \in Serving /\ Knows(call[c]) /\ StoresSound
  BY DEF IInv, TypeOK, StoresSound
<1>2. QED
  BY <1>1, PayloadOfKey DEF Knows

LEMMA EndKeepsIInv ==
  ASSUME IInv, NEW c \in Calls, Ends(c), UNCHANGED stores
  PROVE  IInv'
<1>1. Idle \in Serving /\ Knows(Idle)
  BY DEF Idle, Serving, Stages, Knows, AfterJournal
<1>2. QED
  BY <1>1, QuietStep DEF Ends

LEMMA ReceiveKeepsIInv ==
  ASSUME IInv, NEW c \in Calls, NEW k \in Keys, NEW content \in Contents,
         Receive(c, k, content)
  PROVE  IInv'
<1> DEFINE r == [pc |-> "locking", key |-> k, content |-> content,
                 payload |-> Nothing, reference |-> Nothing,
                 seen |-> IF requests[k] = None THEN "none"
                          ELSE IF requests[k].state = "finalized" THEN "finalized"
                          ELSE "open"]
<1>1. r \in Serving
  BY DEF Serving, Stages
<1>2. Knows(r)
  BY DEF Knows, AfterJournal, Journaled
<1>3. call' = [call EXCEPT ![c] = r] /\ UNCHANGED stores
  BY DEF Receive, stores
<1>4. QED
  BY <1>1, <1>2, <1>3, QuietStep

LEMMA ReplayKeepsIInv ==
  ASSUME IInv, NEW c \in Calls, Replay(c)
  PROVE  IInv'
<1> DEFINE k == call[c].key
           r == [call[c] EXCEPT !.pc = "prepared", !.payload = requests[k].payload,
                                !.reference = requests[k].reference]
<1>1. call[c] \in Serving /\ Knows(call[c]) /\ k \in Keys /\ call[c].content \in Contents
  BY CallRecord DEF Replay
<1>2. requests[k] \in Rows /\ requests[k].content = call[c].content
  BY <1>1 DEF Replay, Knows, Journaled, IInv, TypeOK
<1>3. r \in Serving
  BY <1>1, <1>2 DEF Serving, Stages, Rows
<1>4. Knows(r)
  <2>1. RowIsSound(k)
    BY <1>1 DEF IInv
  <2>2. QED
    BY <1>1, <1>2, <2>1 DEF Replay, Knows, AfterJournal, Stages, Journaled, Serving, RowIsSound
<1>5. call' = [call EXCEPT ![c] = r] /\ UNCHANGED stores
  BY <1>1 DEF Replay, stores, IInv, TypeOK, Serving
<1>6. QED
  BY <1>3, <1>4, <1>5, QuietStep

\* A call past the journal goes on to a later stage with the same payload.
LEMMA OnwardKeepsIInv ==
  ASSUME IInv, NEW c \in Calls, NEW stage \in AfterJournal,
         call[c].pc \in AfterJournal, To(c, stage), UNCHANGED stores,
         stage \in {"claimed", "submitting", "waiting", "finalizing"}
           /\ KindOf[call[c].key] = "solana_split" =>
            call[c].pc \in {"claimed", "submitting", "waiting", "finalizing"},
         stage = "submitting" => KindOf[call[c].key] # "jupiter_swap",
         stage = "finalizing" => Landed(call[c].key, call[c].reference)
  PROVE  IInv'
<1> DEFINE r == [call[c] EXCEPT !.pc = stage]
<1>1. call[c] \in Serving /\ Knows(call[c])
  BY CallRecord
<1>2. r \in Serving
  BY <1>1 DEF Serving, AfterJournal
<1>3. /\ r.pc = stage /\ r.key = call[c].key /\ r.content = call[c].content
      /\ r.payload = call[c].payload /\ r.reference = call[c].reference
  BY <1>1 DEF Serving
<1> HIDE DEF r
<1>4. Knows(r)
  BY <1>1, <1>3 DEF Knows, AfterJournal
<1>5. call' = [call EXCEPT ![c] = r]
  BY <1>1 DEF To, r, IInv, TypeOK
<1>6. QED
  BY <1>2, <1>4, <1>5, QuietStep

\* The call goes on with the transaction that Jupiter reported, which is final.
LEMMA VerifySwapKeepsIInv ==
  ASSUME IInv, NEW c \in Calls, VerifySwap(c)
  PROVE  IInv'
<1>1. /\ call[c] \in Serving /\ Knows(call[c])
      /\ call[c].pc = "executing" /\ KindOf[call[c].key] = "jupiter_swap"
  BY CallRecord DEF VerifySwap, At
<1>2. PICK i \in Ids :
          /\ chain[i] = "final"
          /\ call' = [call EXCEPT ![c].pc = "submitting", ![c].reference = i]
  BY DEF VerifySwap, SwapVerified, Signed
<1>3. PICK r \in Serving : r = [call[c] EXCEPT !.pc = "submitting", !.reference = i]
  BY <1>1, <1>2 DEF Serving, Stages
<1>4. Knows(r)
  BY <1>1, <1>2, <1>3 DEF Knows, AfterJournal, Stages, Serving, Landed
<1>5. call' = [call EXCEPT ![c] = r] /\ UNCHANGED stores
  BY <1>1, <1>2, <1>3 DEF VerifySwap, stores, IInv, TypeOK
<1>6. QED
  BY <1>4, <1>5, QuietStep

\* The checks of the three handlers against their chain.
LEMMA CheckKeepsIInv ==
  ASSUME IInv, NEW c \in Calls,
         \/ TransferFound(c) \/ TransferMissing(c) \/ SendRefused(c) \/ WaitTransfer(c)
         \/ VerifySwap(c) \/ SplitFound(c) \/ ConfirmSplit(c)
  PROVE  IInv'
<1> USE DEF At, AfterJournal, Stages, stores
<1>1. CASE TransferFound(c)
  <2>1. Landed(call[c].key, call[c].reference)
    BY <1>1 DEF TransferFound, Landed
  <2>2. QED
    BY <1>1, <2>1, OnwardKeepsIInv DEF TransferFound
<1>2. CASE TransferMissing(c)
  BY <1>2, OnwardKeepsIInv DEF TransferMissing
<1>3. CASE SendRefused(c)
  BY <1>3, OnwardKeepsIInv DEF SendRefused
<1>4. CASE WaitTransfer(c)
  <2>1. Landed(call[c].key, call[c].reference)
    BY <1>4 DEF WaitTransfer, Landed
  <2>2. QED
    BY <1>4, <2>1, OnwardKeepsIInv DEF WaitTransfer
<1>5. CASE VerifySwap(c)
  BY <1>5, VerifySwapKeepsIInv
<1>6. CASE SplitFound(c)
  <2>1. Landed(call[c].key, call[c].reference)
    BY <1>6, CallRecord DEF SplitFound, SplitAccepted, Landed
  <2>2. QED
    BY <1>6, <2>1, OnwardKeepsIInv DEF SplitFound
<1>7. CASE ConfirmSplit(c)
  <2>1. Landed(call[c].key, call[c].reference)
    BY <1>7, CallRecord DEF ConfirmSplit, Landed
  <2>2. QED
    BY <1>7, <2>1, OnwardKeepsIInv DEF ConfirmSplit
<1>8. QED
  BY <1>1, <1>2, <1>3, <1>4, <1>5, <1>6, <1>7

\* A new payload is signed: nothing said of the payloads before it changes.
LEMMA SignKeepsIInv ==
  ASSUME IInv, NEW c \in Calls, Sign(c)
  PROVE  IInv'
<1>1. PICK i \in Ids, n \in 0 .. MaxSigned :
          /\ i[1] = call[c].key
          /\ i \notin Signed
          /\ chain' = [chain EXCEPT ![i] = "offchain"]
          /\ nonce' = [nonce EXCEPT ![i] = n]
          /\ call' = [call EXCEPT ![c].pc = "signed", ![c].payload = i,
                                 ![c].reference = ReferenceOf(i)]
  BY DEF Sign
<1>2. call[c].pc = "locking" /\ UNCHANGED <<requests, claims, released>>
  BY DEF Sign
<1>3. TypeOK /\ call[c] \in Serving /\ Knows(call[c])
  BY CallRecord DEF IInv
<1>4. PICK r \in Serving : r = [call[c] EXCEPT !.pc = "signed", !.payload = i,
                                              !.reference = ReferenceOf(i)]
  BY <1>3 DEF Serving, Stages, ReferenceOf
<1>5. call' = [call EXCEPT ![c] = r]
  BY <1>1, <1>3, <1>4 DEF TypeOK
<1>6. Knows(r)'
  BY <1>1, <1>2, <1>3, <1>4 DEF Knows, AfterJournal, Serving, ReferenceOf
<1>7. GrowOnly
  BY <1>1, <1>2, <1>3 DEF GrowOnly, RowsKept, ClaimsKept, ChainKept, Signed, TypeOK
<1>8. TypeOK'
  BY <1>1, <1>2, <1>3, <1>4, <1>5 DEF TypeOK, Statuses
<1>9. \A d \in Calls : call'[d] = call[d] \/ \E s \in Serving : call'[d] = s /\ Knows(s)'
  BY <1>3, <1>5, <1>6 DEF TypeOK
<1>10. QED
  BY <1>2, <1>7, <1>8, <1>9, StepKeepsIInv

\* The journal takes a row only for a key that has none.
LEMMA JournalKeepsIInv ==
  ASSUME IInv, NEW c \in Calls, Journal(c)
  PROVE  IInv'
<1>0. PICK k \in Keys : k = call[c].key
  BY CallRecord DEF Journal
<1>1. /\ TypeOK /\ call[c] \in Serving /\ Knows(call[c])
      /\ call[c].pc = "signed"
      /\ call[c].content \in Contents /\ call[c].payload \in Ids
      /\ call[c].payload[1] = k
      /\ KindOf[k] = "solana_split" => call[c].reference = call[c].payload
  BY <1>0, CallRecord DEF Journal, IInv, Knows
<1>2. PICK row \in Rows : row = [content |-> call[c].content,
                                 payload |-> call[c].payload,
                                 reference |-> call[c].reference,
                                 state |-> "prepared"]
  BY <1>1 DEF Rows, Serving
<1>4. PICK r \in Serving : r = [call[c] EXCEPT !.pc = "prepared"]
  BY <1>1 DEF Serving, Stages
<1>3. /\ requests[k] = None
      /\ requests' = [requests EXCEPT ![k] = row]
      /\ call' = [call EXCEPT ![c] = r]
      /\ UNCHANGED <<claims, chain, nonce, released>>
  BY <1>0, <1>1, <1>2, <1>4 DEF Journal, Unjournaled, To, TypeOK
<1>5. requests'[k] = row /\ row # None
  BY <1>1, <1>3, GatewayAssumption DEF TypeOK
<1>6. Knows(r)'
  BY <1>0, <1>1, <1>2, <1>4, <1>5 DEF Knows, AfterJournal, Stages, Serving, Journaled
<1>7. RowIsSound(k)'
  BY <1>1, <1>2, <1>5 DEF RowIsSound
<1>8. GrowOnly
  BY <1>3 DEF GrowOnly, RowsKept, ClaimsKept, ChainKept, IInv, TypeOK
<1>9. TypeOK'
  BY <1>1, <1>2, <1>3, <1>4 DEF TypeOK
<1>10. \A d \in Calls : call'[d] = call[d] \/ \E s \in Serving : call'[d] = s /\ Knows(s)'
  BY <1>1, <1>3, <1>4, <1>6 DEF TypeOK
<1>11. \A l \in Keys : requests'[l] = requests[l] \/ RowIsSound(l)'
  BY <1>1, <1>3, <1>7 DEF TypeOK
<1>12. QED
  BY <1>3, <1>8, <1>9, <1>10, <1>11, StepKeepsIInv

\* A row that has a new state only, and finalized only for a landed payload.
LEMMA MarkKeepsIInv ==
  ASSUME IInv, NEW c \in Calls, call[c].pc \in AfterJournal,
         NEW state \in {"prepared", "submitted", "finalized"},
         NEW reference \in Ids \cup {Nothing},
         requests' = [requests EXCEPT ![call[c].key].state = state,
                                      ![call[c].key].reference = reference],
         KindOf[call[c].key] = "solana_split" => reference = call[c].payload,
         state = "finalized" => Landed(call[c].key, reference),
         NEW r \in Serving, Knows(r), call' = [call EXCEPT ![c] = r],
         UNCHANGED <<claims, chain, nonce, released>>
  PROVE  IInv'
<1>0. PICK k \in Keys : k = call[c].key
  BY CallRecord DEF AfterJournal
<1>1. /\ TypeOK /\ requests[k] \in Rows
      /\ requests[k].payload = call[c].payload
      /\ requests[k].payload \in Ids /\ requests[k].payload[1] = k
  BY <1>0, CallRecord DEF IInv, AfterJournal
<1>2. PICK row \in Rows : /\ requests' = [requests EXCEPT ![k] = row]
                          /\ row.payload = requests[k].payload
                          /\ row.content = requests[k].content
                          /\ row.state = state /\ row.reference = reference
  <2>1. [requests[k] EXCEPT !.state = state, !.reference = reference] \in Rows
    BY <1>1 DEF Rows
  <2>2. QED
    BY <1>0, <1>1, <2>1 DEF Rows, TypeOK
<1>3. row # None
  BY GatewayAssumption
<1>4. GrowOnly
  BY <1>1, <1>2, <1>3 DEF GrowOnly, RowsKept, ClaimsKept, ChainKept, TypeOK
<1>5. TypeOK'
  BY <1>1, <1>2 DEF TypeOK
<1>6. Knows(r)'
  BY <1>4, KnowledgeKept DEF IInv, StoresSound
<1>7. Landed(k, reference) => Landed(k, reference)'
  BY <1>4, LandedKept DEF GrowOnly
<1>8. requests'[k] = row
  BY <1>1, <1>2 DEF TypeOK
<1>9. RowIsSound(k)'
  BY <1>0, <1>1, <1>2, <1>7, <1>8 DEF RowIsSound
<1>10. \A d \in Calls : call'[d] = call[d] \/ \E s \in Serving : call'[d] = s /\ Knows(s)'
  BY <1>1, <1>6 DEF TypeOK
<1>11. \A l \in Keys : requests'[l] = requests[l] \/ RowIsSound(l)'
  BY <1>1, <1>2, <1>9 DEF TypeOK
<1>12. QED
  BY <1>4, <1>5, <1>10, <1>11, StepKeepsIInv

\* The same call at another stage.
LEMMA NextStage ==
  ASSUME IInv, NEW c \in Calls, NEW stage \in AfterJournal,
         call[c].pc \in AfterJournal, To(c, stage)
  PROVE  \E r \in Serving :
             /\ call' = [call EXCEPT ![c] = r]
             /\ r.pc = stage /\ r.key = call[c].key /\ r.content = call[c].content
             /\ r.payload = call[c].payload /\ r.reference = call[c].reference
             /\ r.seen = call[c].seen
<1>1. call[c] \in Serving
  BY CallRecord
<1>2. [call[c] EXCEPT !.pc = stage] \in Serving
  BY <1>1 DEF Serving, AfterJournal
<1>3. QED
  BY <1>1, <1>2 DEF To, Serving, IInv, TypeOK

LEMMA MarkSubmittedKeepsIInv ==
  ASSUME IInv, NEW c \in Calls, MarkSubmitted(c)
  PROVE  IInv'
<1>1. call[c].pc = "submitting" /\ call[c].pc \in AfterJournal
  BY DEF MarkSubmitted, AfterJournal, Stages
<1>2. PICK stage \in {"finalizing", "waiting"} :
          /\ To(c, stage)
          /\ stage = "finalizing" => KindOf[call[c].key] = "jupiter_swap"
  BY DEF MarkSubmitted
<1>3. PICK r \in Serving :
          /\ call' = [call EXCEPT ![c] = r]
          /\ r.pc = stage /\ r.key = call[c].key /\ r.content = call[c].content
          /\ r.payload = call[c].payload /\ r.reference = call[c].reference
  BY <1>1, <1>2, NextStage DEF AfterJournal, Stages
<1>4. Knows(call[c]) /\ requests[call[c].key] \in Rows
  BY <1>1, CallRecord
<1>5. Knows(r)
  BY <1>1, <1>2, <1>3, <1>4 DEF Knows, AfterJournal, Landed
<1>6. PICK state \in {"prepared", "submitted", "finalized"}, reference \in Ids \cup {Nothing} :
          /\ state = IF requests[call[c].key].state = "prepared" THEN "submitted"
                     ELSE requests[call[c].key].state
          /\ reference = IF requests[call[c].key].reference = Nothing THEN call[c].reference
                         ELSE requests[call[c].key].reference
          /\ requests' = [requests EXCEPT ![call[c].key].state = state,
                                          ![call[c].key].reference = reference]
  BY <1>1, <1>4, CallRecord DEF MarkSubmitted, markSubmitted, Rows, Serving
<1>7. PICK k \in Keys : k = call[c].key
  BY <1>1, CallRecord
<1>8. /\ RowIsSound(k) /\ Journaled(k)
      /\ KindOf[k] = "solana_split" => call[c].reference = call[c].payload
      /\ requests[k].payload = call[c].payload
  BY <1>1, <1>4, <1>7, CallRecord, GatewayAssumption DEF IInv, Knows
<1>9. KindOf[k] = "solana_split" => reference = call[c].payload
  BY <1>6, <1>7, <1>8 DEF RowIsSound
<1>10. state = "finalized" => Landed(k, reference)
  <2>1. SUFFICES ASSUME requests[k].state = "finalized" PROVE Landed(k, reference)
    BY <1>6, <1>7
  <2>2. Landed(k, requests[k].reference)
    BY <2>1, <1>8 DEF RowIsSound
  <2>3. KindOf[k] # "pusd_transfer" => requests[k].reference # Nothing
    BY <2>2, GatewayAssumption DEF Landed, Ids, Nothing
  <2>4. QED
    BY <1>6, <1>7, <2>2, <2>3 DEF Landed
<1>11. QED
  BY <1>1, <1>3, <1>5, <1>6, <1>7, <1>9, <1>10, MarkKeepsIInv DEF MarkSubmitted

LEMMA MarkFinalizedKeepsIInv ==
  ASSUME IInv, NEW c \in Calls, MarkFinalized(c)
  PROVE  IInv'
<1>1. Idle \in Serving /\ Knows(Idle)
  BY DEF Idle, Serving, Stages, Knows, AfterJournal
<1>2. /\ call[c].pc \in AfterJournal /\ Landed(call[c].key, call[c].reference)
      /\ call[c].reference \in Ids \cup {Nothing}
      /\ KindOf[call[c].key] = "solana_split" => call[c].reference = call[c].payload
  BY CallRecord DEF MarkFinalized, AfterJournal, Stages, Knows, Serving
<1>3. QED
  BY <1>1, <1>2, MarkKeepsIInv DEF MarkFinalized, Ends

\* A payload leaves the gateway: it is the journaled one, and a split has its
\* sources by then.
LEMMA ReleaseKeepsIInv ==
  ASSUME IInv, NEW c \in Calls, call[c].pc \in AfterJournal,
         KindOf[call[c].key] = "solana_split" =>
             ClaimedBy(call[c].key, call[c].content),
         released' = released \cup {call[c].payload},
         ChainKept, chain' \in [Ids -> Statuses],
         NEW r \in Serving, Knows(r), call' = [call EXCEPT ![c] = r],
         UNCHANGED <<requests, claims, nonce>>
  PROVE  IInv'
<1>1. GrowOnly
  BY DEF GrowOnly, RowsKept, ClaimsKept
<1>2. call[c].payload \in Ids
  BY CallRecord
<1>3. TypeOK'
  BY <1>2 DEF IInv, TypeOK
<1>4. \A d \in Calls : call'[d] = call[d] \/ \E q \in Serving : call'[d] = q /\ Knows(q)'
  <2>1. Knows(r)'
    BY <1>1, KnowledgeKept DEF IInv, StoresSound
  <2>2. QED
    BY <2>1 DEF IInv, TypeOK
<1>5. \A i \in released' : i \in released \/ ReleasedIsSound(i)'
  <2>1. SUFFICES ASSUME NEW i \in Ids, i = call[c].payload
                 PROVE  ReleasedIsSound(i)'
    BY <1>2
  <2>2. Journaled(i[1]) /\ requests[i[1]].payload = i
         /\ i[1] = call[c].key /\ requests[i[1]].content = call[c].content
    BY <2>1, CallRecord DEF Knows
  <2>3. KindOf[i[1]] = "solana_split" => ClaimedBy(i[1], requests[i[1]].content)
    BY <2>2
  <2>4. QED
    BY <2>2, <2>3 DEF ReleasedIsSound, Journaled, ClaimedBy
<1>6. QED
  BY <1>1, <1>3, <1>4, <1>5, StepKeepsIInv

LEMMA ReturnOrderKeepsIInv ==
  ASSUME IInv, NEW c \in Calls, ReturnOrder(c)
  PROVE  IInv'
<1>1. Idle \in Serving /\ Knows(Idle)
  BY DEF Idle, Serving, Stages, Knows, AfterJournal
<1>2. call[c].pc \in AfterJournal /\ KindOf[call[c].key] # "solana_split"
  BY DEF ReturnOrder, At, AfterJournal, Stages
<1>3. ChainKept /\ chain' \in [Ids -> Statuses]
  BY DEF ReturnOrder, ChainKept, IInv, TypeOK
<1>4. QED
  BY <1>1, <1>2, <1>3, ReleaseKeepsIInv DEF ReturnOrder, Ends

\* The three broadcasts: a transaction that is not on its chain becomes pending.
LEMMA BroadcastKeepsIInv ==
  ASSUME IInv, NEW c \in Calls, SendTransfer(c) \/ SubmitSwap(c) \/ SendSplit(c)
  PROVE  IInv'
<1> DEFINE i == call[c].payload
<1>1. PICK stage \in {"submitting", "executing"} :
          /\ To(c, stage)
          /\ stage = "submitting" => KindOf[call[c].key] # "jupiter_swap"
  BY DEF SendTransfer, SubmitSwap, SendSplit, At
<1>2. /\ call[c].pc \in AfterJournal
      /\ KindOf[call[c].key] = "solana_split" => call[c].pc = "claimed"
  BY DEF SendTransfer, SubmitSwap, SendSplit, At, AfterJournal, Stages
<1>3. PICK r \in Serving :
          /\ call' = [call EXCEPT ![c] = r]
          /\ r.pc = stage /\ r.key = call[c].key /\ r.content = call[c].content
          /\ r.payload = call[c].payload /\ r.reference = call[c].reference
  BY <1>1, <1>2, NextStage DEF AfterJournal, Stages
<1>4. Knows(call[c]) /\ i \in Ids /\ TypeOK
  BY <1>2, CallRecord DEF IInv
<1>5. Knows(r)
  BY <1>1, <1>2, <1>3, <1>4 DEF Knows, AfterJournal
<1>6. ChainKept /\ chain' \in [Ids -> Statuses]
  <2>1. CASE SendTransfer(c)
    BY <1>4, <2>1 DEF SendTransfer, ChainKept, TypeOK, Statuses, Included
  <2>2. CASE SubmitSwap(c)
    BY <1>4, <2>2 DEF SubmitSwap, ChainKept, TypeOK, Statuses
  <2>3. CASE SendSplit(c)
    BY <1>4, <2>3 DEF SendSplit, ChainKept, TypeOK, Statuses
  <2>4. QED
    BY <2>1, <2>2, <2>3
<1>7. KindOf[call[c].key] = "solana_split" => ClaimedBy(call[c].key, call[c].content)
  BY <1>2, <1>4 DEF Knows
<1>8. QED
  BY <1>2, <1>3, <1>5, <1>6, <1>7, ReleaseKeepsIInv DEF SendTransfer, SubmitSwap, SendSplit

\* The sources of a split are claimed together, none of them away from another.
LEMMA ClaimKeepsIInv ==
  ASSUME IInv, NEW c \in Calls, Claim(c)
  PROVE  IInv'
<1>1. /\ call[c].pc = "prepared" /\ call[c].pc \in AfterJournal
      /\ To(c, "claimed")
      /\ UNCHANGED <<requests, chain, nonce, released>>
  BY DEF Claim, At, AfterJournal, Stages
<1>2. PICK k \in Keys, content \in Contents : k = call[c].key /\ content = call[c].content
  BY <1>1, CallRecord
<1>3. TypeOK /\ Knows(call[c])
  BY CallRecord DEF IInv
<1>4. claims' = [s \in Sources |-> IF s \in SourcesOf[content]
                                   THEN <<k, content>> ELSE claims[s]]
  BY <1>2 DEF Claim
<1>5. \A s \in SourcesOf[content] : claims[s] \in {None, <<k, content>>}
  BY <1>2 DEF Claim, MayClaim
<1>6. SourcesOf[content] \subseteq Sources
  BY GatewayAssumption
<1>7. ClaimedBy(k, content)'
  BY <1>4, <1>6 DEF ClaimedBy
<1>8. GrowOnly
  BY <1>1, <1>4, <1>5 DEF GrowOnly, RowsKept, ClaimsKept, ChainKept
<1>9. PICK r \in Serving :
          /\ call' = [call EXCEPT ![c] = r]
          /\ r.pc = "claimed" /\ r.key = k /\ r.content = content
          /\ r.payload = call[c].payload /\ r.reference = call[c].reference
  BY <1>1, <1>2, NextStage DEF AfterJournal, Stages
<1>10. TypeOK'
  BY <1>1, <1>3, <1>4, <1>9 DEF TypeOK, Claimants
<1>11. Knows(r)'
  BY <1>1, <1>2, <1>3, <1>7, <1>9 DEF Knows, AfterJournal, Journaled
<1>12. \A d \in Calls : call'[d] = call[d] \/ \E q \in Serving : call'[d] = q /\ Knows(q)'
  BY <1>3, <1>9, <1>11 DEF TypeOK
<1>13. QED
  BY <1>1, <1>8, <1>10, <1>12, StepKeepsIInv

LEMMA ServeKeepsIInv ==
  ASSUME IInv, NEW c \in Calls, Serve(c)
  PROVE  IInv'
<1>1. CASE \E k \in Keys, content \in Contents : Receive(c, k, content)
  BY <1>1, ReceiveKeepsIInv
<1>2. CASE AnswerFinalized(c) \/ Fail(c)
  BY <1>2, EndKeepsIInv DEF AnswerFinalized, Fail, stores
<1>3. QED
  BY <1>1, <1>2, ReplayKeepsIInv, SignKeepsIInv, JournalKeepsIInv, CheckKeepsIInv,
     MarkSubmittedKeepsIInv, MarkFinalizedKeepsIInv, ReturnOrderKeepsIInv,
     BroadcastKeepsIInv, ClaimKeepsIInv DEF Serve

-----------------------------------------------------------------------------
(* The steps of the chains                                                 *)

LEMMA ChainStepKeepsIInv ==
  ASSUME IInv, ChainKept, chain' \in [Ids -> Statuses],
         UNCHANGED <<requests, claims, nonce, released, call>>
  PROVE  IInv'
<1>1. GrowOnly
  BY DEF GrowOnly, RowsKept, ClaimsKept
<1>2. TypeOK'
  BY DEF IInv, TypeOK
<1>3. QED
  BY <1>1, <1>2, StepKeepsIInv

LEMMA ChainsKeepIInv ==
  ASSUME IInv, Chains
  PROVE  IInv'
<1>1. PICK i \in Signed :
          Include(i) \/ Finalize(i) \/ Reorganise(i) \/ Evict(i) \/ Expire(i)
  BY DEF Chains
<1>2. i \in Ids /\ chain \in [Ids -> Statuses]
  BY DEF Signed, IInv, TypeOK
<1>3. CASE Include(i)
  <2>1. ChainKept /\ chain' \in [Ids -> Statuses]
    BY <1>2, <1>3 DEF Include, ChainKept, Statuses, Included
  <2>2. QED
    BY <1>3, <2>1, ChainStepKeepsIInv DEF Include
<1>4. CASE \E status \in Statuses \ {"unsigned"} : chain[i] # "final" /\ Becomes(i, status)
  <2>1. ChainKept /\ chain' \in [Ids -> Statuses]
    BY <1>2, <1>4 DEF Becomes, ChainKept
  <2>2. QED
    BY <1>4, <2>1, ChainStepKeepsIInv DEF Becomes
<1>5. CASE Finalize(i) \/ Reorganise(i) \/ Evict(i) \/ Expire(i)
  BY <1>4, <1>5 DEF Finalize, Reorganise, Evict, Expire, Settled, Statuses, Included
<1>6. QED
  BY <1>1, <1>3, <1>5

-----------------------------------------------------------------------------
(* The theorems                                                            *)

LEMMA InitIInv == Init => IInv
<1> SUFFICES ASSUME Init PROVE IInv
  OBVIOUS
<1>1. TypeOK
  BY GatewayAssumption DEF Init, TypeOK, Statuses, Idle, Serving, Stages
<1>2. \A c \in Calls : Knows(call[c])
  BY DEF Init, Knows, Idle, AfterJournal
<1>3. QED
  BY <1>1, <1>2 DEF Init, IInv, RowIsSound, Journaled

LEMMA NextIInv == IInv /\ [Next]_vars => IInv'
<1> SUFFICES ASSUME IInv, [Next]_vars PROVE IInv'
  OBVIOUS
<1>1. CASE Chains
  BY <1>1, ChainsKeepIInv
<1>2. CASE \E c \in Calls : Serve(c)
  BY <1>2, ServeKeepsIInv
<1>3. CASE UNCHANGED vars
  <2>1. ChainKept /\ chain' \in [Ids -> Statuses]
    BY <1>3 DEF vars, ChainKept, IInv, TypeOK
  <2>2. QED
    BY <1>3, <2>1, ChainStepKeepsIInv DEF vars
<1>4. QED
  BY <1>1, <1>2, <1>3 DEF Next

THEOREM Invariance == Spec => []IInv
BY InitIInv, NextIInv, PTL DEF Spec

\* The stores and the calls keep their types, whatever races, fails or retries:
\* no row without a payload, no call that goes on without one.
THEOREM TypeCorrect == Spec => []TypeOK
<1>1. IInv => TypeOK
  BY DEF IInv
<1>2. QED
  BY <1>1, Invariance, PTL

\* The journal of the gateway is what makes its retries safe: for any number of
\* concurrent calls at most one signed payload of a key leaves the gateway.
THEOREM NoSecondEffect == Spec => []OnePayloadPerRequest
<1>1. IInv => OnePayloadPerRequest
  BY DEF IInv, OnePayloadPerRequest, ReleasedIsSound
<1>2. QED
  BY <1>1, Invariance, PTL

\* For any number of splits and sources, what one split spent no other split
\* that left the gateway names.
THEOREM NoSourceSpentTwice == Spec => []SourcePaysOneSplit
<1>1. IInv => SourcePaysOneSplit
  <2>1. SUFFICES ASSUME IInv, NEW k \in SplitsOut, NEW l \in SplitsOut, k # l,
                        NEW s \in SourcesOf[requests[k].content],
                        s \in SourcesOf[requests[l].content]
                 PROVE  FALSE
    BY DEF SourcePaysOneSplit
  <2>2. ClaimedBy(k, requests[k].content) /\ ClaimedBy(l, requests[l].content)
    BY <2>1 DEF IInv, SplitsOut, ReleasedIsSound
  <2>3. QED
    BY <2>1, <2>2 DEF ClaimedBy
<1>2. QED
  BY <1>1, Invariance, PTL

\* Whatever is lost, reorganised or reported of another transaction, a swap or a
\* split that the journal calls finalized names a final transaction, for good.
THEOREM FinalizedStaysOnChain == Spec => []FinalizedIsOnChain
<1>1. IInv => FinalizedIsOnChain
  BY DEF IInv, FinalizedIsOnChain, RowIsSound, Journaled, Landed
<1>2. QED
  BY <1>1, Invariance, PTL
=============================================================================
