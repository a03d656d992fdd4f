---------------------------- MODULE IndexerProofs ----------------------------
(***************************************************************************)
(* Theorems about the projections and the event log of module Indexer, for *)
(* every number of syncs, baskets, slots and transactions, and every page  *)
(* and window size.                                                        *)
(*                                                                         *)
(* The argument: the finalized history never changes and the tables only   *)
(* move forward (Forward), so what a sync has established about a slot or  *)
(* a range of the history holds however long it takes and whoever overlaps *)
(* it (Knows); a cursor inherits it from the sync that moves it.           *)
(***************************************************************************)
EXTENDS Indexer, FiniteSetTheorems, TLAPS

-----------------------------------------------------------------------------
(* The inductive invariant                                                 *)

\* The slot s is final, and the accounts are as of s or later.
AccountsAsOf(s) ==
    /\ s < slot
    /\ \A b \in Created(s) : accounts[b] # None /\ accounts[b].slot >= s

SupplyAsOf(b, s) == supplies[b] # None /\ supplies[b].slot >= s

\* The first position after a cursor.
After(cursor) == IF cursor = None THEN 1 ELSE cursor + 1

Logged(low, head) == \A i \in low .. head : ~txs[i].failed => i \in events

\* What a sync r has established by the stage it is in.
Knows(r) ==
    /\ r.pc \in {"apply", "supply"} => r.slot < slot
    /\ r.pc = "supply" =>
           /\ AccountsAsOf(r.slot)
           /\ r.pending \subseteq Created(r.slot)
           /\ \A b \in Created(r.slot) \ r.pending : SupplyAsOf(b, r.slot)
    /\ r.pc \in {"scan", "append", "advance"} => r.expected \in {None} \cup Positions
    /\ r.pc = "append" => r.low = After(r.expected) /\ r.low <= r.head
    /\ r.pc = "advance" => r.head \in Positions /\ Logged(After(r.expected), r.head)

AccountIsSound(b) ==
    accounts[b] # None =>
        /\ accounts[b].slot < slot
        /\ b \in Created(accounts[b].slot)
        /\ accounts[b].active
        /\ accounts[b].version = Version(b, accounts[b].slot)

SupplyIsSound(b) ==
    supplies[b] # None =>
        /\ supplies[b].slot < slot
        /\ supplies[b].version = Version(b, supplies[b].slot)
        /\ accounts[b] # None
        /\ supplies[b].slot <= accounts[b].slot

AccountCursorIsSound ==
    accountCursor # None =>
        /\ AccountsAsOf(accountCursor)
        /\ \A b \in Created(accountCursor) : SupplyAsOf(b, accountCursor)

IInv ==
    /\ TypeOK
    /\ \A w \in Syncs : Knows(sync[w])
    /\ \A b \in Baskets : AccountIsSound(b) /\ SupplyIsSound(b)
    /\ AccountCursorIsSound
    /\ EventsUpToCursor

-----------------------------------------------------------------------------
(* History and tables move forward only                                    *)

HistoryForward ==
    /\ slot <= slot'
    /\ Len(txs) <= Len(txs')
    /\ \A i \in Positions : txs'[i] = txs[i]
    /\ \A b \in Baskets, s \in Nat : s < slot => Changes(b, s)' = Changes(b, s)

TablesForward ==
    /\ \A b \in Baskets : accounts[b] # None =>
           accounts'[b] # None /\ accounts'[b].slot >= accounts[b].slot
    /\ \A b \in Baskets : supplies[b] # None =>
           supplies'[b] # None /\ supplies'[b].slot >= supplies[b].slot
    /\ events \subseteq events'

Forward == HistoryForward /\ TablesForward

LEMMA HistoryTypes ==
  ASSUME TypeOK
  PROVE  /\ Len(txs) \in Nat /\ slot \in Nat
         /\ \A i \in Positions : txs[i] \in Transactions /\ txs[i].slot \in Nat
<1>1. Len(txs) \in Nat /\ \A i \in Positions : txs[i] \in Transactions
  BY DEF TypeOK, Positions
<1>2. slot \in Nat /\ \A t \in Transactions : t.slot \in Nat
  BY IndexerAssumption DEF TypeOK, Transactions
<1>3. QED
  BY <1>1, <1>2

\* A basket's version is a number: its history is finite.
LEMMA VersionIsNat ==
  ASSUME TypeOK, NEW b \in Baskets, NEW s \in Nat
  PROVE  Version(b, s) \in Nat
<1>1. Len(txs) \in Nat
  BY DEF TypeOK
<1>2. IsFiniteSet(Positions)
  BY <1>1, FS_Interval DEF Positions
<1>3. Changes(b, s) \subseteq Positions
  BY DEF Changes
<1>4. QED
  BY <1>2, <1>3, FS_Subset, FS_CardinalityType DEF Version

\* A basket that exists at a slot exists at the later ones.
LEMMA CreatedGrows ==
  ASSUME TypeOK, NEW s \in Nat, NEW t \in Nat, s <= t
  PROVE  Created(s) \subseteq Created(t)
<1>1. \A b \in Baskets : Changes(b, s) \subseteq Changes(b, t)
  BY HistoryTypes DEF Changes
<1>2. QED
  BY <1>1 DEF Created

\* Nothing changes in a final slot any more.
LEMMA FinalIsFixed ==
  ASSUME HistoryForward
  PROVE  \A s \in Nat : s < slot =>
             /\ Created(s)' = Created(s)
             /\ \A b \in Baskets : Version(b, s)' = Version(b, s)
BY DEF HistoryForward, Created, Version

\* A step that leaves the history alone, or appends to it in the open slot.
LEMMA HistoryKept ==
  ASSUME TypeOK, UNCHANGED txs, slot' \in Nat, slot <= slot'
  PROVE  HistoryForward
BY DEF HistoryForward, Changes, Positions, TypeOK

LEMMA AppendMovesForward ==
  ASSUME TypeOK, NEW t \in Transactions, t.slot = slot,
         txs' = Append(txs, t), UNCHANGED slot
  PROVE  HistoryForward
<1>1. /\ Len(txs) \in Nat /\ Len(txs') = Len(txs) + 1
      /\ \A i \in Positions : txs'[i] = txs[i]
      /\ txs'[Len(txs) + 1] = t
  BY DEF TypeOK, Positions
<1>2. ASSUME NEW b \in Baskets, NEW s \in Nat, s < slot
      PROVE  Changes(b, s)' = Changes(b, s)
  <2>1. Positions' = Positions \cup {Len(txs) + 1}
    BY <1>1 DEF Positions
  <2>2. ~(txs'[Len(txs) + 1].slot <= s)
    BY <1>1, <1>2 DEF TypeOK
  <2>3. QED
    BY <1>1, <2>1, <2>2 DEF Changes
<1>3. QED
  <2>1. \A b \in Baskets, s \in Nat : s < slot => Changes(b, s)' = Changes(b, s)
    BY <1>2
  <2>2. slot <= slot' /\ Len(txs) <= Len(txs')
    BY <1>1, HistoryTypes
  <2>3. QED
    BY <1>1, <2>1, <2>2 DEF HistoryForward

-----------------------------------------------------------------------------
(* What was established stays                                              *)

LEMMA AccountsAsOfKept ==
  ASSUME TypeOK, TypeOK', Forward
  PROVE  \A s \in Nat : AccountsAsOf(s) => AccountsAsOf(s)'
<1> SUFFICES ASSUME NEW s \in Nat, AccountsAsOf(s)
             PROVE  AccountsAsOf(s)'
  OBVIOUS
<1>1. s < slot /\ s < slot'
  <2>1. slot \in Nat /\ slot' \in Nat
    BY IndexerAssumption DEF TypeOK
  <2>2. QED
    BY <2>1 DEF AccountsAsOf, Forward, HistoryForward
<1>2. Created(s)' = Created(s)
  BY <1>1, FinalIsFixed DEF Forward
<1>3. ASSUME NEW b \in Created(s)
      PROVE  accounts'[b] # None /\ accounts'[b].slot >= s
  <2>1. b \in Baskets /\ accounts[b] # None /\ accounts[b].slot >= s
    BY DEF AccountsAsOf, Created
  <2>2. accounts'[b] # None /\ accounts'[b].slot >= accounts[b].slot
    BY <2>1 DEF Forward, TablesForward
  <2>3. accounts[b].slot \in Nat /\ accounts'[b].slot \in Nat
    BY <2>1, <2>2 DEF TypeOK, AccountRows
  <2>4. QED
    BY <2>1, <2>2, <2>3
<1>4. QED
  BY <1>1, <1>2, <1>3 DEF AccountsAsOf

LEMMA SupplyAsOfKept ==
  ASSUME TypeOK, TypeOK', Forward
  PROVE  \A b \in Baskets, s \in Nat : SupplyAsOf(b, s) => SupplyAsOf(b, s)'
<1> SUFFICES ASSUME NEW b \in Baskets, NEW s \in Nat, SupplyAsOf(b, s)
             PROVE  SupplyAsOf(b, s)'
  OBVIOUS
<1>1. supplies'[b] # None /\ supplies'[b].slot >= supplies[b].slot
  BY DEF SupplyAsOf, Forward, TablesForward
<1>2. supplies[b].slot \in Nat /\ supplies'[b].slot \in Nat
  BY <1>1 DEF SupplyAsOf, TypeOK, SupplyRows
<1>3. QED
  BY <1>1, <1>2 DEF SupplyAsOf

LEMMA LoggedKept ==
  ASSUME TypeOK, TypeOK', Forward
  PROVE  \A low \in Nat \ {0}, head \in 0 .. Len(txs) :
             Logged(low, head) => Logged(low, head)'
<1>1. \A i \in Positions : txs'[i] = txs[i]
  BY DEF Forward, HistoryForward
<1>2. \A low \in Nat \ {0}, head \in 0 .. Len(txs) : low .. head \subseteq Positions
  BY HistoryTypes DEF Positions
<1>3. QED
  BY <1>1, <1>2 DEF Logged, Forward, TablesForward

\* What a sync knows stays true while others move.
LEMMA KnowledgeKept ==
  ASSUME TypeOK, TypeOK', Forward
  PROVE  \A r \in Running : Knows(r) => Knows(r)'
<1> SUFFICES ASSUME NEW r \in Running, Knows(r)
             PROVE  Knows(r)'
  OBVIOUS
<1>1. /\ r.slot \in Nat /\ r.low \in Nat /\ r.head \in 0 .. Len(txs)
      /\ r.expected \in {None} \cup Nat
      /\ slot \in Nat /\ slot' \in Nat /\ slot <= slot'
      /\ Positions \subseteq Positions'
  BY HistoryTypes, IndexerAssumption
     DEF Running, TypeOK, Forward, HistoryForward, Positions
<1>2. r.slot < slot => r.slot < slot'
  BY <1>1
<1>3. CASE r.pc = "supply"
  <2>1. AccountsAsOf(r.slot)' /\ Created(r.slot)' = Created(r.slot)
    BY <1>1, <1>3, AccountsAsOfKept, FinalIsFixed DEF Knows, Forward
  <2>2. \A b \in Created(r.slot) \ r.pending : SupplyAsOf(b, r.slot)'
    BY <1>1, <1>3, SupplyAsOfKept DEF Knows, Created
  <2>3. QED
    BY <1>2, <1>3, <2>1, <2>2 DEF Knows
<1>4. CASE r.pc = "advance"
  <2>1. After(r.expected) \in Nat \ {0}
    BY <1>1 DEF After
  <2>2. Logged(After(r.expected), r.head)'
    BY <1>1, <1>4, <2>1, LoggedKept DEF Knows
  <2>3. QED
    BY <1>1, <1>4, <2>2 DEF Knows
<1>5. CASE r.pc \notin {"supply", "advance"}
  BY <1>1, <1>2, <1>5 DEF Knows
<1>6. QED
  BY <1>3, <1>4, <1>5

\* So a step has to account only for what it moves itself.
LEMMA StepKeepsIInv ==
  ASSUME IInv, TypeOK', Forward,
         \A w \in Syncs : sync'[w] = sync[w] \/ \E r \in Running' : sync'[w] = r /\ Knows(r)',
         \A b \in Baskets : accounts'[b] = accounts[b] \/ AccountIsSound(b)',
         \A b \in Baskets :
             \/ supplies'[b] = supplies[b] /\ accounts'[b] = accounts[b]
             \/ SupplyIsSound(b)',
         accountCursor' = accountCursor \/ AccountCursorIsSound',
         UNCHANGED <<eventCursor, origin>> \/ EventsUpToCursor'
  PROVE  IInv'
<1>1. TypeOK /\ slot \in Nat /\ slot' \in Nat /\ slot <= slot'
  BY IndexerAssumption DEF IInv, TypeOK, Forward, HistoryForward
<1>2. \A w \in Syncs : Knows(sync[w])'
  <2>1. SUFFICES ASSUME NEW w \in Syncs PROVE Knows(sync[w])'
    OBVIOUS
  <2>2. PICK r : r = sync'[w] /\ Knows(r)'
    <3>1. CASE sync'[w] = sync[w]
      BY <1>1, <3>1, KnowledgeKept DEF IInv, TypeOK
    <3>2. QED
      BY <3>1
  <2>3. QED
    BY <2>2 DEF Knows
<1>3. \A b \in Baskets : AccountIsSound(b)'
  <2>1. SUFFICES ASSUME NEW b \in Baskets, accounts'[b] = accounts[b], accounts[b] # None
                 PROVE  AccountIsSound(b)'
    BY DEF AccountIsSound
  <2>2. AccountIsSound(b)
    BY DEF IInv
  <2>3. PICK s \in Nat : s = accounts[b].slot
    BY <1>1, <2>1 DEF TypeOK, AccountRows
  <2>4. s < slot /\ s < slot'
    BY <1>1, <2>1, <2>2, <2>3 DEF AccountIsSound
  <2>5. Created(s)' = Created(s) /\ Version(b, s)' = Version(b, s)
    BY <2>4, FinalIsFixed DEF Forward
  <2>6. QED
    BY <2>1, <2>2, <2>3, <2>4, <2>5 DEF AccountIsSound
<1>4. \A b \in Baskets : SupplyIsSound(b)'
  <2>1. SUFFICES ASSUME NEW b \in Baskets, supplies'[b] = supplies[b],
                        accounts'[b] = accounts[b], supplies[b] # None
                 PROVE  SupplyIsSound(b)'
    BY DEF SupplyIsSound
  <2>2. SupplyIsSound(b)
    BY DEF IInv
  <2>3. PICK s \in Nat : s = supplies[b].slot
    BY <1>1, <2>1 DEF TypeOK, SupplyRows
  <2>4. s < slot /\ s < slot'
    BY <1>1, <2>1, <2>2, <2>3 DEF SupplyIsSound
  <2>5. Version(b, s)' = Version(b, s)
    BY <2>4, FinalIsFixed DEF Forward
  <2>6. QED
    BY <2>1, <2>2, <2>3, <2>4, <2>5 DEF SupplyIsSound
<1>5. AccountCursorIsSound'
  <2>1. SUFFICES ASSUME accountCursor' = accountCursor, accountCursor # None
                 PROVE  AccountCursorIsSound'
    BY DEF AccountCursorIsSound
  <2>2. PICK s \in Nat : s = accountCursor
    BY <1>1, <2>1, IndexerAssumption DEF TypeOK
  <2>3. AccountsAsOf(s) /\ \A b \in Created(s) : SupplyAsOf(b, s)
    BY <2>1, <2>2 DEF IInv, AccountCursorIsSound
  <2>4. AccountsAsOf(s)' /\ Created(s)' = Created(s)
    BY <1>1, <2>3, AccountsAsOfKept, FinalIsFixed DEF Forward, AccountsAsOf
  <2>5. \A b \in Created(s) : SupplyAsOf(b, s)'
    BY <1>1, <2>3, SupplyAsOfKept DEF Created
  <2>6. QED
    BY <2>1, <2>2, <2>4, <2>5 DEF AccountCursorIsSound
<1>6. EventsUpToCursor'
  <2>1. SUFFICES ASSUME UNCHANGED <<eventCursor, origin>>, eventCursor # None
                 PROVE  EventsUpToCursor'
    BY DEF EventsUpToCursor
  <2>2. \A i \in origin + 1 .. eventCursor : i \in Positions
    BY <1>1, <2>1, HistoryTypes DEF TypeOK, Positions
  <2>3. QED
    BY <2>1, <2>2 DEF IInv, EventsUpToCursor, Forward, HistoryForward, TablesForward
<1>7. QED
  BY <1>2, <1>3, <1>4, <1>5, <1>6 DEF IInv

-----------------------------------------------------------------------------
(* The steps that write no table                                           *)

\* A sync that moves nothing but itself, to a record it knows the facts of.
LEMMA QuietStep ==
  ASSUME IInv, UNCHANGED <<slot, txs, tables>>,
         NEW w \in Syncs, NEW r \in Running, Knows(r), sync' = [sync EXCEPT ![w] = r]
  PROVE  IInv'
<1>1. TypeOK /\ slot \in Nat
  BY HistoryTypes DEF IInv
<1>2. TypeOK' /\ Running' = Running
  BY <1>1 DEF TypeOK, tables, Running, Positions
<1>3. Forward
  <2>1. HistoryForward
    BY <1>1, HistoryKept
  <2>2. TablesForward
    BY <1>1 DEF TablesForward, tables, TypeOK, AccountRows, SupplyRows
  <2>3. QED
    BY <2>1, <2>2 DEF Forward
<1>4. Knows(r)'
  BY <1>1, <1>2, <1>3, KnowledgeKept
<1>5. \A v \in Syncs : sync'[v] = sync[v] \/ \E q \in Running' : sync'[v] = q /\ Knows(q)'
  BY <1>1, <1>2, <1>4 DEF TypeOK
<1>6. QED
  BY <1>2, <1>3, <1>5, StepKeepsIInv DEF tables

LEMMA IdleKnows ==
  ASSUME TypeOK
  PROVE  Idle \in Running /\ Knows(Idle)
<1>1. Len(txs) \in Nat /\ MaxSlot \in Nat /\ MaxPages \in Nat
  BY HistoryTypes, IndexerAssumption
<1>2. QED
  BY <1>1 DEF Idle, Running, Stages, Knows

LEMMA EndKeepsIInv ==
  ASSUME IInv, NEW w \in Syncs, Ends(w), UNCHANGED <<slot, txs, tables>>
  PROVE  IInv'
BY IdleKnows, QuietStep DEF Ends, IInv

LEMMA SyncRecord ==
  ASSUME IInv, NEW w \in Syncs
  PROVE  /\ sync[w] \in Running /\ Knows(sync[w])
         /\ sync[w].slot \in Nat /\ sync[w].low \in Nat /\ sync[w].head \in 0 .. Len(txs)
         /\ sync[w].pages \in Nat /\ sync[w].expected \in {None} \cup Nat
         /\ Len(txs) \in Nat /\ slot \in Nat
<1>1. sync[w] \in Running /\ Knows(sync[w]) /\ TypeOK
  BY DEF IInv, TypeOK
<1>2. QED
  BY <1>1, HistoryTypes DEF Running

LEMMA LoadKeepsIInv ==
  ASSUME IInv, NEW w \in Syncs, LoadAccountCursor(w) \/ LoadEventCursor(w)
  PROVE  IInv'
<1>1. sync[w] \in Running /\ Knows(sync[w]) /\ Len(txs) \in Nat /\ TypeOK
  BY SyncRecord DEF IInv
<1>2. accountCursor \in {None} \cup Nat /\ eventCursor \in {None} \cup Positions
       /\ Positions \subseteq Nat
  BY <1>1, IndexerAssumption DEF TypeOK, Positions
<1>3. CASE LoadAccountCursor(w)
  <2>1. PICK r \in Running : r = [sync[w] EXCEPT !.pc = "fetch", !.expected = accountCursor]
    BY <1>1, <1>2 DEF Running, Stages
  <2>2. Knows(r)
    BY <1>1, <2>1 DEF Knows, Running
  <2>3. sync' = [sync EXCEPT ![w] = r]
    BY <1>1, <1>3, <2>1 DEF LoadAccountCursor, TypeOK
  <2>4. QED
    BY <1>3, <2>2, <2>3, QuietStep DEF LoadAccountCursor
<1>4. ASSUME sync' = [sync EXCEPT ![w].pc = "scan", ![w].expected = eventCursor],
             UNCHANGED <<slot, txs, tables>>
      PROVE  IInv'
  <2>1. PICK r \in Running : r = [sync[w] EXCEPT !.pc = "scan", !.expected = eventCursor]
    BY <1>1, <1>2 DEF Running, Stages
  <2>2. Knows(r)
    BY <1>1, <1>2, <2>1 DEF Knows, Running
  <2>3. sync' = [sync EXCEPT ![w] = r]
    BY <1>1, <1>4, <2>1 DEF TypeOK
  <2>4. QED
    BY <1>4, <2>2, <2>3, QuietStep
<1>5. ASSUME sync' = [sync EXCEPT ![w].pc = "latest"], UNCHANGED <<slot, txs, tables>>
      PROVE  IInv'
  <2>1. PICK r \in Running : r = [sync[w] EXCEPT !.pc = "latest"]
    BY <1>1 DEF Running, Stages
  <2>2. Knows(r)
    BY <1>1, <2>1 DEF Knows, Running
  <2>3. sync' = [sync EXCEPT ![w] = r]
    BY <1>1, <1>5, <2>1 DEF TypeOK
  <2>4. QED
    BY <1>5, <2>2, <2>3, QuietStep
<1>6. QED
  BY <1>3, <1>4, <1>5 DEF LoadEventCursor

LEMMA FetchKeepsIInv ==
  ASSUME IInv, NEW w \in Syncs, NEW s \in Finalized, FetchAccounts(w, s)
  PROVE  IInv'
<1>1. sync[w] \in Running /\ Knows(sync[w]) /\ slot \in Nat /\ TypeOK
  BY SyncRecord DEF IInv
<1>2. s \in 0 .. MaxSlot /\ s < slot
  BY <1>1, IndexerAssumption DEF Finalized, TypeOK
<1>3. CASE Ends(w)
  BY <1>3, EndKeepsIInv DEF FetchAccounts
<1>4. CASE ~Ends(w)
  <2>1. PICK r \in Running : r = [sync[w] EXCEPT !.pc = "apply", !.slot = s]
    BY <1>1, <1>2 DEF Running, Stages
  <2>2. Knows(r)
    BY <1>1, <1>2, <2>1 DEF Knows, Running
  <2>3. sync' = [sync EXCEPT ![w] = r]
    BY <1>1, <1>4, <2>1 DEF FetchAccounts, TypeOK
  <2>4. QED
    BY <2>2, <2>3, QuietStep DEF FetchAccounts
<1>5. QED
  BY <1>3, <1>4

\* A scan that finds its cursor, or the beginning of the history, has the first
\* position it has to append, whatever pages it took.
LEMMA ScanKeepsIInv ==
  ASSUME IInv, NEW w \in Syncs, NEW known \in Heads, ScanPage(w, known)
  PROVE  IInv'
<1> DEFINE v == sync[w]
           head == IF v.pages = 0 THEN known ELSE v.head
           above == IF v.pages = 0 THEN known + 1 ELSE v.low
           ended == above <= PageSize
           bottom == IF ended THEN 1 ELSE above - PageSize
           found == v.expected # None /\ v.expected \in bottom .. above - 1
           low == IF found THEN v.expected + 1 ELSE bottom
           exact == IF v.expected = None THEN ended ELSE found
<1>1. /\ v \in Running /\ Knows(v) /\ Len(txs) \in Nat /\ TypeOK
      /\ v.low \in 0 .. Len(txs) + 1 /\ v.head \in 0 .. Len(txs)
      /\ v.pages \in 0 .. MaxPages
      /\ v.expected \in {None} \cup Positions
      /\ v.pc = "scan"
  BY SyncRecord DEF ScanPage, IInv, Running, Knows
<1>2. known \in 0 .. Len(txs) /\ PageSize \in Nat \ {0} /\ MaxPages \in Nat
  BY IndexerAssumption DEF Heads
<1>3. head \in 0 .. Len(txs) /\ above \in 0 .. Len(txs) + 1
  BY <1>1, <1>2
<1>4. bottom \in 1 .. Len(txs) + 1
  BY <1>1, <1>2, <1>3
<1>5. low \in 0 .. Len(txs) + 1
  BY <1>1, <1>4 DEF Positions
<1>6. exact => low = After(v.expected)
  BY <1>1, IndexerAssumption DEF After, Positions
<1>7. /\ UNCHANGED <<slot, txs, tables>>
      /\ v.pages < MaxPages
      /\ \/ Ends(w)
         \/ /\ exact /\ ~(low > head)
            /\ sync' = [sync EXCEPT ![w] = [v EXCEPT !.pc = "append", !.head = head, !.low = low]]
         \/ sync' = [sync EXCEPT ![w] = [v EXCEPT !.head = head, !.low = low, !.pages = @ + 1]]
  BY DEF ScanPage
<1> HIDE DEF head, above, ended, bottom, found, low, exact
<1>8. CASE Ends(w)
  BY <1>7, <1>8, EndKeepsIInv
<1>9. CASE /\ exact /\ ~(low > head)
           /\ sync' = [sync EXCEPT ![w] = [v EXCEPT !.pc = "append", !.head = head, !.low = low]]
  <2>1. PICK r \in Running : r = [v EXCEPT !.pc = "append", !.head = head, !.low = low]
    BY <1>1, <1>3, <1>5 DEF Running, Stages
  <2>2. low <= head
    BY <1>1, <1>3, <1>5, <1>9
  <2>3. Knows(r)
    BY <1>1, <1>6, <1>9, <2>1, <2>2 DEF Knows, Running
  <2>4. QED
    BY <1>7, <1>9, <2>1, <2>3, QuietStep
<1>10. CASE sync' = [sync EXCEPT ![w] = [v EXCEPT !.head = head, !.low = low, !.pages = @ + 1]]
  <2>1. PICK r \in Running : r = [v EXCEPT !.head = head, !.low = low, !.pages = @ + 1]
    <3>1. v.pages + 1 \in 0 .. MaxPages
      BY <1>1, <1>2, <1>7
    <3>2. QED
      BY <1>1, <1>3, <1>5, <3>1 DEF Running
  <2>2. Knows(r)
    BY <1>1, <2>1 DEF Knows, Running
  <2>3. QED
    BY <1>7, <1>10, <2>1, <2>2, QuietStep
<1>11. QED
  BY <1>7, <1>8, <1>9, <1>10

-----------------------------------------------------------------------------
(* The steps that write the tables                                         *)

\* A snapshot of the slot s leaves every account as of s or later.
LEMMA ApplyKeepsIInv ==
  ASSUME IInv, NEW w \in Syncs, ApplyAccounts(w)
  PROVE  IInv'
<1>1. PICK s \in 0 .. MaxSlot : s = sync[w].slot
  BY SyncRecord DEF Running
<1>2. /\ TypeOK /\ slot \in Nat /\ sync[w] \in Running /\ s \in Nat
      /\ s < slot
      /\ Created(s) \subseteq Baskets
      /\ UNCHANGED <<slot, txs, supplies, accountCursor, events, eventCursor, origin>>
  BY <1>1, SyncRecord DEF ApplyAccounts, IInv, Knows, Running, Created
<1>3. ASSUME NEW b \in Baskets
      PROVE  /\ accounts'[b] \in {None} \cup AccountRows
             /\ accounts'[b] = accounts[b] \/ AccountIsSound(b)'
             /\ accounts[b] # None =>
                  accounts'[b] # None /\ accounts'[b].slot >= accounts[b].slot
             /\ b \in Created(s) => accounts'[b] # None /\ accounts'[b].slot >= s
  <2>1. accounts'[b] =
          IF b \in Created(s) /\ MayReplace(accounts[b], s)
          THEN [version |-> Version(b, s), slot |-> s, active |-> TRUE]
          ELSE IF b \notin Created(s) /\ Vanished(accounts[b], s)
          THEN [accounts[b] EXCEPT !.active = FALSE, !.slot = s]
          ELSE accounts[b]
    BY <1>1 DEF ApplyAccounts
  <2>2. Version(b, s) \in Nat
    BY <1>2, VersionIsNat
  <2>3. accounts[b] # None => accounts[b] \in AccountRows /\ accounts[b].slot \in Nat
    BY <1>2 DEF TypeOK, AccountRows
  <2>4. b \notin Created(s) => ~Vanished(accounts[b], s)
    <3>1. SUFFICES ASSUME Vanished(accounts[b], s), b \notin Created(s) PROVE FALSE
      OBVIOUS
    <3>2. PICK t \in Nat : t = accounts[b].slot /\ t <= s /\ b \in Created(t)
      BY <1>2, <2>3, <3>1 DEF Vanished, IInv, AccountIsSound
    <3>3. QED
      BY <1>2, <3>1, <3>2, CreatedGrows
  <2>5. CASE b \in Created(s) /\ MayReplace(accounts[b], s)
    <3>1. accounts'[b] = [version |-> Version(b, s), slot |-> s, active |-> TRUE]
      BY <2>1, <2>5
    <3>2. accounts'[b] \in AccountRows /\ accounts'[b] # None /\ accounts'[b].slot = s
           /\ accounts'[b].active /\ accounts'[b].version = Version(b, s)
      <4>1. accounts'[b] \in AccountRows
        BY <1>2, <2>2, <3>1 DEF AccountRows
      <4>2. accounts'[b].slot = s /\ accounts'[b].version = Version(b, s)
        BY <3>1
      <4>3. accounts'[b].active = TRUE
        BY <3>1
      <4>4. QED
        BY <4>1, <4>2, <4>3, IndexerAssumption
    <3>3. Created(s)' = Created(s) /\ Version(b, s)' = Version(b, s)
      BY <1>2 DEF Created, Version, Changes, Positions
    <3>4. AccountIsSound(b)'
      BY <1>2, <2>5, <3>2, <3>3 DEF AccountIsSound
    <3>5. QED
      BY <1>2, <2>3, <2>5, <3>2, <3>4 DEF MayReplace
  <2>6. CASE ~(b \in Created(s) /\ MayReplace(accounts[b], s))
    <3>1. accounts'[b] = accounts[b]
      BY <2>1, <2>4, <2>6
    <3>2. b \in Created(s) => accounts[b] # None /\ accounts[b].slot >= s
      BY <1>2, <2>3, <2>6 DEF MayReplace
    <3>3. QED
      BY <1>2, <2>3, <3>1, <3>2 DEF TypeOK
  <2>7. QED
    BY <2>5, <2>6
<1>4. PICK r \in Running : r = [sync[w] EXCEPT !.pc = "supply", !.pending = Created(s)]
  BY <1>2 DEF Running, Stages
<1>5. sync' = [sync EXCEPT ![w] = r]
  BY <1>1, <1>2, <1>4 DEF ApplyAccounts, TypeOK
<1>6. TypeOK' /\ Running' = Running
  <2>1. accounts' \in [Baskets -> {None} \cup AccountRows]
    BY <1>3 DEF ApplyAccounts
  <2>2. QED
    BY <1>2, <1>5, <2>1 DEF TypeOK, Running, Positions
<1>7. Forward
  <2>1. HistoryForward
    BY <1>2, HistoryKept
  <2>2. TablesForward
    BY <1>2, <1>3 DEF TablesForward, TypeOK, SupplyRows
  <2>3. QED
    BY <2>1, <2>2 DEF Forward
<1>8. Created(s)' = Created(s)
  BY <1>2, <1>7, FinalIsFixed DEF Forward
<1>9. Knows(r)'
  <2>1. r.pc = "supply" /\ r.slot = s /\ r.pending = Created(s)
    BY <1>1, <1>2, <1>4 DEF Running
  <2>2. AccountsAsOf(s)'
    BY <1>2, <1>3, <1>8 DEF AccountsAsOf
  <2>3. QED
    BY <1>2, <1>8, <2>1, <2>2 DEF Knows
<1>10. \A v \in Syncs : sync'[v] = sync[v] \/ \E q \in Running' : sync'[v] = q /\ Knows(q)'
  BY <1>2, <1>5, <1>6, <1>9 DEF TypeOK
<1>11. \A b \in Baskets :
           \/ supplies'[b] = supplies[b] /\ accounts'[b] = accounts[b]
           \/ SupplyIsSound(b)'
  <2>1. SUFFICES ASSUME NEW b \in Baskets, supplies[b] # None PROVE SupplyIsSound(b)'
    BY <1>2 DEF SupplyIsSound
  <2>2. SupplyIsSound(b) /\ supplies[b] \in SupplyRows /\ supplies'[b] = supplies[b]
    BY <1>2, <2>1 DEF IInv, TypeOK
  <2>3. PICK t \in Nat : t = supplies[b].slot
    BY <2>2 DEF SupplyRows
  <2>4. t < slot /\ Version(b, t)' = Version(b, t)
    BY <1>7, <2>1, <2>2, <2>3, FinalIsFixed DEF SupplyIsSound, Forward
  <2>5. accounts[b] # None /\ t <= accounts[b].slot
    BY <2>1, <2>2, <2>3 DEF SupplyIsSound
  <2>6. accounts'[b] # None /\ accounts'[b].slot >= accounts[b].slot
    BY <1>3, <2>5
  <2>7. accounts[b].slot \in Nat /\ accounts'[b].slot \in Nat
    BY <1>2, <1>6, <2>5, <2>6 DEF TypeOK, AccountRows
  <2>8. QED
    BY <1>2, <2>1, <2>2, <2>3, <2>4, <2>5, <2>6, <2>7 DEF SupplyIsSound
<1>12. QED
  BY <1>2, <1>3, <1>6, <1>7, <1>10, <1>11, StepKeepsIInv

\* The supply of a basket follows its account.
LEMMA UpsertKeepsIInv ==
  ASSUME IInv, NEW w \in Syncs, NEW b \in Baskets, upsertShareSupply(w, b)
  PROVE  IInv'
<1>1. PICK s \in 0 .. MaxSlot : s = sync[w].slot
  BY SyncRecord DEF Running
<1>2. /\ TypeOK /\ slot \in Nat /\ sync[w] \in Running /\ s \in Nat
      /\ sync[w].pc = "supply" /\ b \in sync[w].pending
      /\ s < slot /\ AccountsAsOf(s)
      /\ sync[w].pending \subseteq Created(s)
      /\ \A a \in Created(s) \ sync[w].pending : SupplyAsOf(a, s)
      /\ UNCHANGED <<slot, txs, accounts, accountCursor, events, eventCursor, origin>>
  BY <1>1, SyncRecord DEF upsertShareSupply, IInv, Knows
<1>3. /\ supplies' = [supplies EXCEPT ![b] = supplies'[b]]
      /\ supplies'[b] = IF MayReplace(supplies[b], s)
                        THEN [version |-> Version(b, s), slot |-> s] ELSE supplies[b]
  BY <1>1, <1>2 DEF upsertShareSupply, TypeOK
<1>4. Version(b, s) \in Nat
  BY <1>2, VersionIsNat
<1>5. supplies[b] # None => supplies[b] \in SupplyRows /\ supplies[b].slot \in Nat
  BY <1>2 DEF TypeOK, SupplyRows
<1>6. /\ supplies'[b] \in SupplyRows /\ supplies'[b] # None /\ supplies'[b].slot >= s
      /\ supplies[b] # None => supplies'[b].slot >= supplies[b].slot
  <2>1. CASE MayReplace(supplies[b], s)
    BY <1>2, <1>3, <1>4, <1>5, <2>1, IndexerAssumption DEF MayReplace, SupplyRows
  <2>2. CASE ~MayReplace(supplies[b], s)
    BY <1>2, <1>3, <1>5, <2>2 DEF MayReplace
  <2>3. QED
    BY <2>1, <2>2
<1>7. PICK r \in Running : r = [sync[w] EXCEPT !.pending = sync[w].pending \ {b}]
  BY <1>2 DEF Running
<1>8. sync' = [sync EXCEPT ![w] = r]
  BY <1>2, <1>7 DEF upsertShareSupply, TypeOK
<1>9. TypeOK' /\ Running' = Running
  <2>1. supplies' \in [Baskets -> {None} \cup SupplyRows]
    BY <1>2, <1>3, <1>6 DEF TypeOK
  <2>2. QED
    BY <1>2, <1>8, <2>1 DEF TypeOK, Running, Positions
<1>10. Forward
  <2>1. HistoryForward
    BY <1>2, HistoryKept
  <2>2. \A a \in Baskets : supplies[a] # None =>
            supplies'[a] # None /\ supplies'[a].slot >= supplies[a].slot
    BY <1>2, <1>3, <1>6 DEF TypeOK, SupplyRows
  <2>3. TablesForward
    BY <1>2, <2>2 DEF TablesForward, TypeOK, AccountRows
  <2>4. QED
    BY <2>1, <2>3 DEF Forward
<1>11. /\ Created(s)' = Created(s) /\ Version(b, s)' = Version(b, s)
       /\ AccountsAsOf(s)'
  BY <1>2, <1>9, <1>10, FinalIsFixed, AccountsAsOfKept DEF Forward
<1>12. Knows(r)'
  <2>1. r.pc = "supply" /\ r.slot = s /\ r.pending = sync[w].pending \ {b}
    BY <1>1, <1>2, <1>7 DEF Running
  <2>2. SupplyAsOf(b, s)'
    BY <1>6 DEF SupplyAsOf
  <2>3. \A a \in Created(s) \ r.pending : SupplyAsOf(a, s)'
    BY <1>2, <1>9, <1>10, <2>1, <2>2, SupplyAsOfKept DEF Created
  <2>4. QED
    BY <1>2, <1>11, <2>1, <2>3 DEF Knows
<1>13. \A v \in Syncs : sync'[v] = sync[v] \/ \E q \in Running' : sync'[v] = q /\ Knows(q)'
  BY <1>2, <1>8, <1>9, <1>12 DEF TypeOK
<1>14. SupplyIsSound(b)'
  <2>1. accounts[b] # None /\ s <= accounts[b].slot /\ accounts' = accounts
    BY <1>2 DEF AccountsAsOf, TypeOK, AccountRows
  <2>2. CASE MayReplace(supplies[b], s)
    <3>1. supplies'[b].version = Version(b, s) /\ supplies'[b].slot = s
      BY <1>3, <2>2
    <3>2. QED
      BY <1>2, <1>11, <2>1, <3>1 DEF SupplyIsSound
  <2>3. CASE ~MayReplace(supplies[b], s)
    <3>1. supplies'[b] = supplies[b] /\ supplies[b] # None /\ SupplyIsSound(b)
      BY <1>3, <2>3 DEF MayReplace, IInv
    <3>2. PICK t \in Nat : t = supplies[b].slot
      BY <1>5, <3>1
    <3>3. t < slot /\ Version(b, t)' = Version(b, t)
      BY <1>10, <3>1, <3>2, FinalIsFixed DEF SupplyIsSound, Forward
    <3>4. QED
      BY <1>2, <2>1, <3>1, <3>2, <3>3 DEF SupplyIsSound
  <2>4. QED
    BY <2>2, <2>3
<1>15. \A a \in Baskets :
           \/ supplies'[a] = supplies[a] /\ accounts'[a] = accounts[a]
           \/ SupplyIsSound(a)'
  BY <1>2, <1>3, <1>14 DEF TypeOK
<1>16. QED
  BY <1>2, <1>9, <1>10, <1>13, <1>15, StepKeepsIInv

\* A cursor moves to what its sync has established, or stays.
LEMMA CursorStep ==
  ASSUME IInv, NEW w \in Syncs, Ends(w), UNCHANGED <<slot, txs, accounts, supplies, events>>,
         accountCursor' \in {None} \cup 0 .. MaxSlot,
         eventCursor' \in {None} \cup Positions, origin' \in 0 .. Len(txs),
         accountCursor' = accountCursor \/ AccountCursorIsSound',
         UNCHANGED <<eventCursor, origin>> \/ EventsUpToCursor'
  PROVE  IInv'
<1>1. TypeOK /\ slot \in Nat
  BY HistoryTypes DEF IInv
<1>2. TypeOK' /\ Running' = Running
  <2>1. Idle \in Running
    BY <1>1, IdleKnows
  <2>2. QED
    BY <1>1, <2>1 DEF TypeOK, Running, Positions, Ends
<1>3. Forward
  <2>1. HistoryForward
    BY <1>1, HistoryKept
  <2>2. TablesForward
    BY <1>1 DEF TablesForward, TypeOK, AccountRows, SupplyRows
  <2>3. QED
    BY <2>1, <2>2 DEF Forward
<1>4. Knows(Idle)'
  BY DEF Knows, Idle
<1>5. \A v \in Syncs : sync'[v] = sync[v] \/ \E q \in Running' : sync'[v] = q /\ Knows(q)'
  BY <1>1, <1>2, <1>4, IdleKnows DEF TypeOK, Ends
<1>6. QED
  BY <1>2, <1>3, <1>5, StepKeepsIInv

LEMMA AdvanceAccountsKeepsIInv ==
  ASSUME IInv, NEW w \in Syncs, AdvanceAccountCursor(w)
  PROVE  IInv'
<1>1. PICK s \in 0 .. MaxSlot : s = sync[w].slot
  BY SyncRecord DEF Running
<1>2. /\ TypeOK /\ Ends(w)
      /\ UNCHANGED <<slot, txs, accounts, supplies, events, eventCursor, origin>>
      /\ accountCursor' \in {accountCursor, s}
  BY <1>1 DEF AdvanceAccountCursor, IInv
<1>3. AccountsAsOf(s) /\ \A b \in Created(s) : SupplyAsOf(b, s)
  BY <1>1, SyncRecord DEF AdvanceAccountCursor, Projected, Knows
<1>4. accountCursor' = s => AccountCursorIsSound'
  BY <1>2, <1>3
     DEF AccountCursorIsSound, AccountsAsOf, SupplyAsOf, Created, Changes, Positions
<1>5. QED
  BY <1>2, <1>4, CursorStep DEF TypeOK

LEMMA AdvanceEventsKeepsIInv ==
  ASSUME IInv, NEW w \in Syncs, AdvanceEventCursor(w)
  PROVE  IInv'
<1>1. PICK head \in Positions : head = sync[w].head /\ Logged(After(sync[w].expected), head)
  BY SyncRecord DEF AdvanceEventCursor, Knows
<1>2. /\ TypeOK /\ EventsUpToCursor /\ Ends(w) /\ Positions \subseteq Nat
      /\ UNCHANGED <<slot, txs, accounts, supplies, accountCursor, events, origin>>
      /\ eventCursor' = IF eventCursor = sync[w].expected THEN head ELSE eventCursor
  BY <1>1 DEF AdvanceEventCursor, IInv, Positions
<1>3. CASE eventCursor = sync[w].expected
  <2>1. \A i \in origin + 1 .. head : ~txs[i].failed => i \in events
    <3>1. SUFFICES ASSUME NEW i \in origin + 1 .. head, ~txs[i].failed PROVE i \in events
      OBVIOUS
    <3>2. origin \in Nat /\ head \in Nat /\ i \in Nat \ {0}
      BY <1>1, <1>2 DEF TypeOK
    <3>3. CASE eventCursor = None
      BY <1>1, <1>3, <3>1, <3>2, <3>3 DEF After, Logged
    <3>4. CASE eventCursor # None
      <4>1. eventCursor \in Nat
        BY <1>2, <3>4 DEF TypeOK
      <4>2. CASE i <= eventCursor
        BY <1>2, <3>1, <3>2, <3>4, <4>1, <4>2 DEF EventsUpToCursor
      <4>3. CASE i > eventCursor
        BY <1>1, <1>3, <3>1, <3>2, <3>4, <4>1, <4>3 DEF After, Logged
      <4>4. QED
        BY <3>2, <4>1, <4>2, <4>3
    <3>5. QED
      BY <3>3, <3>4
  <2>2. EventsUpToCursor'
    BY <1>2, <1>3, <2>1 DEF EventsUpToCursor
  <2>3. QED
    BY <1>1, <1>2, <1>3, <2>2, CursorStep DEF TypeOK
<1>4. CASE eventCursor # sync[w].expected
  BY <1>2, <1>4, CursorStep DEF TypeOK
<1>5. QED
  BY <1>3, <1>4

LEMMA BootstrapKeepsIInv ==
  ASSUME IInv, NEW w \in Syncs, NEW newest \in Heads, BootstrapAtLatest(w, newest)
  PROVE  IInv'
<1>1. /\ TypeOK /\ Ends(w) /\ Len(txs) \in Nat /\ newest \in 0 .. Len(txs)
      /\ UNCHANGED <<slot, txs, accounts, supplies, accountCursor, events>>
  BY HistoryTypes DEF BootstrapAtLatest, IInv, Heads
<1>2. CASE newest > 0 /\ eventCursor = None
  <2>1. eventCursor' = newest /\ origin' = newest /\ newest \in Positions
    BY <1>1, <1>2 DEF BootstrapAtLatest, Positions
  <2>2. EventsUpToCursor'
    BY <1>1, <2>1 DEF EventsUpToCursor
  <2>3. QED
    BY <1>1, <2>1, <2>2, CursorStep DEF TypeOK
<1>3. CASE ~(newest > 0 /\ eventCursor = None)
  BY <1>1, <1>3, CursorStep DEF BootstrapAtLatest, TypeOK
<1>4. QED
  BY <1>2, <1>3

LEMMA AppendKeepsIInv ==
  ASSUME IInv, NEW w \in Syncs, AppendEvents(w)
  PROVE  IInv'
<1>1. /\ TypeOK /\ sync[w] \in Running /\ slot \in Nat /\ Len(txs) \in Nat
      /\ sync[w].low = After(sync[w].expected) /\ sync[w].low <= sync[w].head
      /\ sync[w].expected \in {None} \cup Positions
      /\ sync[w].head \in 0 .. Len(txs)
      /\ UNCHANGED <<slot, txs, accounts, supplies, accountCursor, eventCursor, origin>>
      /\ events' = events \cup {i \in sync[w].low .. sync[w].head : ~txs[i].failed}
  BY SyncRecord DEF AppendEvents, IInv, Knows
<1>2. sync[w].low \in Nat \ {0}
  BY <1>1 DEF After, Positions
<1>3. PICK r \in Running : r = [sync[w] EXCEPT !.pc = "advance"]
  BY <1>1 DEF Running, Stages
<1>4. sync' = [sync EXCEPT ![w] = r]
  BY <1>1, <1>3 DEF AppendEvents, TypeOK
<1>5. TypeOK' /\ Running' = Running
  <2>1. events' \subseteq Positions
    <3>1. sync[w].low .. sync[w].head \subseteq Positions
      BY <1>1, <1>2 DEF Positions
    <3>2. events \subseteq Positions
      BY <1>1 DEF TypeOK
    <3>3. QED
      BY <1>1, <3>1, <3>2
  <2>2. QED
    BY <1>1, <1>4, <2>1 DEF TypeOK, Running, Positions
<1>6. Forward
  <2>1. HistoryForward
    BY <1>1, HistoryKept
  <2>2. TablesForward
    BY <1>1 DEF TablesForward, TypeOK, AccountRows, SupplyRows
  <2>3. QED
    BY <2>1, <2>2 DEF Forward
<1>7. Knows(r)'
  <2>1. r.pc = "advance" /\ r.head = sync[w].head /\ r.expected = sync[w].expected
    BY <1>1, <1>3 DEF Running
  <2>2. r.head \in Positions'
    BY <1>1, <1>2, <2>1 DEF Positions
  <2>3. Logged(After(r.expected), r.head)'
    BY <1>1, <2>1 DEF Logged
  <2>4. r.expected \in {None} \cup Positions'
    BY <1>1, <2>1 DEF Positions
  <2>5. QED
    BY <2>1, <2>2, <2>3, <2>4 DEF Knows
<1>8. \A v \in Syncs : sync'[v] = sync[v] \/ \E q \in Running' : sync'[v] = q /\ Knows(q)'
  BY <1>1, <1>4, <1>5, <1>7 DEF TypeOK
<1>9. QED
  BY <1>1, <1>5, <1>6, <1>8, StepKeepsIInv

LEMMA RunKeepsIInv ==
  ASSUME IInv, NEW w \in Syncs, Run(w)
  PROVE  IInv'
<1>1. CASE Fail(w) \/ Truncated(w)
  BY <1>1, EndKeepsIInv DEF Fail, Truncated
<1>2. QED
  BY <1>1, LoadKeepsIInv, FetchKeepsIInv, ScanKeepsIInv, ApplyKeepsIInv, UpsertKeepsIInv,
     AdvanceAccountsKeepsIInv, AdvanceEventsKeepsIInv, BootstrapKeepsIInv, AppendKeepsIInv
     DEF Run

-----------------------------------------------------------------------------
(* The steps of the chain                                                  *)

LEMMA ChainKeepsIInv ==
  ASSUME IInv, HistoryForward, UNCHANGED <<tables, sync>>,
         slot' \in 1 .. MaxSlot, txs' \in Seq(Transactions)
  PROVE  IInv'
<1>1. TypeOK /\ Len(txs) \in Nat /\ Len(txs') \in Nat /\ Len(txs) <= Len(txs')
  BY HistoryTypes DEF IInv, HistoryForward
<1>2. Running \subseteq Running' /\ Positions \subseteq Positions'
  BY <1>1 DEF Running, Positions
<1>3. TypeOK'
  BY <1>1, <1>2 DEF TypeOK, tables
<1>4. Forward
  BY <1>1 DEF Forward, TablesForward, tables, TypeOK, AccountRows, SupplyRows
<1>5. QED
  BY <1>3, <1>4, StepKeepsIInv DEF tables

LEMMA NextSlotKeepsIInv ==
  ASSUME IInv, NextSlot
  PROVE  IInv'
<1>1. /\ TypeOK /\ slot \in Nat /\ slot' = slot + 1 /\ slot' \in 1 .. MaxSlot
      /\ UNCHANGED <<txs, tables, sync>>
  BY HistoryTypes, IndexerAssumption DEF NextSlot, IInv, TypeOK
<1>2. QED
  BY <1>1, HistoryKept, ChainKeepsIInv DEF TypeOK

LEMMA ExecuteKeepsIInv ==
  ASSUME IInv, NEW b \in Baskets, NEW failed \in BOOLEAN, Execute(b, failed)
  PROVE  IInv'
<1>1. TypeOK /\ slot \in 1 .. MaxSlot
  BY DEF IInv, TypeOK
<1>2. PICK t \in Transactions : /\ t.slot = slot
                                /\ txs' = Append(txs, t)
                                /\ UNCHANGED <<slot, tables, sync>>
  BY <1>1 DEF Execute, Transactions
<1>3. txs' \in Seq(Transactions)
  BY <1>1, <1>2 DEF TypeOK
<1>4. QED
  BY <1>1, <1>2, <1>3, AppendMovesForward, ChainKeepsIInv

-----------------------------------------------------------------------------
(* The theorems                                                            *)

LEMMA InitIInv == Init => IInv
<1> SUFFICES ASSUME Init PROVE IInv
  OBVIOUS
<1>1. Len(txs) = 0 /\ Positions = {}
  BY DEF Init, Positions
<1>2. TypeOK
  BY <1>1, IndexerAssumption DEF Init, TypeOK, Running, Stages, Idle
<1>3. QED
  BY <1>2, IdleKnows
     DEF Init, IInv, AccountIsSound, SupplyIsSound, AccountCursorIsSound, EventsUpToCursor

LEMMA NextIInv == IInv /\ [Next]_vars => IInv'
<1> SUFFICES ASSUME IInv, [Next]_vars PROVE IInv'
  OBVIOUS
<1>1. CASE UNCHANGED vars
  <2>1. TypeOK /\ slot \in Nat
    BY HistoryTypes DEF IInv
  <2>2. UNCHANGED <<slot, txs, tables, sync>>
    BY <1>1 DEF vars, tables
  <2>3. QED
    BY <2>1, <2>2, HistoryKept, ChainKeepsIInv DEF TypeOK
<1>2. QED
  BY <1>1, NextSlotKeepsIInv, ExecuteKeepsIInv, RunKeepsIInv DEF Next

THEOREM Invariance == Spec => []IInv
BY InitIInv, NextIInv, PTL DEF Spec

\* The tables, the cursors and the syncs keep their types: a cursor always
\* names a transaction of the history.
THEOREM TypeCorrect == Spec => []TypeOK
<1>1. IInv => TypeOK
  BY DEF IInv
<1>2. QED
  BY <1>1, Invariance, PTL

\* However syncs overlap, fail and see lagging nodes, every projected row is the
\* account at the end of the slot the row names.
THEOREM RowsStayOfTheirSlot == Spec => []RowsAreOfTheirSlot
<1>1. IInv => RowsAreOfTheirSlot
  BY DEF IInv, RowsAreOfTheirSlot, AccountIsSound, SupplyIsSound
<1>2. QED
  BY <1>1, Invariance, PTL

\* The account cursor never runs ahead of either of the two tables.
THEOREM CursorStaysProjected == Spec => []CursorIsProjected
<1>1. IInv => CursorIsProjected
  BY DEF IInv, CursorIsProjected, AccountCursorIsSound, AccountsAsOf, SupplyAsOf
<1>2. QED
  BY <1>1, Invariance, PTL

\* The event log has no hole, for every page size and every scan window.
THEOREM LogHasNoHole == Spec => []EventsUpToCursor
<1>1. IInv => EventsUpToCursor
  BY DEF IInv
<1>2. QED
  BY <1>1, Invariance, PTL
=============================================================================
