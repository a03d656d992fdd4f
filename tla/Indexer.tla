------------------------------- MODULE Indexer -------------------------------
(***************************************************************************)
(* The read plane's indexer (src/backend/src/indexer): it projects the     *)
(* finalized accounts of the program and the share supply derived from     *)
(* them into PostgreSQL, and copies the program's events into an           *)
(* append-only log.  The API, the workers and NAV read these tables.       *)
(*                                                                         *)
(* A sync is a sequence of separate database transactions that ends with   *)
(* a compare-and-set of the stream's cursor.  It can end at any of them    *)
(* (RPC or database error, crash), and syncs overlap: the two streams of   *)
(* one worker, and two workers during a deployment.  RPC nodes are         *)
(* external: a node may answer from an older finalized slot than another.  *)
(*                                                                         *)
(* The program closes no account.  What an account says is abstracted to   *)
(* its version, the number of transactions that changed it; an event is    *)
(* the position of its transaction in the program's history, which stands  *)
(* for its signature.                                                      *)
(***************************************************************************)
EXTENDS Integers, Sequences, FiniteSetsExt

CONSTANTS
    Syncs,      \* concurrent runs of the two periodic tasks
    Baskets,    \* Basket accounts
    PageSize,   \* signatures in a page
    MaxPages,   \* pages one event sync scans
    MaxSlot,    \* bound: slots
    MaxTxs,     \* bound: transactions of the program
    None

Transactions == [slot : 1 .. MaxSlot, basket : Baskets, failed : BOOLEAN]
AccountRows == [version : Nat, slot : Nat, active : BOOLEAN]
SupplyRows == [version : Nat, slot : Nat]

ASSUME IndexerAssumption ==
    /\ PageSize \in Nat \ {0} /\ MaxPages \in Nat \ {0}
    /\ MaxSlot \in Nat \ {0} /\ MaxTxs \in Nat
    /\ None \notin Nat \cup AccountRows \cup SupplyRows

VARIABLES
    slot,           \* the slot being produced: the slots before it are final
    txs,            \* the program's transactions: slot, basket, failed
    accounts,       \* solana_account_projections
    supplies,       \* basket_share_supply_projections
    accountCursor,  \* indexer_cursors, the account stream
    events,         \* solana_program_events
    eventCursor,    \* indexer_cursors, the event stream
    origin,         \* where the event stream was told to start
    sync            \* the syncs in progress

vars == <<slot, txs, accounts, supplies, accountCursor, events, eventCursor, origin, sync>>
tables == <<accounts, supplies, accountCursor, events, eventCursor, origin>>

Positions == 1 .. Len(txs)

\* The program's history as it stands at the end of slot s.
Changes(b, s) == {i \in Positions : txs[i].slot <= s /\ txs[i].basket = b /\ ~txs[i].failed}
Version(b, s) == Cardinality(Changes(b, s))
Created(s) == {b \in Baskets : Changes(b, s) # {}}

Idle == [pc |-> "idle", expected |-> None, slot |-> 0, pending |-> {},
         head |-> 0, low |-> 0, pages |-> 0]

Stages == {"idle", "fetch", "apply", "supply", "latest", "scan", "append", "advance"}

Running == [pc : Stages, expected : {None} \cup Nat, slot : 0 .. MaxSlot,
            pending : SUBSET Baskets, head : 0 .. Len(txs), low : 0 .. Len(txs) + 1,
            pages : 0 .. MaxPages]

TypeOK ==
    /\ slot \in 1 .. MaxSlot
    /\ txs \in Seq(Transactions)
    /\ accounts \in [Baskets -> {None} \cup AccountRows]
    /\ supplies \in [Baskets -> {None} \cup SupplyRows]
    /\ accountCursor \in {None} \cup 0 .. MaxSlot
    /\ events \subseteq Positions
    /\ eventCursor \in {None} \cup Positions
    /\ origin \in 0 .. Len(txs)
    /\ sync \in [Syncs -> Running]

Init ==
    /\ slot = 1
    /\ txs = <<>>
    /\ accounts = [b \in Baskets |-> None]
    /\ supplies = [b \in Baskets |-> None]
    /\ accountCursor = None
    /\ events = {}
    /\ eventCursor = None
    /\ origin = 0
    /\ sync = [w \in Syncs |-> Idle]

Ends(w) == sync' = [sync EXCEPT ![w] = Idle]

-----------------------------------------------------------------------------
(* The program and its RPC nodes                                           *)

Execute(b, failed) ==
    /\ Len(txs) < MaxTxs
    /\ txs' = Append(txs, [slot |-> slot, basket |-> b, failed |-> failed])
    /\ UNCHANGED <<slot, tables, sync>>

NextSlot ==
    /\ slot < MaxSlot
    /\ slot' = slot + 1
    /\ UNCHANGED <<txs, tables, sync>>

\* The finalized slots a node may answer from.
Finalized == 0 .. slot - 1

\* The length of the history that such a node knows: whole slots of it.
Heads ==
    {h \in 0 .. Len(txs) :
        h > 0 => txs[h].slot < slot /\ (h < Len(txs) => txs[h + 1].slot # txs[h].slot)}

-----------------------------------------------------------------------------
(* SolanaAccountIndexer.sync                                               *)

LoadAccountCursor(w) ==
    /\ sync[w].pc = "idle"
    /\ sync' = [sync EXCEPT ![w].pc = "fetch", ![w].expected = accountCursor]
    /\ UNCHANGED <<slot, txs, tables>>

\* getProgramAccounts; a snapshot that is not newer than the cursor is dropped.
FetchAccounts(w, s) ==
    /\ sync[w].pc = "fetch"
    /\ IF sync[w].expected # None /\ s <= sync[w].expected
       THEN Ends(w)
       ELSE sync' = [sync EXCEPT ![w].pc = "apply", ![w].slot = s]
    /\ UNCHANGED <<slot, txs, tables>>

\* (mutant: the last writer wins)
MayReplace_AnySlot(row, s) == TRUE

\* A row gives way to a newer slot; the same slot can only repeat itself.
MayReplace(row, s) == row = None \/ row.slot <= s

\* (mutant: the deactivation does not compare the slots)
Vanished_AnySlot(row, s) == row # None /\ row.active

\* A row of an older slot that the snapshot does not have.
Vanished(row, s) == row # None /\ row.active /\ row.slot < s

\* applySnapshotMonotonic: one transaction upserts every account of the
\* snapshot and deactivates the older rows the snapshot does not have.
ApplyAccounts(w) ==
    LET s == sync[w].slot IN
    /\ sync[w].pc = "apply"
    /\ accounts' = [b \in Baskets |->
           LET row == accounts[b] IN
           IF b \in Created(s) /\ MayReplace(row, s)
           THEN [version |-> Version(b, s), slot |-> s, active |-> TRUE]
           ELSE IF b \notin Created(s) /\ Vanished(row, s)
           THEN [row EXCEPT !.active = FALSE, !.slot = s]
           ELSE row]
    /\ sync' = [sync EXCEPT ![w].pc = "supply", ![w].pending = Created(s)]
    /\ UNCHANGED <<slot, txs, supplies, accountCursor, events, eventCursor, origin>>

\* BasketShareSupplyAccountProjector: then the supply of every Basket account,
\* each in a transaction of its own.
upsertShareSupply(w, b) ==
    LET s == sync[w].slot IN
    /\ sync[w].pc = "supply"
    /\ b \in sync[w].pending
    /\ supplies' = [supplies EXCEPT ![b] =
           IF MayReplace(@, s) THEN [version |-> Version(b, s), slot |-> s] ELSE @]
    /\ sync' = [sync EXCEPT ![w].pending = @ \ {b}]
    /\ UNCHANGED <<slot, txs, accounts, accountCursor, events, eventCursor, origin>>

\* The cursor moves when every record is written, unless another sync moved it
\* (CursorConflictError).
Projected(w) == sync[w].pc = "supply" /\ sync[w].pending = {}

AdvanceAccountCursor(w) ==
    /\ Projected(w)
    /\ accountCursor' = IF accountCursor = sync[w].expected THEN sync[w].slot ELSE accountCursor
    /\ Ends(w)
    /\ UNCHANGED <<slot, txs, accounts, supplies, events, eventCursor, origin>>

-----------------------------------------------------------------------------
(* SolanaEventIndexer.sync                                                 *)

LoadEventCursor(w) ==
    /\ sync[w].pc = "idle"
    /\ \/ sync' = [sync EXCEPT ![w].pc = "scan", ![w].expected = eventCursor]
       \/ \* bootstrapPolicy "start-latest"
          /\ eventCursor = None
          /\ sync' = [sync EXCEPT ![w].pc = "latest"]
    /\ UNCHANGED <<slot, txs, tables>>

\* (mutant: an empty history becomes a cursor)
BootstrapAtLatest_Empty(w, newest) ==
    /\ sync[w].pc = "latest"
    /\ IF eventCursor = None
       THEN eventCursor' = newest /\ origin' = newest
       ELSE UNCHANGED <<eventCursor, origin>>
    /\ Ends(w)
    /\ UNCHANGED <<slot, txs, accounts, supplies, accountCursor, events>>

\* bootstrapAtLatest: the newest signature becomes the cursor if there is still
\* none.
BootstrapAtLatest(w, newest) ==
    /\ sync[w].pc = "latest"
    /\ IF newest > 0 /\ eventCursor = None
       THEN eventCursor' = newest /\ origin' = newest
       ELSE UNCHANGED <<eventCursor, origin>>
    /\ Ends(w)
    /\ UNCHANGED <<slot, txs, accounts, supplies, accountCursor, events>>

\* One page of getSignaturesForAddress, newest first.  The first page fixes the
\* head of the scan; the node that serves it may lag behind the cursor.
ScanPage(w, known) ==
    LET v == sync[w]
        head == IF v.pages = 0 THEN known ELSE v.head
        above == IF v.pages = 0 THEN known + 1 ELSE v.low
        ended == above <= PageSize
        bottom == IF ended THEN 1 ELSE above - PageSize
        found == v.expected # None /\ v.expected \in bottom .. above - 1
        low == IF found THEN v.expected + 1 ELSE bottom
        exact == IF v.expected = None THEN ended ELSE found
    IN
    /\ v.pc = "scan"
    /\ v.pages < MaxPages
    /\ v.pages > 0 => known = v.head
    /\ IF exact /\ low > head
       THEN Ends(w)    \* nothing new
       ELSE IF exact
       THEN sync' = [sync EXCEPT ![w] = [v EXCEPT !.pc = "append", !.head = head, !.low = low]]
       ELSE IF ended
       THEN Ends(w)    \* EventCursorGapError
       ELSE sync' = [sync EXCEPT ![w] = [v EXCEPT !.head = head, !.low = low, !.pages = @ + 1]]
    /\ UNCHANGED <<slot, txs, tables>>

\* (mutant: what the window held is appended and the cursor moves)
Truncated_Appends(w) ==
    /\ sync[w].pc = "scan"
    /\ sync[w].pages = MaxPages
    /\ sync' = [sync EXCEPT ![w].pc = "append"]
    /\ UNCHANGED <<slot, txs, tables>>

\* The scan window is used up: EventCursorGapError, or EventBackfillTruncatedError
\* without a cursor.  The cursor stays.
Truncated(w) ==
    /\ sync[w].pc = "scan"
    /\ sync[w].pages = MaxPages
    /\ Ends(w)
    /\ UNCHANGED <<slot, txs, tables>>

\* The transactions are fetched, oldest first, and their events appended in one
\* transaction; an event that is there already is left as it is.
AppendEvents(w) ==
    /\ sync[w].pc = "append"
    /\ events' = events \cup {i \in sync[w].low .. sync[w].head : ~txs[i].failed}
    /\ sync' = [sync EXCEPT ![w].pc = "advance"]
    /\ UNCHANGED <<slot, txs, accounts, supplies, accountCursor, eventCursor, origin>>

AdvanceEventCursor(w) ==
    /\ sync[w].pc = "advance"
    /\ eventCursor' = IF eventCursor = sync[w].expected THEN sync[w].head ELSE eventCursor
    /\ Ends(w)
    /\ UNCHANGED <<slot, txs, accounts, supplies, accountCursor, events, origin>>

\* A sync ends at any await, and nothing of it is kept: the next interval
\* starts another one.
Fail(w) ==
    /\ sync[w].pc # "idle"
    /\ Ends(w)
    /\ UNCHANGED <<slot, txs, tables>>

Run(w) ==
    \/ LoadAccountCursor(w)
    \/ \E s \in Finalized : FetchAccounts(w, s)
    \/ \E known \in Heads : BootstrapAtLatest(w, known) \/ ScanPage(w, known)
    \/ ApplyAccounts(w)
    \/ \E b \in Baskets : upsertShareSupply(w, b)
    \/ AdvanceAccountCursor(w)
    \/ LoadEventCursor(w) \/ Truncated(w) \/ AppendEvents(w) \/ AdvanceEventCursor(w)
    \/ Fail(w)

Next ==
    \/ NextSlot
    \/ \E b \in Baskets, failed \in BOOLEAN : Execute(b, failed)
    \/ \E w \in Syncs : Run(w)

Spec == Init /\ [][Next]_vars

-----------------------------------------------------------------------------
(* Properties                                                              *)

\* Whatever syncs overlap, crash or run on a lagging node, a projected row is
\* the account as it was at the end of the slot the row names, is never taken
\* for closed, and its share supply is never of a later slot than the account
\* it was derived from.
RowsAreOfTheirSlot ==
    \A b \in Baskets :
        /\ accounts[b] # None =>
               accounts[b].active /\ accounts[b].version = Version(b, accounts[b].slot)
        /\ supplies[b] # None =>
               /\ supplies[b].version = Version(b, supplies[b].slot)
               /\ supplies[b].slot <= accounts[b].slot

\* The account cursor is a promise about both tables: every basket that existed
\* at the cursor's slot has an account row and a supply row at least as new,
\* although the two are written in separate transactions.
CursorIsProjected ==
    accountCursor # None =>
        \A b \in Created(accountCursor) :
            /\ accounts[b] # None /\ accounts[b].slot >= accountCursor
            /\ supplies[b] # None /\ supplies[b].slot >= accountCursor

\* No event is skipped: between the place the stream was told to start and its
\* cursor, the log has the events of every transaction that succeeded.
EventsUpToCursor ==
    eventCursor # None =>
        \A i \in origin + 1 .. eventCursor : ~txs[i].failed => i \in events
=============================================================================
