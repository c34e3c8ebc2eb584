----------------------- MODULE PostgresSourceProofs -----------------------
(***************************************************************************)
(* CHK-01 for the Postgres source: proofs about PostgresSource for any     *)
(* transactions, rows, record sizes, flush thresholds and any number of    *)
(* lost connections, restarts and slots.                                   *)
(*                                                                         *)
(* What is acknowledged has been saved, always (AcknowledgedIsSaved).  That *)
(* what has been saved is in the log, and the refinement of ChangeLog, are *)
(* lemmas for a steady server: there are servers for which they are false. *)
(***************************************************************************)
EXTENDS PostgresSource, FiniteSetTheorems, SequenceTheorems, TLAPS

-----------------------------------------------------------------------------
(* The inductive invariant.                                                *)

\* What the code relies on and Postgres does not promise: no transaction between
\* two segments of a streamed one, no interrupted recovery of a lost slot, more
\* than a message's length of other WAL behind every commit record.
Steady == ~Mixed /\ ~Fragile /\ Gap > MsgLen

IsCommit(j) == wal[j][2] = "commit"

\* After its commit or abort a transaction writes nothing; a commit finds all
\* rows of its transaction before it; rows are numbered without holes.
WalInv ==
    /\ \A j, k \in DOMAIN wal : (j < k /\ wal[j][1] = wal[k][1]) => wal[j][2] = "row"
    /\ \A j \in DOMAIN wal : IsCommit(j) => RowsUpTo(wal[j][1], j) = RowsOf[wal[j][1]]
    /\ \A x \in Txn : \A n \in 1..RowsUpTo(x, Len(wal)) :
            \E j \in RecordsOf(x, "row") : RowsUpTo(x, j) = n

\* History has the rows of every commit record, in the order of the records.
HistoryInv ==
    /\ \A i \in DOMAIN history :
            /\ history[i][2] \in 1..RowsOf[history[i][1]]
            /\ \E j \in DOMAIN wal : IsCommit(j) /\ wal[j][1] = history[i][1]
    /\ \A j \in DOMAIN wal : IsCommit(j) =>
            \A n \in 1..RowsOf[wal[j][1]] :
                \E i \in DOMAIN history : history[i][1] = wal[j][1] /\ history[i][2] = n
    /\ \A i, k \in DOMAIN history : \A c, d \in DOMAIN wal :
            (i < k /\ IsCommit(c) /\ wal[c][1] = history[i][1]
                   /\ IsCommit(d) /\ wal[d][1] = history[k][1])
                => (c < d \/ (c = d /\ history[i][2] < history[k][2]))

\* The idempotency key of an event names its change: the commit record of its
\* transaction and its place in the transaction.
Keyed(e) ==
    \E j \in DOMAIN wal :
        /\ IsCommit(j) /\ wal[j][1] = e.x
        /\ e.lsn = StartOf(j) /\ e.n = e.cs + 1

LogInv == \A k \in DOMAIN log : Keyed(log[k])

\* Row n of x is in the log.
LogHas(x, n) == \E k \in DOMAIN log : log[k].x = x /\ log[k].n = n

\* The changes of commit record j are in the log, or a re-snapshot covers them
\* and no session will be sent them again.
Dealt(j) ==
    \A i \in DOMAIN history : history[i][1] = wal[j][1] =>
        \/ LogHas(history[i][1], history[i][2])
        \/ (i <= covered /\ StartOf(j) < slot)

SlotInv ==
    /\ slot = NoSlot => (pc = "down" /\ wasEver)
    /\ need => pc \in {"reset", "start"}
    /\ slot <= StartOf(Len(wal) + 1)
    /\ ckpt = 0 \/ ckpt < StartOf(Len(wal) + 1)

ResumeInv ==
    slot # NoSlot =>
        \A j \in DOMAIN wal : (IsCommit(j) /\ StartOf(j) < Resume) =>
            (IF Recovering THEN StartOf(j) < slot ELSE Dealt(j))

\* Among the commits that can still be sent, the log has no later change
\* without the earlier ones.
OrderInv ==
    slot # NoSlot =>
        \A i, k \in DOMAIN history : \A c \in DOMAIN wal :
            (/\ i < k /\ IsCommit(c) /\ wal[c][1] = history[i][1]
             /\ StartOf(c) >= slot /\ LogHas(history[k][1], history[k][2]))
                => LogHas(history[i][1], history[i][2])

InSession == pc \in {"recv", "flush", "save", "ack"}

\* A transaction is being streamed: segments of it were sent, its end was not.
Active(y) ==
    /\ snd.sent[y] > 0
    /\ \A e \in DOMAIN wal : (e <= snd.pos /\ wal[e][1] = y) => wal[e][2] = "row"

SenderInv ==
    /\ snd.pos <= Len(wal) /\ snd.start <= StartOf(Len(wal) + 1)
    /\ \A y \in Txn : snd.sent[y] <= RowsUpTo(y, snd.pos)
    /\ \A y \in Txn : Active(y) =>
          /\ snd.start <= StartOf(snd.pos + 1)
          /\ \A j \in DOMAIN wal : j > snd.pos =>
                \/ wal[j][1] = y
                \/ \E e \in DOMAIN wal : /\ snd.pos < e /\ e < j
                                         /\ wal[e][1] = y /\ wal[e][2] # "row"
    /\ \A k \in DOMAIN snd.out : snd.out[k].lsn + MsgLen < StartOf(snd.pos + 1)

\* What this session has passed is dealt with, and what it has acknowledged
\* or may acknowledge lies before what it has still to send.
PassedInv ==
    /\ st.pos = 0 \/ st.pos < StartOf(snd.pos + 1)
    /\ st.saved <= ckpt
    /\ \A j \in DOMAIN wal :
          (IsCommit(j) /\ (StartOf(j) < snd.start \/ j < snd.pos)) => Dealt(j)
    /\ slot <= snd.start \/ slot <= StartOf(snd.pos + 1)
    /\ st.saved <= snd.start \/ st.saved <= StartOf(snd.pos + 1)

\* The buffer holds rows lo+1..hi of x.
Buffered(x, lo, hi) ==
    /\ Len(st.walBuf) = hi - lo
    /\ \A k \in 1..(hi - lo) :
          st.walBuf[k].x = x /\ st.walBuf[k].n = lo + k /\ st.walBuf[k].cs = lo + k - 1

Nobody == \A y \in Txn : ~Active(y)

\* Between two records.
Quiet ==
    /\ snd.out = <<>> /\ ~parser.inStream
    /\ snd.pos \in DOMAIN wal /\ IsCommit(snd.pos) => Dealt(snd.pos)
    /\ \A y \in Txn : Active(y) =>
          Buffered(y, 0, snd.sent[y]) /\ parser.cs = snd.sent[y] /\ st.open
    /\ Nobody => (st.walBuf = <<>> /\ ~st.open)

\* The commit record at the sender's position is not yet dealt with.
CommitInv ==
    /\ snd.pos \in DOMAIN wal /\ IsCommit(snd.pos)
    /\ Nobody
    /\ snd.start <= StartOf(snd.pos)
    /\ slot <= StartOf(snd.pos) /\ st.saved <= StartOf(snd.pos)

\* The first hi rows of the transaction have been received: the last ones are
\* buffered with the key they will be logged with, the others are in the log.
Receiving(x, hi) ==
    /\ hi \in Nat /\ Len(st.walBuf) <= hi
    /\ Buffered(x, hi - Len(st.walBuf), hi)
    /\ \A k \in DOMAIN st.walBuf : st.walBuf[k].lsn = StartOf(snd.pos)
    /\ \A n \in 1..(hi - Len(st.walBuf)) : LogHas(x, n)

CurTxn  == wal[snd.pos][1]
CurRows == RowsUpTo(wal[snd.pos][1], snd.pos)

\* begin, rows and commit of a transaction sent at its commit.
Plain ==
    /\ CommitInv /\ ~parser.inStream
    /\ ~st.open
    /\ Len(snd.out) \in 1..(CurRows + 2)
    /\ snd.out[Len(snd.out)].type = "commit"
    /\ \A k \in 1..(Len(snd.out) - 1) :
          IF k = 1 /\ Len(snd.out) = CurRows + 2
          THEN snd.out[k].type = "begin" /\ snd.out[k].final = StartOf(snd.pos)
          ELSE /\ snd.out[k].type = "row" /\ snd.out[k].x = CurTxn
               /\ snd.out[k].n = CurRows + 1 + k - Len(snd.out)
    /\ IF Len(snd.out) = CurRows + 2 THEN st.walBuf = <<>>
       ELSE /\ parser.lsn = StartOf(snd.pos)
            /\ parser.cs = CurRows + 1 - Len(snd.out)
            /\ Receiving(CurTxn, CurRows + 1 - Len(snd.out))

\* All messages of a commit are handled, its rows are being appended.
Final ==
    /\ CommitInv /\ ~parser.inStream /\ ~st.open /\ snd.out = <<>> /\ st.then = "save"
    /\ Receiving(CurTxn, CurRows)

Tails == IF IsCommit(snd.pos) THEN 1 ELSE 0

StreamTail ==
    IsCommit(snd.pos) =>
        /\ CommitInv
        /\ snd.out[Len(snd.out)].type = "streamcommit"
        /\ snd.out[Len(snd.out)].final = StartOf(snd.pos)

\* A segment of a streamed transaction, or what is left of it.
Segmenting ==
    LET b == Len(st.walBuf)
        rest == Len(snd.out) - Tails
    IN
    /\ snd.pos \in DOMAIN wal /\ wal[snd.pos][2] \in {"row", "commit"}
    /\ \A y \in Txn : Active(y) => y = CurTxn
    /\ wal[snd.pos][2] = "row" => Active(CurTxn)
    /\ snd.sent[CurTxn] = CurRows
    /\ b <= CurRows /\ Buffered(CurTxn, 0, b)
    /\ snd.out # <<>> /\ StreamTail
    /\ \/ rest = 0 /\ b = CurRows /\ ~parser.inStream
       \/ /\ rest = CurRows - b + 1
          /\ parser.inStream /\ st.open /\ parser.cs = b
          /\ snd.out[rest].type = "streamstop"
          /\ \A k \in 1..(CurRows - b) :
                /\ snd.out[k].type = "xidrow" /\ snd.out[k].x = CurTxn
                /\ snd.out[k].n = b + k
       \/ /\ rest = CurRows - b + 2
          /\ ~parser.inStream /\ snd.out[1].type = "streamstart"
          /\ IF b = 0 THEN snd.out[1].n = 1 ELSE snd.out[1].n = 0 /\ parser.cs = b
          /\ snd.out[rest].type = "streamstop"
          /\ \A k \in 1..(CurRows - b) :
                /\ snd.out[k + 1].type = "xidrow" /\ snd.out[k + 1].x = CurTxn
                /\ snd.out[k + 1].n = b + k

Aborting ==
    /\ snd.pos \in DOMAIN wal /\ wal[snd.pos][2] = "abort"
    /\ Nobody /\ ~parser.inStream
    /\ Len(snd.out) = 1 /\ snd.out[1].type = "streamabort"

\* Where the connector is within the messages of a record.
PhaseInv ==
    \/ pc = "recv" /\ (Quiet \/ Plain \/ Segmenting \/ Aborting)
    \/ pc = "flush" /\ st.walBuf # <<>> /\ ((Plain /\ st.then = "recv") \/ Final)
    \/ pc = "save" /\ Quiet /\ Nobody
    \/ pc = "ack" /\ Quiet /\ Nobody /\ st.pos = ckpt /\ st.saved = ckpt

SessionInv == InSession => (SenderInv /\ PassedInv /\ PhaseInv)

MsgType == {"begin", "row", "commit", "streamstart", "xidrow", "streamstop",
            "streamcommit", "streamabort"}
Message == [type : MsgType, x : Txn, lsn : Nat, n : Nat, final : Nat]
Sender == [start : Nat, pos : Nat, sent : [Txn -> Nat], out : Seq(Message)]

SourceTypeOK == TypeOK /\ snd \in Sender

SourceInv ==
    /\ SourceTypeOK /\ WalInv /\ HistoryInv /\ LogInv
    /\ SlotInv /\ ResumeInv /\ OrderInv /\ SessionInv

-----------------------------------------------------------------------------
(* Addresses in the WAL.                                                   *)

LEMMA UnitTimes ==
    ASSUME NEW d \in Nat, d >= 1
    PROVE  d * Unit >= Unit
BY SourceAssumption

\* Records follow each other, Unit LSNs apart.
LEMMA StartGrows ==
    ASSUME NEW i \in Nat, NEW j \in Nat, i < j
    PROVE  StartOf(i) + Unit <= StartOf(j)
<1>1. (j - 1) * Unit = (i - 1) * Unit + (j - i) * Unit
  BY SourceAssumption
<1>2. (j - i) * Unit >= Unit
  BY UnitTimes
<1>3. QED
  BY <1>1, <1>2, SourceAssumption DEF StartOf

LEMMA StartType ==
    ASSUME NEW i \in Nat \ {0}
    PROVE  StartOf(i) \in Nat
<1>1. i - 1 \in Nat
  OBVIOUS
<1>2. QED
  BY <1>1, SourceAssumption DEF StartOf

\* The order of the LSNs is the order of the records.
LEMMA StartOrder ==
    ASSUME NEW i \in Nat \ {0}, NEW j \in Nat \ {0}
    PROVE  /\ StartOf(i) \in Nat /\ StartOf(j) \in Nat
           /\ StartOf(i) < StartOf(j) <=> i < j
           /\ StartOf(i) <= StartOf(j) <=> i <= j
           /\ StartOf(i) = StartOf(j) <=> i = j
           /\ i < j => StartOf(i) + Unit <= StartOf(j)
<1>1. i < j => StartOf(i) + Unit <= StartOf(j)
  BY StartGrows
<1>2. j < i => StartOf(j) + Unit <= StartOf(i)
  BY StartGrows
<1>3. StartOf(i) \in Nat /\ StartOf(j) \in Nat
  BY StartType
<1>4. Unit \in Nat /\ Unit > 0
  BY SourceAssumption
<1>5. QED
  BY <1>1, <1>2, <1>3, <1>4

LEMMA EndType ==
    ASSUME NEW i \in Nat
    PROVE  /\ EndOf(i) \in Nat
           /\ i > 0 => EndOf(i) = StartOf(i + 1) - Gap
           /\ i = 0 => EndOf(i) = 0
<1>1. i > 0 => EndOf(i) = StartOf(i + 1) - Gap
  BY SourceAssumption DEF EndOf, StartOf
<1>2. i > 0 => StartOf(i) + Unit <= StartOf(i + 1) /\ StartOf(i) \in Nat /\ StartOf(i + 1) \in Nat
  BY StartOrder
<1>3. QED
  BY <1>1, <1>2, SourceAssumption DEF EndOf

-----------------------------------------------------------------------------
(* Rows of a transaction in the WAL.                                       *)

Kinds == {"row", "commit", "abort"}
Wal == Seq(Txn \X {"row", "commit", "abort"})
Hist == Seq(Txn \X Nat)
Events == Seq(Event)

LEMMA PairParts ==
    ASSUME NEW p, NEW a, NEW b, p = <<a, b>>
    PROVE  p[1] = a /\ p[2] = b
OBVIOUS

LEMMA PairEqual ==
    ASSUME NEW S, NEW T, NEW p \in S \X T, NEW a, NEW b
    PROVE  p = <<a, b>> <=> (p[1] = a /\ p[2] = b)
OBVIOUS

LEMMA WalTypes ==
    ASSUME wal \in Wal
    PROVE  /\ Len(wal) \in Nat /\ DOMAIN wal = 1..Len(wal)
           /\ \A j \in DOMAIN wal : wal[j][1] \in Txn /\ wal[j][2] \in Kinds
           /\ \A x, k : RecordsOf(x, k) = {j \in 1..Len(wal) : wal[j][1] = x /\ wal[j][2] = k}
<1>1. Len(wal) \in Nat /\ DOMAIN wal = 1..Len(wal)
  BY LenProperties DEF Wal
<1>2. \A j \in DOMAIN wal : wal[j] \in Txn \X Kinds
  BY ElementOfSeq, <1>1 DEF Wal, Kinds
<1>3. \A j \in DOMAIN wal : wal[j][1] \in Txn /\ wal[j][2] \in Kinds
  BY <1>2
<1>4. ASSUME NEW x, NEW k
      PROVE  RecordsOf(x, k) = {j \in 1..Len(wal) : wal[j][1] = x /\ wal[j][2] = k}
  <2>1. \A j \in DOMAIN wal : wal[j] = <<x, k>> <=> (wal[j][1] = x /\ wal[j][2] = k)
    BY <1>2
  <2>2. QED
    BY <2>1, <1>1 DEF RecordsOf
<1>5. QED
  BY <1>1, <1>3, <1>4

LEMMA RowsFinite ==
    ASSUME wal \in Wal, NEW x, NEW i \in Nat
    PROVE  /\ IsFiniteSet({j \in RecordsOf(x, "row") : j <= i})
           /\ RowsUpTo(x, i) \in Nat
<1>1. {j \in RecordsOf(x, "row") : j <= i} \subseteq 1..Len(wal) /\ Len(wal) \in Nat
  BY WalTypes
<1>2. IsFiniteSet(1..Len(wal))
  BY <1>1, FS_Interval
<1>3. IsFiniteSet({j \in RecordsOf(x, "row") : j <= i})
  BY <1>1, <1>2, FS_Subset
<1>4. QED
  BY <1>3, FS_CardinalityType DEF RowsUpTo

LEMMA RowsGrow ==
    ASSUME wal \in Wal, NEW x, NEW i \in Nat, NEW k \in Nat, i <= k
    PROVE  RowsUpTo(x, i) <= RowsUpTo(x, k)
<1>1. {j \in RecordsOf(x, "row") : j <= i} \subseteq {j \in RecordsOf(x, "row") : j <= k}
  BY WalTypes
<1>2. QED
  BY <1>1, RowsFinite, FS_Subset DEF RowsUpTo

\* One record further: a row of x counts, any other record does not.
LEMMA RowsNext ==
    ASSUME wal \in Wal, NEW x, NEW i \in Nat
    PROVE  /\ (i + 1 \in DOMAIN wal /\ wal[i + 1][1] = x /\ wal[i + 1][2] = "row")
                => RowsUpTo(x, i + 1) = RowsUpTo(x, i) + 1
           /\ ~(i + 1 \in DOMAIN wal /\ wal[i + 1][1] = x /\ wal[i + 1][2] = "row")
                => RowsUpTo(x, i + 1) = RowsUpTo(x, i)
<1> DEFINE S == {j \in RecordsOf(x, "row") : j <= i}
           T == {j \in RecordsOf(x, "row") : j <= i + 1}
<1>0. RecordsOf(x, "row") = {j \in 1..Len(wal) : wal[j][1] = x /\ wal[j][2] = "row"} /\ Len(wal) \in Nat
      /\ DOMAIN wal = 1..Len(wal)
  BY WalTypes
<1>1. IsFiniteSet(S)
  BY RowsFinite
<1>2. CASE i + 1 \in DOMAIN wal /\ wal[i + 1][1] = x /\ wal[i + 1][2] = "row"
  <2>1. T = S \cup {i + 1} /\ i + 1 \notin S
    BY <1>0, <1>2
  <2>2. Cardinality(T) = Cardinality(S) + 1
    BY <2>1, <1>1, FS_AddElement
  <2>3. QED
    BY <2>2, <1>2 DEF RowsUpTo
<1>3. CASE ~(i + 1 \in DOMAIN wal /\ wal[i + 1][1] = x /\ wal[i + 1][2] = "row")
  <2>1. T = S
    BY <1>0, <1>3
  <2>2. QED
    BY <2>1, <1>3 DEF RowsUpTo
<1>4. QED
  BY <1>2, <1>3

\* A row record of x is one more than what lies before it.
LEMMA RowCounts ==
    ASSUME wal \in Wal, NEW x, NEW r \in DOMAIN wal, wal[r][1] = x, wal[r][2] = "row",
           NEW i \in Nat, i < r
    PROVE  RowsUpTo(x, i) < RowsUpTo(x, r)
<1>1. r \in Nat /\ r >= 1 /\ r - 1 \in Nat /\ i <= r - 1
  BY WalTypes
<1> DEFINE q == r - 1
<1>2. q \in Nat /\ q + 1 = r /\ i <= q
  BY <1>1
<1> HIDE DEF q
<1>3. RowsUpTo(x, q + 1) = RowsUpTo(x, q) + 1
  BY <1>2, RowsNext
<1>4. RowsUpTo(x, i) <= RowsUpTo(x, q)
  BY <1>2, RowsGrow
<1>5. RowsUpTo(x, i) \in Nat /\ RowsUpTo(x, q) \in Nat
  BY <1>2, RowsFinite
<1>6. QED
  BY <1>2, <1>3, <1>4, <1>5

\* The n-th row of x lies among the first i records if they have n rows of x.
LEMMA RowAtIn ==
    ASSUME wal \in Wal, WalInv, NEW x \in Txn, NEW i \in 0..Len(wal),
           NEW n \in 1..RowsUpTo(x, i)
    PROVE  RowAt(x, n) \in 1..i
<1>0. Len(wal) \in Nat /\ DOMAIN wal = 1..Len(wal) /\ i \in Nat /\ i <= Len(wal)
  BY WalTypes
<1>1. RowsUpTo(x, i) <= RowsUpTo(x, Len(wal)) /\ RowsUpTo(x, i) \in Nat
      /\ RowsUpTo(x, Len(wal)) \in Nat
  BY <1>0, RowsGrow, RowsFinite
<1>2. n \in 1..RowsUpTo(x, Len(wal))
  BY <1>1
<1>3. \E j \in RecordsOf(x, "row") : RowsUpTo(x, j) = n
  BY <1>2 DEF WalInv
<1>4. PICK r : r = RowAt(x, n)
  OBVIOUS
<1>5. r \in RecordsOf(x, "row") /\ RowsUpTo(x, r) = n
  BY <1>3, <1>4 DEF RowAt
<1>6. r \in DOMAIN wal /\ wal[r][1] = x /\ wal[r][2] = "row"
  BY <1>5, <1>0, WalTypes
<1>7. r <= i
  <2>1. ASSUME i < r PROVE FALSE
    <3>1. RowsUpTo(x, i) < RowsUpTo(x, r)
      BY <2>1, <1>6, <1>0, RowCounts
    <3>2. QED
      BY <3>1, <1>5, <1>1
  <2>2. QED
    BY <2>1, <1>6, <1>0
<1>8. QED
  BY <1>7, <1>6, <1>0, <1>4

-----------------------------------------------------------------------------
(* The database writes a record.                                           *)

Writes(x, kind) ==
    /\ MayRun(x)
    /\ wal' = Append(wal, <<x, kind>>)
    /\ kind = "row" => RowsUpTo(x, Len(wal)) < RowsOf[x]
    /\ kind = "commit" => RowsUpTo(x, Len(wal)) = RowsOf[x]
    /\ IF kind = "commit" THEN history' = history \o [n \in 1..RowsOf[x] |-> <<x, n>>]
       ELSE history' = history
    /\ UNCHANGED <<slot, connVars, durVars>>

LEMMA WalAppends ==
    ASSUME wal \in Wal, NEW x \in Txn, NEW kind \in Kinds, wal' = Append(wal, <<x, kind>>)
    PROVE  /\ wal' \in Wal /\ Len(wal') = Len(wal) + 1 /\ Len(wal) \in Nat
           /\ DOMAIN wal = 1..Len(wal) /\ DOMAIN wal' = 1..(Len(wal) + 1)
           /\ \A j \in 1..Len(wal) : wal'[j] = wal[j]
           /\ wal'[Len(wal) + 1][1] = x /\ wal'[Len(wal) + 1][2] = kind
           /\ \A y, k : RecordsOf(y, k)' = {j \in DOMAIN wal' : wal'[j][1] = y /\ wal'[j][2] = k}
<1>1. <<x, kind>> \in Txn \X {"row", "commit", "abort"}
  BY DEF Kinds
<1>2. /\ wal' \in Wal /\ Len(wal') = Len(wal) + 1 /\ Len(wal) \in Nat
      /\ DOMAIN wal = 1..Len(wal) /\ DOMAIN wal' = 1..(Len(wal) + 1)
      /\ \A j \in 1..Len(wal) : wal'[j] = wal[j]
      /\ wal'[Len(wal) + 1] = <<x, kind>>
  BY <1>1, AppendProperties, LenProperties DEF Wal
<1>3. \A j \in DOMAIN wal' : wal'[j] \in Txn \X Kinds
  BY <1>2, ElementOfSeq DEF Wal, Kinds
<1>5. ASSUME NEW y, NEW k
      PROVE  RecordsOf(y, k)' = {j \in DOMAIN wal' : wal'[j][1] = y /\ wal'[j][2] = k}
  <2>1. RecordsOf(y, k)' = {j \in DOMAIN wal' : wal'[j] = <<y, k>>}
    BY DEF RecordsOf
  <2>2. \A j \in DOMAIN wal' : wal'[j] = <<y, k>> <=> (wal'[j][1] = y /\ wal'[j][2] = k)
    <3>1. ASSUME NEW j \in DOMAIN wal'
          PROVE  wal'[j] = <<y, k>> <=> (wal'[j][1] = y /\ wal'[j][2] = k)
      <4>1. PICK p : p = wal'[j]
        OBVIOUS
      <4>2. p \in Txn \X Kinds
        BY <4>1, <1>3
      <4>3. QED
        BY <4>1, <4>2, PairEqual
    <3>2. QED
      BY <3>1, Zenon
  <2>3. QED
    BY <2>1, <2>2, Zenon
<1>6. wal'[Len(wal) + 1][1] = x /\ wal'[Len(wal) + 1][2] = kind
  <2>1. PICK p : p = wal'[Len(wal) + 1]
    OBVIOUS
  <2>2. QED
    BY <2>1, <1>2, PairParts
<1>7. QED
  BY <1>2, <1>5, <1>6

\* Counts of earlier records stay, and a new row counts for its transaction.
LEMMA RowsAppend ==
    ASSUME wal \in Wal, NEW x \in Txn, NEW kind \in Kinds, wal' = Append(wal, <<x, kind>>),
           NEW y
    PROVE  /\ \A i \in 0..Len(wal) : RowsUpTo(y, i)' = RowsUpTo(y, i)
           /\ RowsUpTo(y, Len(wal))'
                = IF y = x /\ kind = "row" THEN RowsUpTo(y, Len(wal)) + 1
                  ELSE RowsUpTo(y, Len(wal))
<1> DEFINE S(i) == {j \in RecordsOf(y, "row") : j <= i}
           T(i) == {j \in RecordsOf(y, "row")' : j <= i}
<1>0. /\ Len(wal) \in Nat /\ DOMAIN wal = 1..Len(wal) /\ DOMAIN wal' = 1..(Len(wal) + 1)
      /\ Len(wal') = Len(wal) + 1
      /\ \A j \in 1..Len(wal) : wal'[j] = wal[j]
      /\ wal'[Len(wal) + 1][1] = x /\ wal'[Len(wal) + 1][2] = kind
  BY WalAppends
<1>a. /\ RecordsOf(y, "row") = {j \in DOMAIN wal : wal[j][1] = y /\ wal[j][2] = "row"}
      /\ RecordsOf(y, "row")' = {j \in DOMAIN wal' : wal'[j][1] = y /\ wal'[j][2] = "row"}
  BY WalAppends, WalTypes
<1>1. ASSUME NEW i \in 0..Len(wal) PROVE RowsUpTo(y, i)' = RowsUpTo(y, i)
  <2>1. T(i) = S(i)
    BY <1>0, <1>a
  <2>2. QED
    BY <2>1 DEF RowsUpTo
<1>2. IsFiniteSet(S(Len(wal)))
  BY <1>0, RowsFinite
<1>3. CASE y = x /\ kind = "row"
  <2>1. T(Len(wal')) = S(Len(wal)) \cup {Len(wal) + 1} /\ Len(wal) + 1 \notin S(Len(wal))
    BY <1>0, <1>a, <1>3
  <2>2. Cardinality(T(Len(wal'))) = Cardinality(S(Len(wal))) + 1
    BY <2>1, <1>2, FS_AddElement
  <2>3. RowsUpTo(y, Len(wal))' = Cardinality(T(Len(wal')))
    BY DEF RowsUpTo
  <2>4. QED
    BY <1>1, <1>3, <2>2, <2>3 DEF RowsUpTo
<1>4. CASE ~(y = x /\ kind = "row")
  <2>1. T(Len(wal')) = S(Len(wal))
    BY <1>0, <1>a, <1>4
  <2>2. RowsUpTo(y, Len(wal))' = Cardinality(T(Len(wal')))
    BY DEF RowsUpTo
  <2>3. QED
    BY <1>1, <1>4, <2>1, <2>2 DEF RowsUpTo
<1>5. QED
  BY <1>1, <1>3, <1>4

\* A transaction that may run has no end record.
LEMMA NotEnded ==
    ASSUME wal \in Wal, NEW x \in Txn, MayRun(x)
    PROVE  \A j \in DOMAIN wal : wal[j][1] = x => wal[j][2] = "row"
<1>1. /\ DOMAIN wal = 1..Len(wal)
      /\ \A j \in DOMAIN wal : wal[j][2] \in Kinds
      /\ \A k : RecordsOf(x, k) = {j \in 1..Len(wal) : wal[j][1] = x /\ wal[j][2] = k}
  BY WalTypes
<1>2. RecordsOf(x, "commit") = {} /\ RecordsOf(x, "abort") = {}
  BY DEF MayRun, Ended
<1>3. QED
  BY <1>1, <1>2 DEF Kinds

LEMMA WritesWal ==
    ASSUME wal \in Wal, WalInv, NEW x \in Txn, NEW kind \in Kinds, Writes(x, kind)
    PROVE  WalInv'
<1>0. /\ Len(wal) \in Nat /\ DOMAIN wal = 1..Len(wal) /\ DOMAIN wal' = 1..(Len(wal) + 1)
      /\ Len(wal') = Len(wal) + 1
      /\ \A j \in 1..Len(wal) : wal'[j] = wal[j]
      /\ wal'[Len(wal) + 1][1] = x /\ wal'[Len(wal) + 1][2] = kind
  BY WalAppends DEF Writes
<1>1. \A j \in DOMAIN wal : wal[j][1] = x => wal[j][2] = "row"
  BY NotEnded DEF Writes
<1>r. \A y : /\ RecordsOf(y, "row") = {j \in DOMAIN wal : wal[j][1] = y /\ wal[j][2] = "row"}
             /\ RecordsOf(y, "row")' = {j \in DOMAIN wal' : wal'[j][1] = y /\ wal'[j][2] = "row"}
  BY WalTypes, WalAppends DEF Writes
<1>2. ASSUME NEW j \in DOMAIN wal', NEW k \in DOMAIN wal', j < k, wal'[j][1] = wal'[k][1]
      PROVE  wal'[j][2] = "row"
  BY <1>0, <1>1, <1>2 DEF WalInv
<1>3. \A y : /\ \A i \in 0..Len(wal) : RowsUpTo(y, i)' = RowsUpTo(y, i)
             /\ RowsUpTo(y, Len(wal))'
                = IF y = x /\ kind = "row" THEN RowsUpTo(y, Len(wal)) + 1
                  ELSE RowsUpTo(y, Len(wal))
  BY RowsAppend DEF Writes
<1>4. ASSUME NEW j \in DOMAIN wal', IsCommit(j)'
      PROVE  (RowsUpTo(wal[j][1], j) = RowsOf[wal[j][1]])'
  <2>1. CASE j \in DOMAIN wal
    <3>1. wal'[j] = wal[j] /\ IsCommit(j) /\ j \in 0..Len(wal)
      BY <2>1, <1>0, <1>4 DEF IsCommit
    <3>2. RowsUpTo(wal[j][1], j) = RowsOf[wal[j][1]]
      BY <3>1, <2>1 DEF WalInv
    <3>3. PICK y : y = wal[j][1]
      OBVIOUS
    <3>4. RowsUpTo(y, j)' = RowsUpTo(y, j)
      BY <1>3, <3>1
    <3>5. QED
      BY <3>1, <3>2, <3>3, <3>4
  <2>2. CASE j = Len(wal) + 1
    <3>1. kind = "commit"
      BY <2>2, <1>0, <1>4 DEF IsCommit
    <3>2. RowsUpTo(x, Len(wal)) = RowsOf[x]
      BY <3>1 DEF Writes
    <3>3. RowsUpTo(x, j)' = RowsOf[x]
      BY <3>1, <3>2, <1>3, <2>2, <1>0
    <3>4. QED
      BY <3>3, <2>2, <1>0
  <2>3. QED
    BY <2>1, <2>2, <1>0
<1>5. ASSUME NEW y \in Txn, NEW n \in 1..RowsUpTo(y, Len(wal))'
      PROVE  \E j \in RecordsOf(y, "row")' : RowsUpTo(y, j)' = n
  <2>0. RowsUpTo(y, Len(wal))' = IF y = x /\ kind = "row" THEN RowsUpTo(y, Len(wal)) + 1
                                ELSE RowsUpTo(y, Len(wal))
    BY <1>0, <1>3
  <2>1. RowsUpTo(y, Len(wal)) \in Nat
    BY <1>0, RowsFinite
  <2>2. CASE n \in 1..RowsUpTo(y, Len(wal))
    <3>1. PICK j \in RecordsOf(y, "row") : RowsUpTo(y, j) = n
      BY <2>2 DEF WalInv
    <3>2. j \in 0..Len(wal) /\ j \in RecordsOf(y, "row")'
      BY <3>1, <1>0, <1>r
    <3>3. QED
      BY <3>1, <3>2, <1>3
  <2>3. CASE n \notin 1..RowsUpTo(y, Len(wal))
    <3>1. y = x /\ kind = "row" /\ n = RowsUpTo(y, Len(wal)) + 1
      BY <2>0, <2>1, <2>3, <1>3
    <3>2. Len(wal) + 1 \in RecordsOf(y, "row")'
      BY <3>1, <1>0, <1>r
    <3>3. QED
      BY <3>1, <3>2, <1>3, <1>0
  <2>4. QED
    BY <2>2, <2>3
<1>6. QED
  BY <1>2, <1>4, <1>5 DEF WalInv

LEMMA HistoryTypes ==
    ASSUME history \in Hist
    PROVE  /\ Len(history) \in Nat /\ DOMAIN history = 1..Len(history)
           /\ \A i \in DOMAIN history : history[i][1] \in Txn /\ history[i][2] \in Nat
<1>1. Len(history) \in Nat /\ DOMAIN history = 1..Len(history)
  BY LenProperties DEF Hist
<1>2. \A i \in DOMAIN history : history[i] \in Txn \X Nat
  BY ElementOfSeq, <1>1 DEF Hist
<1>3. QED
  BY <1>1, <1>2

LEMMA LogTypes ==
    ASSUME log \in Events
    PROVE  /\ Len(log) \in Nat /\ DOMAIN log = 1..Len(log)
           /\ \A k \in DOMAIN log : log[k] \in Event
<1>1. Len(log) \in Nat /\ DOMAIN log = 1..Len(log)
  BY LenProperties DEF Events
<1>2. QED
  BY ElementOfSeq, <1>1 DEF Events

LEMMA RowSeq ==
    ASSUME NEW x \in Txn, NEW r \in Nat, NEW t, t = [n \in 1..r |-> <<x, n>>]
    PROVE  t \in Hist /\ Len(t) = r /\ \A n \in 1..r : t[n][1] = x /\ t[n][2] = n
BY DEF Hist

LEMMA HistoryConcat ==
    ASSUME NEW h \in Hist, NEW t \in Hist
    PROVE  /\ h \o t \in Hist /\ Len(h \o t) = Len(h) + Len(t)
           /\ Len(h) \in Nat /\ Len(t) \in Nat
           /\ DOMAIN (h \o t) = 1..(Len(h) + Len(t)) /\ DOMAIN h = 1..Len(h)
           /\ \A i \in 1..(Len(h) + Len(t)) :
                 (h \o t)[i] = IF i <= Len(h) THEN h[i] ELSE t[i - Len(h)]
<1>0. PICK g : g = h \o t
  OBVIOUS
<1>1. /\ g \in Hist /\ Len(g) = Len(h) + Len(t)
      /\ \A i \in 1..(Len(h) + Len(t)) : g[i] = IF i <= Len(h) THEN h[i] ELSE t[i - Len(h)]
  BY <1>0, ConcatProperties DEF Hist
<1>2. Len(h) \in Nat /\ Len(t) \in Nat /\ DOMAIN g = 1..Len(g) /\ DOMAIN h = 1..Len(h)
  BY <1>1, LenProperties DEF Hist
<1>3. QED
  BY <1>0, <1>1, <1>2

\* A commit adds the rows of its transaction at the end of history.
LEMMA HistoryAppends ==
    ASSUME history \in Hist, NEW x \in Txn, NEW kind \in Kinds, Writes(x, kind)
    PROVE  /\ history' \in Hist /\ Len(history) \in Nat /\ Len(history') \in Nat
           /\ Len(history') >= Len(history)
           /\ DOMAIN history = 1..Len(history) /\ DOMAIN history' = 1..Len(history')
           /\ \A i \in DOMAIN history : history'[i] = history[i]
           /\ \A i \in DOMAIN history' : i \notin DOMAIN history =>
                /\ kind = "commit" /\ history'[i][1] = x /\ history'[i][2] = i - Len(history)
                /\ i - Len(history) \in 1..RowsOf[x]
           /\ kind = "commit" => \A n \in 1..RowsOf[x] :
                /\ Len(history) + n \in DOMAIN history'
                /\ history'[Len(history) + n][1] = x /\ history'[Len(history) + n][2] = n
           /\ kind = "commit" => Len(history') = Len(history) + RowsOf[x]
<1>0. Len(history) \in Nat /\ DOMAIN history = 1..Len(history)
  BY HistoryTypes
<1>1. CASE kind # "commit"
  <2>1. history' = history
    BY <1>1 DEF Writes
  <2>2. QED
    BY <2>1, <1>0, <1>1
<1>2. CASE kind = "commit"
  <2>0. RowsOf[x] \in Nat \ {0}
    BY SourceAssumption
  <2>2. PICK t : t = [n \in 1..RowsOf[x] |-> <<x, n>>] /\ history' = history \o t
    BY <1>2 DEF Writes
  <2>1. t \in Hist /\ Len(t) = RowsOf[x] /\ \A n \in 1..RowsOf[x] : t[n][1] = x /\ t[n][2] = n
    BY <2>0, <2>2, RowSeq
  <2>4. history' = history \o t
    BY <2>2
  <2>3. /\ history' \in Hist /\ Len(history') = Len(history) + RowsOf[x]
        /\ DOMAIN history' = 1..(Len(history) + RowsOf[x])
        /\ \A i \in 1..(Len(history) + RowsOf[x]) :
              history'[i] = IF i <= Len(history) THEN history[i] ELSE t[i - Len(history)]
    <3>1. PICK h, g : h = history /\ g = history'
      OBVIOUS
    <3>2. g = h \o t /\ h \in Hist
      BY <3>1, <2>4
    <3>3. /\ g \in Hist /\ Len(g) = Len(h) + Len(t)
          /\ DOMAIN g = 1..(Len(h) + Len(t))
          /\ \A i \in 1..(Len(h) + Len(t)) : g[i] = IF i <= Len(h) THEN h[i] ELSE t[i - Len(h)]
      BY <3>2, <2>1, HistoryConcat
    <3>4. QED
      BY <3>1, <3>3, <2>1
  <2>5. ASSUME NEW i \in DOMAIN history', i \notin DOMAIN history
        PROVE  /\ history'[i][1] = x /\ history'[i][2] = i - Len(history)
               /\ i - Len(history) \in 1..RowsOf[x]
    <3>1. i - Len(history) \in 1..RowsOf[x] /\ history'[i] = t[i - Len(history)]
      BY <2>5, <2>0, <2>3, <1>0
    <3>2. QED
      BY <3>1, <2>1
  <2>6. ASSUME NEW n \in 1..RowsOf[x]
        PROVE  /\ Len(history) + n \in DOMAIN history'
               /\ history'[Len(history) + n][1] = x /\ history'[Len(history) + n][2] = n
    <3>1. /\ Len(history) + n \in DOMAIN history' /\ history'[Len(history) + n] = t[n]
      BY <2>0, <2>3, <1>0
    <3>2. QED
      BY <3>1, <2>1
  <2>7. \A i \in DOMAIN history : history'[i] = history[i]
    BY <2>0, <2>3, <1>0
  <2>8. QED
    BY <1>0, <1>2, <2>0, <2>3, <2>5, <2>6, <2>7
<1>3. QED
  BY <1>1, <1>2

\* Nothing is known of a transaction before it commits.
LEMMA FreshTxn ==
    ASSUME wal \in Wal, HistoryInv, LogInv, NEW x \in Txn, MayRun(x)
    PROVE  /\ \A j \in DOMAIN wal : wal[j][1] = x => wal[j][2] = "row"
           /\ \A i \in DOMAIN history : history[i][1] # x
           /\ \A n : ~LogHas(x, n)
<1>1. \A j \in DOMAIN wal : wal[j][1] = x => wal[j][2] = "row"
  BY NotEnded
<1>2. \A j \in DOMAIN wal : wal[j][1] = x => ~IsCommit(j)
  BY <1>1 DEF IsCommit
<1>3. \A i \in DOMAIN history : history[i][1] # x
  BY <1>2 DEF HistoryInv
<1>4. \A k \in DOMAIN log : log[k].x # x
  BY <1>2 DEF LogInv, Keyed
<1>5. QED
  BY <1>1, <1>3, <1>4 DEF LogHas

\* What Writes leaves in place.
LEMMA WriteFacts ==
    ASSUME wal \in Wal, NEW x \in Txn, NEW kind \in Kinds, Writes(x, kind)
    PROVE  /\ wal' \in Wal
           /\ Len(wal) \in Nat /\ DOMAIN wal = 1..Len(wal) /\ DOMAIN wal' = 1..(Len(wal) + 1)
           /\ Len(wal') = Len(wal) + 1
           /\ \A j \in DOMAIN wal : wal'[j] = wal[j] /\ (IsCommit(j)' <=> IsCommit(j))
           /\ wal'[Len(wal) + 1][1] = x /\ wal'[Len(wal) + 1][2] = kind
           /\ UNCHANGED <<slot, snd, pc, need, wasEver, st, parser, ckpt, log, covered>>
           /\ \A y, n : LogHas(y, n)' <=> LogHas(y, n)
<1>1. /\ wal' \in Wal
      /\ Len(wal) \in Nat /\ DOMAIN wal = 1..Len(wal) /\ DOMAIN wal' = 1..(Len(wal) + 1)
      /\ Len(wal') = Len(wal) + 1
      /\ \A j \in 1..Len(wal) : wal'[j] = wal[j]
      /\ wal'[Len(wal) + 1][1] = x /\ wal'[Len(wal) + 1][2] = kind
  BY WalAppends DEF Writes
<1>2. UNCHANGED <<slot, snd, pc, need, wasEver, st, parser, ckpt, log, covered>>
  BY DEF Writes, connVars, durVars
<1>3. \A j \in DOMAIN wal : IsCommit(j)' <=> IsCommit(j)
  BY <1>1 DEF IsCommit
<1>4. \A y, n : LogHas(y, n)' <=> LogHas(y, n)
  BY <1>2 DEF LogHas
<1>5. QED
  BY <1>1, <1>2, <1>3, <1>4

LEMMA WritesHistory ==
    ASSUME wal \in Wal, history \in Hist, HistoryInv, LogInv,
           NEW x \in Txn, NEW kind \in Kinds, Writes(x, kind)
    PROVE  HistoryInv'
<1>0. /\ Len(wal) \in Nat /\ DOMAIN wal = 1..Len(wal) /\ DOMAIN wal' = 1..(Len(wal) + 1)
      /\ \A j \in DOMAIN wal : wal'[j] = wal[j] /\ (IsCommit(j)' <=> IsCommit(j))
      /\ wal'[Len(wal) + 1][1] = x /\ wal'[Len(wal) + 1][2] = kind
  BY WriteFacts
<1>1. /\ \A j \in DOMAIN wal : wal[j][1] = x => ~IsCommit(j)
      /\ \A i \in DOMAIN history : history[i][1] # x
  BY FreshTxn DEF Writes, IsCommit
<1>2. /\ Len(history) \in Nat /\ Len(history') \in Nat /\ Len(history') >= Len(history)
      /\ DOMAIN history = 1..Len(history) /\ DOMAIN history' = 1..Len(history')
      /\ \A i \in DOMAIN history : history'[i] = history[i]
      /\ \A i \in DOMAIN history' : i \notin DOMAIN history =>
            /\ kind = "commit" /\ history'[i][1] = x /\ history'[i][2] = i - Len(history)
            /\ i - Len(history) \in 1..RowsOf[x]
      /\ kind = "commit" => \A n \in 1..RowsOf[x] :
            /\ Len(history) + n \in DOMAIN history'
            /\ history'[Len(history) + n][1] = x /\ history'[Len(history) + n][2] = n
  BY HistoryAppends
<1>c. \A j \in DOMAIN wal' : IsCommit(j)' => (j \in DOMAIN wal \/ (j = Len(wal) + 1 /\ kind = "commit"))
  BY <1>0 DEF IsCommit
<1>d. kind = "commit" => \E c \in DOMAIN wal' : IsCommit(c)' /\ wal'[c][1] = x
  <2>1. \A j \in DOMAIN wal' : wal'[j][2] = "commit" => IsCommit(j)'
    BY DEF IsCommit
  <2>2. PICK j \in DOMAIN wal' : j = Len(wal) + 1
    BY <1>0
  <2>3. QED
    BY <2>1, <2>2, <1>0
<1>3. ASSUME NEW i \in DOMAIN history'
      PROVE  /\ history'[i][2] \in 1..RowsOf[history'[i][1]]
             /\ \E j \in DOMAIN wal' : IsCommit(j)' /\ wal'[j][1] = history'[i][1]
  <2>1. CASE i \in DOMAIN history
    <3>1. history'[i] = history[i]
      BY <2>1, <1>2
    <3>2. /\ history[i][2] \in 1..RowsOf[history[i][1]]
          /\ \E j \in DOMAIN wal : IsCommit(j) /\ wal[j][1] = history[i][1]
      BY <2>1 DEF HistoryInv
    <3>3. \E j \in DOMAIN wal' : IsCommit(j)' /\ wal'[j][1] = history[i][1]
      BY <3>2, <1>0
    <3>4. QED
      BY <3>1, <3>2, <3>3
  <2>2. CASE i \notin DOMAIN history
    BY <2>2, <1>2, <1>d
  <2>3. QED
    BY <2>1, <2>2
<1>4. ASSUME NEW j \in DOMAIN wal', IsCommit(j)', NEW n \in 1..RowsOf[wal'[j][1]]
      PROVE  \E i \in DOMAIN history' : history'[i][1] = wal'[j][1] /\ history'[i][2] = n
  <2>1. CASE j \in DOMAIN wal
    <3>1. wal'[j] = wal[j] /\ IsCommit(j)
      BY <2>1, <1>0, <1>4
    <3>2. PICK i \in DOMAIN history : history[i][1] = wal[j][1] /\ history[i][2] = n
      BY <3>1, <2>1 DEF HistoryInv
    <3>3. i \in DOMAIN history' /\ history'[i] = history[i]
      BY <1>2
    <3>4. QED
      BY <3>1, <3>2, <3>3
  <2>2. CASE j \notin DOMAIN wal
    <3>1. wal'[j][1] = x /\ kind = "commit"
      BY <2>2, <1>0, <1>c, <1>4
    <3>2. QED
      BY <3>1, <1>2
  <2>3. QED
    BY <2>1, <2>2
<1>5. ASSUME NEW i \in DOMAIN history', NEW k \in DOMAIN history',
             NEW c \in DOMAIN wal', NEW d \in DOMAIN wal', i < k,
             IsCommit(c)', wal'[c][1] = history'[i][1], IsCommit(d)', wal'[d][1] = history'[k][1]
      PROVE  c < d \/ (c = d /\ history'[i][2] < history'[k][2])
  <2>1. CASE k \in DOMAIN history
    <3>1. i \in DOMAIN history /\ history'[i] = history[i] /\ history'[k] = history[k]
      BY <2>1, <1>2, <1>5
    <3>2. c \in DOMAIN wal /\ d \in DOMAIN wal
      BY <3>1, <2>1, <1>0, <1>1, <1>c, <1>5
    <3>3. wal'[c] = wal[c] /\ wal'[d] = wal[d] /\ IsCommit(c) /\ IsCommit(d)
      BY <3>2, <1>0, <1>5
    <3>4. QED
      BY <3>1, <3>2, <3>3, <2>1, <1>5 DEF HistoryInv
  <2>2. CASE k \notin DOMAIN history
    <3>1. history'[k][1] = x /\ history'[k][2] = k - Len(history)
      BY <2>2, <1>2
    <3>2. d = Len(wal) + 1
      BY <3>1, <1>5, <1>0, <1>1, <1>c
    <3>3. CASE i \in DOMAIN history
      <4>1. c \in DOMAIN wal
        BY <3>3, <1>5, <1>0, <1>1, <1>2, <1>c
      <4>2. QED
        BY <4>1, <3>2, <1>0
    <3>4. CASE i \notin DOMAIN history
      <4>1. history'[i][1] = x /\ history'[i][2] = i - Len(history)
        BY <3>4, <1>2
      <4>2. c = Len(wal) + 1
        BY <4>1, <1>5, <1>0, <1>1, <1>c
      <4>3. QED
        BY <4>1, <4>2, <3>1, <3>2, <1>2, <1>5
    <3>5. QED
      BY <3>3, <3>4
  <2>3. QED
    BY <2>1, <2>2
<1>6. QED
  BY <1>3, <1>4, <1>5 DEF HistoryInv
LEMMA WritesLog ==
    ASSUME wal \in Wal, LogInv, NEW x \in Txn, NEW kind \in Kinds, Writes(x, kind)
    PROVE  LogInv'
<1>0. /\ DOMAIN wal \subseteq DOMAIN wal' /\ log' = log
      /\ \A j \in DOMAIN wal : wal'[j] = wal[j] /\ (IsCommit(j)' <=> IsCommit(j))
  BY WriteFacts
<1>1. ASSUME NEW e, Keyed(e) PROVE Keyed(e)'
  BY <1>0, <1>1 DEF Keyed, StartOf
<1>2. QED
  BY <1>0, <1>1 DEF LogInv

\* What was dealt with stays so.
LEMMA WritesDealt ==
    ASSUME wal \in Wal, history \in Hist, HistoryInv, LogInv,
           NEW x \in Txn, NEW kind \in Kinds, Writes(x, kind),
           NEW j \in DOMAIN wal, IsCommit(j), Dealt(j)
    PROVE  Dealt(j)'
<1>1. wal'[j] = wal[j] /\ wal[j][1] # x
  BY WriteFacts, FreshTxn DEF Writes, IsCommit
<1>2. covered' = covered /\ slot' = slot /\ \A y, n : LogHas(y, n)' <=> LogHas(y, n)
  BY WriteFacts
<1>3. \A i \in DOMAIN history' :
         history'[i][1] # x => (i \in DOMAIN history /\ history'[i] = history[i])
  BY HistoryAppends
<1>4. ASSUME NEW i \in DOMAIN history', history'[i][1] = wal'[j][1]
      PROVE  LogHas(history[i][1], history[i][2])' \/ (i <= covered' /\ StartOf(j) < slot')
  <2>1. i \in DOMAIN history /\ history'[i] = history[i] /\ history[i][1] = wal[j][1]
    BY <1>4, <1>1, <1>3
  <2>2. LogHas(history[i][1], history[i][2]) \/ (i <= covered /\ StartOf(j) < slot)
    BY <2>1 DEF Dealt
  <2>3. PICK y, n : y = history[i][1] /\ n = history[i][2]
    OBVIOUS
  <2>4. LogHas(y, n)' <=> LogHas(y, n)
    BY <1>2
  <2>5. QED
    BY <2>1, <2>2, <2>3, <2>4, <1>2
<1>5. QED
  BY <1>4 DEF Dealt, StartOf

\* The types behind their names.
LEMMA Unfold ==
    ASSUME SourceTypeOK
    PROVE  /\ wal \in Wal /\ history \in Hist /\ log \in Events
           /\ slot \in Nat \cup {NoSlot} /\ ckpt \in Nat
           /\ pc \in {"down", "reset", "start", "recv", "flush", "save", "ack"}
           /\ need \in BOOLEAN /\ wasEver \in BOOLEAN
           /\ st.walBuf \in Events /\ st.open \in BOOLEAN /\ st.pos \in Nat /\ st.saved \in Nat
           /\ st.then \in {"recv", "save"}
           /\ parser.lsn \in Nat /\ parser.cs \in Nat /\ parser.inStream \in BOOLEAN
           /\ covered \in 0..Len(history)
           /\ snd.start \in Nat /\ snd.pos \in Nat /\ snd.sent \in [Txn -> Nat]
           /\ snd.out \in Seq(Message)
<1>1. wal \in Wal /\ history \in Hist /\ log \in Events /\ covered \in 0..Len(history)
  BY DEF SourceTypeOK, TypeOK, Wal, Hist, Events
<1>2. /\ slot \in Nat \cup {NoSlot} /\ ckpt \in Nat
      /\ pc \in {"down", "reset", "start", "recv", "flush", "save", "ack"}
      /\ need \in BOOLEAN /\ wasEver \in BOOLEAN
  BY DEF SourceTypeOK, TypeOK
<1>3. /\ st.walBuf \in Events /\ st.open \in BOOLEAN /\ st.pos \in Nat /\ st.saved \in Nat
      /\ st.then \in {"recv", "save"}
  BY DEF SourceTypeOK, TypeOK, Events
<1>4. parser.lsn \in Nat /\ parser.cs \in Nat /\ parser.inStream \in BOOLEAN
  BY DEF SourceTypeOK, TypeOK
<1>5. /\ snd.start \in Nat /\ snd.pos \in Nat /\ snd.sent \in [Txn -> Nat]
      /\ snd.out \in Seq(Message)
  BY DEF SourceTypeOK, Sender
<1>6. QED
  BY <1>1, <1>2, <1>3, <1>4, <1>5

LEMMA WritesSlot ==
    ASSUME SourceTypeOK, HistoryInv, LogInv, SlotInv, ResumeInv, OrderInv,
           NEW x \in Txn, NEW kind \in Kinds, Writes(x, kind)
    PROVE  SlotInv' /\ ResumeInv' /\ OrderInv'
<1>t. wal \in Wal /\ history \in Hist /\ slot \in Nat \cup {NoSlot} /\ ckpt \in Nat
  BY Unfold
<1>0. /\ Len(wal) \in Nat /\ DOMAIN wal = 1..Len(wal) /\ DOMAIN wal' = 1..(Len(wal) + 1)
      /\ Len(wal') = Len(wal) + 1
      /\ \A j \in DOMAIN wal : wal'[j] = wal[j] /\ (IsCommit(j)' <=> IsCommit(j))
      /\ wal'[Len(wal) + 1][1] = x
      /\ \A y, n : LogHas(y, n)' <=> LogHas(y, n)
  BY <1>t, WriteFacts
<1>1. UNCHANGED <<slot, pc, need, wasEver, ckpt, log, covered>>
  BY <1>t, WriteFacts
<1>2. /\ StartOf(Len(wal) + 1) <= StartOf(Len(wal) + 2)
      /\ StartOf(Len(wal) + 1) \in Nat /\ StartOf(Len(wal) + 2) \in Nat
  BY <1>0, StartOrder
<1>3. StartOf(Len(wal) + 1)' = StartOf(Len(wal) + 2)
  <2>1. Len(wal') + 1 = Len(wal) + 2
    BY <1>0
  <2>2. QED
    BY <2>1 DEF StartOf
<1>s. SlotInv'
  <2>2. slot <= StartOf(Len(wal) + 2)
    BY <1>2, <1>t DEF SlotInv, NoSlot
  <2>3. ckpt = 0 \/ ckpt < StartOf(Len(wal) + 2)
    BY <1>2, <1>t DEF SlotInv
  <2>4. QED
    BY <2>2, <2>3, <1>1, <1>3 DEF SlotInv, NoSlot
<1>r. Resume' = Resume /\ (Recovering' <=> Recovering)
  BY <1>1 DEF Resume, Recovering, AtLeast
<1>l. slot # NoSlot => Resume \in Nat /\ Resume <= StartOf(Len(wal) + 1)
  BY <1>t, <1>2 DEF SlotInv, Resume, AtLeast
<1>4. ASSUME slot # NoSlot, NEW j \in DOMAIN wal', IsCommit(j)', StartOf(j) < Resume
      PROVE  IF Recovering THEN StartOf(j) < slot ELSE Dealt(j)'
  <2>1. j \in DOMAIN wal
    BY <1>4, <1>l, <1>0, <1>2
  <2>2. IsCommit(j)
    BY <2>1, <1>0, <1>4
  <2>3. IF Recovering THEN StartOf(j) < slot ELSE Dealt(j)
    BY <2>1, <2>2, <1>4 DEF ResumeInv
  <2>4. Dealt(j) => Dealt(j)'
    BY <2>1, <2>2, <1>t, WritesDealt
  <2>5. QED
    BY <2>3, <2>4
<1>5. ResumeInv'
  BY <1>4, <1>1, <1>r DEF ResumeInv, NoSlot, StartOf
<1>h. \A i \in DOMAIN history' :
         history'[i][1] # x => (i \in DOMAIN history /\ history'[i] = history[i])
  BY <1>t, HistoryAppends
<1>k. /\ DOMAIN history = 1..Len(history) /\ DOMAIN history' = 1..Len(history') /\ Len(history) \in Nat
      /\ Len(history') \in Nat
  BY <1>t, HistoryAppends
<1>f. /\ \A i \in DOMAIN history : history[i][1] # x
      /\ \A n : ~LogHas(x, n)
  BY <1>t, FreshTxn DEF Writes
<1>6. ASSUME slot # NoSlot, NEW i \in DOMAIN history', NEW k \in DOMAIN history',
             NEW c \in DOMAIN wal', i < k, IsCommit(c)', wal'[c][1] = history'[i][1],
             StartOf(c) >= slot, LogHas(history[k][1], history[k][2])'
      PROVE  LogHas(history[i][1], history[i][2])'
  <2>0. PICK y, n, z, m : y = history'[i][1] /\ n = history'[i][2]
                          /\ z = history'[k][1] /\ m = history'[k][2]
    OBVIOUS
  <2>1. LogHas(z, m)
    BY <1>6, <2>0, <1>0
  <2>2. k \in DOMAIN history /\ history'[k] = history[k]
    BY <2>0, <2>1, <1>f, <1>h
  <2>3. i \in DOMAIN history /\ history'[i] = history[i]
    BY <2>2, <1>6, <1>k, HistoryAppends, <1>t
  <2>4. c \in DOMAIN wal /\ wal'[c] = wal[c]
    BY <2>3, <1>6, <1>0, <1>f
  <2>5. LogHas(y, n)
    BY <2>0, <2>1, <2>2, <2>3, <2>4, <1>6, <1>0 DEF OrderInv
  <2>6. QED
    BY <2>5, <2>0, <1>0
<1>7. OrderInv'
  BY <1>6, <1>1 DEF OrderInv, NoSlot, StartOf
<1>8. QED
  BY <1>s, <1>5, <1>7

-----------------------------------------------------------------------------
(* What a step leaves alone of a session.                                  *)

\* The same sender position, with at least the records up to it in the WAL.
SameRecords ==
    /\ snd' = snd /\ snd.pos <= Len(wal)
    /\ \A j \in Nat : j <= snd.pos => (j \in DOMAIN wal' <=> j \in DOMAIN wal)
    /\ \A j \in DOMAIN wal : j <= snd.pos => wal'[j] = wal[j]
    /\ \A y \in Txn : RowsUpTo(y, snd.pos)' = RowsUpTo(y, snd.pos)

LEMMA SameCurrent ==
    ASSUME wal \in Wal, snd.pos \in Nat, SameRecords
    PROVE  /\ snd.pos \in DOMAIN wal' <=> snd.pos \in DOMAIN wal
           /\ snd.pos \in DOMAIN wal => CurTxn' = CurTxn /\ CurRows' = CurRows
           /\ snd.pos \in DOMAIN wal => wal'[snd.pos] = wal[snd.pos]
           /\ snd.pos \in DOMAIN wal => (IsCommit(snd.pos)' <=> IsCommit(snd.pos))
           /\ \A y \in Txn : Active(y)' <=> Active(y)
           /\ Nobody' <=> Nobody
<1>1. snd.pos \in DOMAIN wal' <=> snd.pos \in DOMAIN wal
  BY DEF SameRecords
<1>2. snd.pos \in DOMAIN wal => wal'[snd.pos] = wal[snd.pos] /\ wal[snd.pos][1] \in Txn
  BY WalTypes DEF SameRecords
<1>3. snd.pos \in DOMAIN wal => CurTxn' = CurTxn
  BY <1>2 DEF CurTxn, SameRecords
<1>4. snd.pos \in DOMAIN wal => CurRows' = CurRows
  <2>1. SUFFICES ASSUME snd.pos \in DOMAIN wal PROVE CurRows' = CurRows
    OBVIOUS
  <2>2. PICK y \in Txn : y = wal[snd.pos][1]
    BY <1>2, <2>1
  <2>3. y = wal'[snd'.pos][1]
    BY <1>2, <2>1, <2>2 DEF SameRecords
  <2>4. RowsUpTo(y, snd.pos)' = RowsUpTo(y, snd.pos)
    BY DEF SameRecords
  <2>5. QED
    BY <2>2, <2>3, <2>4 DEF CurRows
<1>5. ASSUME NEW y \in Txn PROVE Active(y)' <=> Active(y)
  <2>0. DOMAIN wal \subseteq Nat
    BY WalTypes
  <2>1. \A e : (e \in DOMAIN wal /\ e <= snd.pos) =>
                  (e \in DOMAIN wal' /\ wal'[e] = wal[e])
    BY <2>0 DEF SameRecords
  <2>2. QED
    BY <2>0, <2>1 DEF Active, SameRecords
<1>6. Nobody' <=> Nobody
  BY <1>5 DEF Nobody
<1>7. snd.pos \in DOMAIN wal => (IsCommit(snd.pos)' <=> IsCommit(snd.pos))
  BY <1>2 DEF IsCommit, SameRecords
<1>8. QED
  BY <1>1, <1>2, <1>3, <1>4, <1>5, <1>6, <1>7

Keeps ==
    /\ SameRecords /\ UNCHANGED <<st, parser>>
    /\ \A y, n : LogHas(y, n) => LogHas(y, n)'
    /\ \A j \in DOMAIN wal : (j <= snd.pos /\ IsCommit(j) /\ Dealt(j)) => Dealt(j)'
    /\ CommitInv => slot' <= StartOf(snd.pos)

LEMMA KeepsQuiet ==
    ASSUME SourceTypeOK, Keeps, Quiet
    PROVE  Quiet'
<1>0. wal \in Wal /\ snd.pos \in Nat /\ SameRecords
  BY Unfold DEF Keeps
<1>1. /\ snd.pos \in DOMAIN wal' <=> snd.pos \in DOMAIN wal
      /\ snd.pos \in DOMAIN wal => (IsCommit(snd.pos)' <=> IsCommit(snd.pos))
      /\ \A y \in Txn : Active(y)' <=> Active(y)
      /\ Nobody' <=> Nobody
  BY <1>0, SameCurrent
<1>2. snd' = snd /\ st' = st /\ parser' = parser
  BY DEF Keeps, SameRecords
<1>3. (snd.pos \in DOMAIN wal /\ IsCommit(snd.pos)) => Dealt(snd.pos)'
  <2>1. PICK p : p = snd.pos
    OBVIOUS
  <2>2. (p \in DOMAIN wal /\ IsCommit(p)) => Dealt(p)'
    BY <2>1, <1>0 DEF Keeps, Quiet
  <2>3. QED
    BY <2>1, <2>2, <1>2
<1>4. ASSUME NEW y \in Txn, NEW n PROVE Buffered(y, 0, n) => Buffered(y, 0, n)'
  BY <1>2 DEF Buffered
<1>5. \A y \in Txn : Active(y)' =>
         Buffered(y, 0, snd.sent[y])' /\ parser'.cs = snd'.sent[y] /\ st'.open
  <2>1. ASSUME NEW y \in Txn, Active(y)
        PROVE  Buffered(y, 0, snd.sent[y])' /\ parser'.cs = snd'.sent[y] /\ st'.open
    <3>1. Buffered(y, 0, snd.sent[y]) /\ parser.cs = snd.sent[y] /\ st.open
      BY <2>1 DEF Quiet
    <3>2. PICK n : n = snd.sent[y]
      OBVIOUS
    <3>3. Buffered(y, 0, n)'
      BY <3>1, <3>2, <1>4
    <3>4. QED
      BY <3>1, <3>2, <3>3, <1>2
  <2>2. QED
    BY <2>1, <1>1
<1>6. QED
  BY <1>1, <1>2, <1>3, <1>5 DEF Quiet

LEMMA KeepsCommitInv ==
    ASSUME SourceTypeOK, Keeps, CommitInv
    PROVE  CommitInv'
<1>0. wal \in Wal /\ snd.pos \in Nat /\ SameRecords
  BY Unfold DEF Keeps
<1>1. /\ snd.pos \in DOMAIN wal' <=> snd.pos \in DOMAIN wal
      /\ snd.pos \in DOMAIN wal => (IsCommit(snd.pos)' <=> IsCommit(snd.pos))
      /\ Nobody' <=> Nobody
  BY <1>0, SameCurrent
<1>2. snd' = snd /\ st' = st /\ slot' <= StartOf(snd.pos)
  BY DEF Keeps, SameRecords
<1>3. QED
  BY <1>1, <1>2 DEF CommitInv, StartOf

LEMMA KeepsReceiving ==
    ASSUME SourceTypeOK, Keeps, NEW x, NEW hi, Receiving(x, hi)
    PROVE  Receiving(x, hi)'
<1>1. snd' = snd /\ st' = st /\ \A y, n : LogHas(y, n) => LogHas(y, n)'
  BY DEF Keeps, SameRecords
<1>2. QED
  BY <1>1 DEF Receiving, Buffered, StartOf

LEMMA KeepsPlain ==
    ASSUME SourceTypeOK, Keeps, Plain
    PROVE  Plain'
<1>0. wal \in Wal /\ snd.pos \in Nat /\ SameRecords
  BY Unfold DEF Keeps
<1>1. snd' = snd /\ st' = st /\ parser' = parser
  BY DEF Keeps, SameRecords
<1>2. CommitInv' /\ snd.pos \in DOMAIN wal
  BY KeepsCommitInv DEF Plain, CommitInv
<1>3. CurTxn' = CurTxn /\ CurRows' = CurRows
  BY <1>0, <1>2, SameCurrent
<1>4. PICK x, r, hi : x = CurTxn /\ r = CurRows /\ hi = CurRows + 1 - Len(snd.out)
  OBVIOUS
<1>5. Len(snd.out) # r + 2 => Receiving(x, hi)'
  BY <1>4, KeepsReceiving DEF Plain
<1>6. QED
  BY <1>1, <1>2, <1>3, <1>4, <1>5 DEF Plain, StartOf

LEMMA KeepsFinal ==
    ASSUME SourceTypeOK, Keeps, Final
    PROVE  Final'
<1>0. wal \in Wal /\ snd.pos \in Nat /\ SameRecords
  BY Unfold DEF Keeps
<1>1. snd' = snd /\ st' = st /\ parser' = parser
  BY DEF Keeps, SameRecords
<1>2. CommitInv' /\ snd.pos \in DOMAIN wal
  BY KeepsCommitInv DEF Final, CommitInv
<1>3. CurTxn' = CurTxn /\ CurRows' = CurRows
  BY <1>0, <1>2, SameCurrent
<1>4. PICK x, r : x = CurTxn /\ r = CurRows
  OBVIOUS
<1>5. Receiving(x, r)'
  BY <1>4, KeepsReceiving DEF Final
<1>6. QED
  BY <1>1, <1>2, <1>3, <1>4, <1>5 DEF Final

LEMMA KeepsSegmenting ==
    ASSUME SourceTypeOK, Keeps, Segmenting
    PROVE  Segmenting'
<1>0. wal \in Wal /\ snd.pos \in Nat /\ SameRecords /\ snd.pos \in DOMAIN wal
  BY Unfold DEF Keeps, Segmenting
<1>1. snd' = snd /\ st' = st /\ parser' = parser
  BY DEF Keeps, SameRecords
<1>2. /\ snd.pos \in DOMAIN wal' /\ wal'[snd.pos] = wal[snd.pos]
      /\ CurTxn' = CurTxn /\ CurRows' = CurRows
      /\ (IsCommit(snd.pos)' <=> IsCommit(snd.pos))
      /\ \A y \in Txn : Active(y)' <=> Active(y)
  BY <1>0, SameCurrent
<1>3. Tails' = Tails
  BY <1>2 DEF Tails
<1>4. IsCommit(snd.pos) => CommitInv'
  BY KeepsCommitInv DEF Segmenting, StreamTail
<1>5. StreamTail'
  BY <1>1, <1>2, <1>4 DEF Segmenting, StreamTail, StartOf
<1>6. CurTxn \in Txn
  BY <1>0, WalTypes DEF CurTxn
<1>7. wal[snd.pos][2] = "row" => Active(CurTxn)'
  <2>1. PICK x \in Txn : x = CurTxn
    BY <1>6
  <2>2. wal[snd.pos][2] = "row" => Active(x)'
    BY <2>1, <1>2 DEF Segmenting
  <2>3. QED
    BY <2>1, <2>2, <1>2
<1>8. Buffered(CurTxn, 0, Len(st.walBuf))'
  BY <1>1, <1>2 DEF Segmenting, Buffered
<1>9. (\A y \in Txn : Active(y) => y = CurTxn)'
  BY <1>2 DEF Segmenting
<1>10. QED
  BY <1>1, <1>2, <1>3, <1>5, <1>7, <1>8, <1>9 DEF Segmenting

LEMMA KeepsAborting ==
    ASSUME SourceTypeOK, Keeps, Aborting
    PROVE  Aborting'
<1>0. wal \in Wal /\ snd.pos \in Nat /\ SameRecords /\ snd.pos \in DOMAIN wal
  BY Unfold DEF Keeps, Aborting
<1>1. snd' = snd /\ parser' = parser
  BY DEF Keeps, SameRecords
<1>2. snd.pos \in DOMAIN wal' /\ wal'[snd.pos] = wal[snd.pos] /\ (Nobody' <=> Nobody)
  BY <1>0, SameCurrent
<1>3. QED
  BY <1>1, <1>2 DEF Aborting

LEMMA KeepsPhase ==
    ASSUME SourceTypeOK, Keeps, pc' = pc, ckpt' = ckpt, PhaseInv
    PROVE  PhaseInv'
<1>1. /\ (Quiet => Quiet') /\ (Plain => Plain') /\ (Final => Final')
      /\ (Segmenting => Segmenting') /\ (Aborting => Aborting')
  BY KeepsQuiet, KeepsPlain, KeepsFinal, KeepsSegmenting, KeepsAborting
<1>2. st' = st /\ (Nobody => Nobody')
  BY SameCurrent, Unfold DEF Keeps
<1>3. QED
  BY <1>1, <1>2 DEF PhaseInv

\* A row count above zero has a row record.
LEMMA HasRow ==
    ASSUME wal \in Wal, NEW y, NEW i \in Nat, RowsUpTo(y, i) # 0
    PROVE  RecordsOf(y, "row") # {}
<1>1. ASSUME RecordsOf(y, "row") = {} PROVE FALSE
  <2>1. {j \in RecordsOf(y, "row") : j <= i} = {}
    BY <1>1
  <2>2. RowsUpTo(y, i) = 0
    BY <2>1, FS_EmptySet DEF RowsUpTo
  <2>3. QED
    BY <2>2
<1>2. QED
  BY <1>1

LEMMA WritesKeeps ==
    ASSUME SourceTypeOK, HistoryInv, LogInv, SenderInv,
           NEW x \in Txn, NEW kind \in Kinds, Writes(x, kind)
    PROVE  Keeps
<1>t. wal \in Wal /\ history \in Hist /\ snd.pos \in Nat
  BY Unfold
<1>0. /\ Len(wal) \in Nat /\ DOMAIN wal = 1..Len(wal) /\ DOMAIN wal' = 1..(Len(wal) + 1)
      /\ \A j \in DOMAIN wal : wal'[j] = wal[j]
      /\ \A y, n : LogHas(y, n)' <=> LogHas(y, n)
      /\ UNCHANGED <<slot, snd, st, parser>>
  BY <1>t, WriteFacts
<1>1. snd.pos <= Len(wal)
  BY DEF SenderInv
<1>2. \A y \in Txn : RowsUpTo(y, snd.pos)' = RowsUpTo(y, snd.pos)
  <2>1. PICK p \in 0..Len(wal) : p = snd.pos
    BY <1>0, <1>1, <1>t
  <2>2. \A y \in Txn : RowsUpTo(y, p)' = RowsUpTo(y, p)
    BY <1>t, RowsAppend DEF Writes
  <2>3. QED
    BY <2>1, <2>2, <1>0
<1>3. SameRecords
  BY <1>0, <1>1, <1>2, <1>t DEF SameRecords
<1>4. \A j \in DOMAIN wal : (IsCommit(j) /\ Dealt(j)) => Dealt(j)'
  BY <1>t, WritesDealt
<1>5. QED
  BY <1>0, <1>3, <1>4 DEF Keeps, CommitInv

LEMMA WritesSession ==
    ASSUME Steady, SourceTypeOK, HistoryInv, LogInv, SessionInv,
           NEW x \in Txn, NEW kind \in Kinds, Writes(x, kind)
    PROVE  SessionInv'
<1>t. wal \in Wal /\ history \in Hist /\ snd.pos \in Nat /\ snd.sent \in [Txn -> Nat]
  BY Unfold
<1>0. /\ Len(wal) \in Nat /\ DOMAIN wal = 1..Len(wal) /\ DOMAIN wal' = 1..(Len(wal) + 1)
      /\ Len(wal') = Len(wal) + 1
      /\ \A j \in DOMAIN wal : wal'[j] = wal[j] /\ (IsCommit(j)' <=> IsCommit(j))
      /\ wal'[Len(wal) + 1][1] = x
      /\ UNCHANGED <<slot, snd, pc, st, parser, ckpt>>
  BY <1>t, WriteFacts
<1> SUFFICES ASSUME InSession PROVE SenderInv' /\ PassedInv' /\ PhaseInv'
  BY <1>0 DEF SessionInv, InSession
<1>s. /\ StartOf(Len(wal) + 1)' = StartOf(Len(wal) + 2) /\ snd.start \in Nat
      /\ StartOf(Len(wal) + 1) \in Nat /\ StartOf(Len(wal) + 2) \in Nat
      /\ StartOf(Len(wal) + 1) <= StartOf(Len(wal) + 2)
  <2>1. Len(wal') + 1 = Len(wal) + 2
    BY <1>0
  <2>2. StartOf(Len(wal) + 1)' = StartOf(Len(wal) + 2)
    BY <2>1 DEF StartOf
  <2>3. QED
    BY <2>2, <1>0, StartOrder, Unfold
<1>i. SenderInv /\ PassedInv /\ PhaseInv
  BY DEF SessionInv
<1>k. Keeps
  BY <1>i, WritesKeeps
<1>a. /\ \A y \in Txn : Active(y)' <=> Active(y)
      /\ \A y \in Txn : RowsUpTo(y, snd.pos)' = RowsUpTo(y, snd.pos)
  BY <1>k, <1>t, SameCurrent DEF Keeps, SameRecords
<1>1. PhaseInv'
  BY <1>k, <1>i, <1>0, KeepsPhase
<1>2. ASSUME NEW y \in Txn, Active(y), NEW j \in DOMAIN wal', j > snd.pos
      PROVE  \/ wal'[j][1] = y
             \/ \E e \in DOMAIN wal' : /\ snd.pos < e /\ e < j
                                       /\ wal'[e][1] = y /\ wal'[e][2] # "row"
  <2>1. CASE j \in DOMAIN wal
    <3>1. \/ wal[j][1] = y
          \/ \E e \in DOMAIN wal : /\ snd.pos < e /\ e < j
                                   /\ wal[e][1] = y /\ wal[e][2] # "row"
      BY <2>1, <1>2, <1>i DEF SenderInv
    <3>2. QED
      BY <2>1, <3>1, <1>0
  <2>2. CASE j \notin DOMAIN wal /\ y # x
    <3>1. snd.sent[y] > 0 /\ snd.sent[y] <= RowsUpTo(y, snd.pos) /\ snd.sent[y] \in Nat
      BY <1>2, <1>i, <1>t DEF Active, SenderInv
    <3>2. RowsUpTo(y, snd.pos) # 0
      BY <3>1, <1>t, RowsFinite
    <3>3. RecordsOf(y, "row") # {}
      BY <3>2, <1>t, HasRow
    <3>4. y \notin Open \ {x}
      BY <3>1 DEF Writes, MayRun, Steady
    <3>5. Ended(y)
      BY <3>3, <3>4, <2>2 DEF Open
    <3>6. PICK e \in DOMAIN wal : wal[e][1] = y /\ wal[e][2] # "row"
      BY <3>5, <1>t, WalTypes DEF Ended
    <3>7. snd.pos < e
      BY <3>6, <1>2, <1>0, <1>t DEF Active
    <3>8. e \in DOMAIN wal' /\ wal'[e] = wal[e] /\ e < j
      BY <2>2, <1>0
    <3>9. QED
      BY <3>6, <3>7, <3>8
  <2>3. CASE j \notin DOMAIN wal /\ y = x
    BY <2>3, <1>0
  <2>4. QED
    BY <2>1, <2>2, <2>3
<1>3. SenderInv'
  <2>1. snd.pos <= Len(wal') /\ snd.start <= StartOf(Len(wal) + 1)'
    BY <1>i, <1>0, <1>t, <1>s DEF SenderInv
  <2>2. QED
    BY <2>1, <1>2, <1>a, <1>0, <1>i DEF SenderInv, StartOf
<1>4. PassedInv'
  <2>1. ASSUME NEW j \in DOMAIN wal', IsCommit(j)', StartOf(j) < snd.start \/ j < snd.pos
        PROVE  Dealt(j)'
    <3>1. j \in DOMAIN wal
      BY <2>1, <1>0, <1>i, <1>s, <1>t DEF SenderInv
    <3>2. IsCommit(j) /\ Dealt(j)
      BY <3>1, <2>1, <1>0, <1>i DEF PassedInv
    <3>3. QED
      BY <3>1, <3>2, <1>t, WritesDealt
  <2>2. QED
    BY <2>1, <1>0, <1>i DEF PassedInv, StartOf
<1>5. QED
  BY <1>1, <1>3, <1>4

LEMMA WritesInv ==
    ASSUME Steady, SourceInv, NEW x \in Txn, NEW kind \in Kinds, Writes(x, kind)
    PROVE  SourceInv'
<1>0. /\ SourceTypeOK /\ WalInv /\ HistoryInv /\ LogInv
      /\ SlotInv /\ ResumeInv /\ OrderInv /\ SessionInv
  BY DEF SourceInv
<1>t. wal \in Wal /\ history \in Hist /\ covered \in 0..Len(history)
  BY <1>0, Unfold
<1>1. SourceTypeOK'
  <2>1. wal' \in Wal /\ UNCHANGED <<slot, snd, pc, need, wasEver, st, parser, ckpt, log, covered>>
    BY <1>t, WriteFacts
  <2>2. history' \in Hist /\ covered' \in 0..Len(history')
    BY <1>t, <2>1, HistoryAppends
  <2>3. QED
    BY <1>0, <2>1, <2>2 DEF SourceTypeOK, TypeOK, Wal, Hist
<1>2. WalInv' /\ HistoryInv' /\ LogInv'
  BY <1>0, <1>t, WritesWal, WritesHistory, WritesLog
<1>3. SlotInv' /\ ResumeInv' /\ OrderInv'
  BY <1>0, WritesSlot
<1>4. SessionInv'
  BY <1>0, WritesSession
<1>5. QED
  BY <1>1, <1>2, <1>3, <1>4 DEF SourceInv

LEMMA DatabaseInv ==
    ASSUME Steady, SourceInv, Database
    PROVE  SourceInv'
<1>1. PICK x \in Txn : WriteRow(x) \/ Commit(x) \/ Abort(x)
  BY DEF Database
<1>2. CASE WriteRow(x)
  <2>1. Writes(x, "row")
    BY <1>2 DEF WriteRow, Writes
  <2>2. QED
    BY <2>1, WritesInv DEF Kinds
<1>3. CASE Commit(x)
  <2>1. Writes(x, "commit")
    BY <1>3 DEF Commit, Writes
  <2>2. QED
    BY <2>1, WritesInv DEF Kinds
<1>4. CASE Abort(x)
  <2>1. Writes(x, "abort")
    BY <1>4 DEF Abort, Writes
  <2>2. QED
    BY <2>1, WritesInv DEF Kinds
<1>5. QED
  BY <1>1, <1>2, <1>3, <1>4

-----------------------------------------------------------------------------
(* Steps that leave the WAL and history alone.                             *)

LEMMA StillRows ==
    ASSUME WalInv, wal' = wal
    PROVE  WalInv' /\ \A x, i : RowsUpTo(x, i)' = RowsUpTo(x, i)
<1>1. \A x, k : RecordsOf(x, k)' = RecordsOf(x, k)
  BY DEF RecordsOf
<1>2. \A x, i : RowsUpTo(x, i)' = RowsUpTo(x, i)
  BY <1>1 DEF RowsUpTo
<1>3. \A j : IsCommit(j)' <=> IsCommit(j)
  BY DEF IsCommit
<1>4. \A x : RowsUpTo(x, Len(wal))' = RowsUpTo(x, Len(wal))
  BY <1>2
<1>5. ASSUME NEW j \in DOMAIN wal, IsCommit(j)
      PROVE  (RowsUpTo(wal[j][1], j) = RowsOf[wal[j][1]])'
  <2>1. PICK y : y = wal[j][1]
    OBVIOUS
  <2>2. RowsUpTo(y, j)' = RowsUpTo(y, j)
    BY <1>2
  <2>3. QED
    BY <1>5, <2>1, <2>2 DEF WalInv
<1>6. QED
  BY <1>1, <1>2, <1>3, <1>4, <1>5 DEF WalInv

LEMMA StillWal ==
    ASSUME WalInv, HistoryInv, UNCHANGED <<wal, history>>
    PROVE  WalInv' /\ HistoryInv'
<1>1. WalInv'
  BY StillRows
<1>2. HistoryInv'
  BY DEF HistoryInv, IsCommit
<1>3. QED
  BY <1>1, <1>2

LEMMA StillLog ==
    ASSUME LogInv, UNCHANGED <<wal, log>>
    PROVE  LogInv'
BY DEF LogInv, Keyed, IsCommit, StartOf

\* More in the log, more covered, a later slot: what is dealt with stays so.
LEMMA StillDealt ==
    ASSUME UNCHANGED <<wal, history>>, \A y, n : LogHas(y, n) => LogHas(y, n)',
           covered \in Nat, covered' \in Nat, covered <= covered',
           slot \in Int, slot' \in Int, slot <= slot',
           SourceTypeOK, NEW j \in DOMAIN wal, Dealt(j)
    PROVE  Dealt(j)'
<1>1. StartOf(j) \in Nat
  BY Unfold, WalTypes, StartType
<1>2. DOMAIN history \subseteq Nat
  BY Unfold, HistoryTypes
<1>3. ASSUME NEW i \in DOMAIN history, history[i][1] = wal[j][1]
      PROVE  LogHas(history[i][1], history[i][2])' \/ (i <= covered' /\ StartOf(j) < slot')
  <2>1. LogHas(history[i][1], history[i][2]) \/ (i <= covered /\ StartOf(j) < slot)
    BY <1>3 DEF Dealt
  <2>2. PICK y, n : y = history[i][1] /\ n = history[i][2]
    OBVIOUS
  <2>3. LogHas(y, n) => LogHas(y, n)'
    OBVIOUS
  <2>4. QED
    BY <2>1, <2>2, <2>3, <1>1, <1>2
<1>4. QED
  BY <1>3 DEF Dealt, StartOf

LEMMA StillHas ==
    ASSUME log' = log
    PROVE  \A y, n : LogHas(y, n)' <=> LogHas(y, n)
BY DEF LogHas

\* Resume, slot and order when only the session changes.
LEMMA StillSlot ==
    ASSUME SourceTypeOK, SlotInv, ResumeInv, OrderInv,
           UNCHANGED <<wal, history, slot, ckpt, log, covered>>,
           slot # NoSlot => ~Recovering /\ ~Recovering'
    PROVE  ResumeInv' /\ OrderInv'
<1>1. \A y, n : LogHas(y, n)' <=> LogHas(y, n)
  BY StillHas
<1>t. slot \in Int /\ covered \in Nat
  BY Unfold DEF NoSlot
<1>2. \A j \in DOMAIN wal : Dealt(j) => Dealt(j)'
  BY <1>1, <1>t, StillDealt
<1>3. Resume' = Resume
  BY DEF Resume, AtLeast
<1>4. ResumeInv'
  BY <1>2, <1>3 DEF ResumeInv, IsCommit, NoSlot, StartOf
<1>5. OrderInv'
  BY <1>1 DEF OrderInv, IsCommit, NoSlot, StartOf
<1>6. QED
  BY <1>4, <1>5

\* An acknowledgement of no more than the checkpoint.
LEMMA RaiseSlot ==
    ASSUME SourceTypeOK, SlotInv, ResumeInv, OrderInv, slot # NoSlot,
           UNCHANGED <<wal, history, ckpt, log, covered>>,
           NEW a \in Nat, a <= ckpt, slot' = AtLeast(slot, a),
           ~Recovering, ~Recovering'
    PROVE  /\ ResumeInv' /\ OrderInv' /\ slot' \in Nat /\ slot <= slot'
           /\ slot' <= StartOf(Len(wal) + 1)
           /\ \A j \in DOMAIN wal : Dealt(j) => Dealt(j)'
<1>1. \A y, n : LogHas(y, n)' <=> LogHas(y, n)
  BY StillHas
<1>t. slot \in Nat /\ covered \in Nat /\ ckpt \in Nat /\ wal \in Wal
  BY Unfold DEF NoSlot
<1>2. slot' \in Nat /\ slot <= slot' /\ (slot' = slot \/ (slot' = a /\ a > 0))
  BY <1>t DEF AtLeast
<1>s. \A j \in DOMAIN wal : StartOf(j) \in Nat
  BY <1>t, WalTypes, StartType
<1>e. StartOf(Len(wal) + 1) \in Nat
  BY <1>t, WalTypes, StartType
<1>3. \A j \in DOMAIN wal : Dealt(j) => Dealt(j)'
  BY <1>1, <1>2, <1>t, StillDealt
<1>4. Resume' = Resume
  BY <1>2, <1>t DEF Resume, AtLeast
<1>5. ResumeInv'
  BY <1>3, <1>4 DEF ResumeInv, IsCommit, NoSlot, StartOf
<1>6. OrderInv'
  <2>1. \A c \in DOMAIN wal : StartOf(c) >= slot' => StartOf(c) >= slot
    BY <1>2, <1>t, <1>s
  <2>2. QED
    BY <1>1, <2>1 DEF OrderInv, IsCommit, StartOf
<1>7. slot' <= StartOf(Len(wal) + 1)
  BY <1>2, <1>t, <1>e DEF SlotInv
<1>8. QED
  BY <1>2, <1>3, <1>5, <1>6, <1>7

LEMMA EnsureSlotInv ==
    ASSUME Steady, SourceInv, EnsureSlot
    PROVE  SourceInv'
<1>0. /\ SourceTypeOK /\ WalInv /\ HistoryInv /\ LogInv
      /\ SlotInv /\ ResumeInv /\ OrderInv
  BY DEF SourceInv
<1>u. /\ UNCHANGED <<wal, history, snd, wasEver, st, parser, ckpt, log, covered>>
      /\ pc = "down" /\ pc' = "reset"
  BY DEF EnsureSlot, dbVars, durVars
<1>t. /\ wal \in Wal /\ slot \in Nat \cup {NoSlot} /\ ckpt \in Nat /\ wasEver \in BOOLEAN
      /\ Len(wal) \in Nat /\ DOMAIN wal = 1..Len(wal)
  BY <1>0, Unfold, WalTypes
<1>e. EndOf(Len(wal)) \in Nat /\ (Len(wal) > 0 => EndOf(Len(wal)) = StartOf(Len(wal) + 1) - Gap)
      /\ (Len(wal) = 0 => EndOf(Len(wal)) = 0)
  BY <1>t, EndType
<1>s. StartOf(Len(wal) + 1) \in Nat
  BY <1>t, StartType
<1>g. Gap \in Nat /\ Gap < Unit /\ Unit \in Nat
  BY SourceAssumption
<1>1. SourceTypeOK'
  BY <1>0, <1>u, <1>e DEF EnsureSlot, SourceTypeOK, TypeOK
<1>2. WalInv' /\ HistoryInv' /\ LogInv'
  BY <1>0, <1>u, StillWal, StillLog
<1>3. SessionInv'
  BY <1>u DEF SessionInv, InSession
<1>4. CASE slot # NoSlot /\ need' = FALSE /\ slot' = slot
  <2>1. ResumeInv' /\ OrderInv'
    BY <1>0, <1>u, <1>4, StillSlot DEF Recovering
  <2>2. SlotInv'
    BY <1>0, <1>u, <1>4 DEF SlotInv, NoSlot, StartOf
  <2>3. QED
    BY <1>1, <1>2, <1>3, <2>1, <2>2 DEF SourceInv
<1>5. CASE slot = NoSlot /\ need' = wasEver /\ slot' = EndOf(Len(wal))
  <2>1. need' /\ Recovering'
    BY <1>5, <1>0, <1>u DEF SlotInv, Recovering
  <2>2. ASSUME NEW j \in DOMAIN wal PROVE StartOf(j) < slot' /\ StartOf(j) \in Nat
    <3>1. StartOf(j) + Unit <= StartOf(Len(wal) + 1) /\ StartOf(j) \in Nat
      BY <1>t, StartOrder
    <3>2. Len(wal) > 0
      BY <1>t
    <3>3. QED
      BY <3>1, <3>2, <1>5, <1>e, <1>s, <1>g
  <2>3. ResumeInv'
    BY <2>1, <2>2, <1>u DEF ResumeInv, StartOf
  <2>4. OrderInv'
    <3>1. \A c \in DOMAIN wal : ~(StartOf(c) >= slot')
      BY <2>2, <1>5, <1>e
    <3>2. QED
      BY <3>1, <1>u DEF OrderInv, StartOf
  <2>5. slot' \in Nat /\ slot' <= StartOf(Len(wal) + 1)
    BY <1>5, <1>e, <1>s, <1>g, <1>t
  <2>6. SlotInv'
    BY <2>5, <1>0, <1>u DEF SlotInv, NoSlot, StartOf
  <2>7. QED
    BY <1>1, <1>2, <1>3, <2>3, <2>4, <2>6 DEF SourceInv
<1>6. QED
  BY <1>4, <1>5 DEF EnsureSlot

LEMMA ResetBackfillInv ==
    ASSUME Steady, SourceInv, ResetBackfill
    PROVE  SourceInv'
<1>0. /\ SourceTypeOK /\ WalInv /\ HistoryInv /\ LogInv
      /\ SlotInv /\ ResumeInv /\ OrderInv
  BY DEF SourceInv
<1>u. /\ UNCHANGED <<wal, history, slot, snd, need, wasEver, st, parser, ckpt, log>>
      /\ pc = "reset" /\ pc' = "start" /\ covered' = IF need THEN Len(history) ELSE covered
  BY DEF ResetBackfill, dbVars
<1>t. /\ slot \in Nat /\ covered \in 0..Len(history) /\ need \in BOOLEAN /\ history \in Hist
      /\ Len(history) \in Nat /\ DOMAIN history = 1..Len(history)
  BY <1>0, <1>u, Unfold, HistoryTypes DEF SlotInv
<1>c. covered' \in 0..Len(history) /\ covered <= covered'
  BY <1>u, <1>t
<1>1. SourceTypeOK'
  BY <1>0, <1>u, <1>c DEF SourceTypeOK, TypeOK
<1>2. WalInv' /\ HistoryInv' /\ LogInv'
  BY <1>0, <1>u, StillWal, StillLog
<1>3. SessionInv' /\ SlotInv'
  BY <1>0, <1>u DEF SessionInv, InSession, SlotInv, NoSlot, StartOf
<1>4. \A y, n : LogHas(y, n)' <=> LogHas(y, n)
  BY <1>u, StillHas
<1>5. OrderInv'
  BY <1>0, <1>4, <1>u DEF OrderInv, IsCommit, NoSlot, StartOf
<1>6. Resume' = Resume /\ ~Recovering'
  BY <1>u DEF Resume, AtLeast, Recovering
<1>7. ASSUME NEW j \in DOMAIN wal, IsCommit(j), StartOf(j) < Resume
      PROVE  Dealt(j)'
  <2>1. CASE need
    <3>1. StartOf(j) < slot
      BY <2>1, <1>7, <1>0, <1>u, <1>t DEF ResumeInv, Recovering, NoSlot
    <3>2. \A i \in DOMAIN history : i <= covered'
      BY <2>1, <1>u, <1>t
    <3>3. QED
      BY <3>1, <3>2, <1>u DEF Dealt, StartOf
  <2>2. CASE ~need
    <3>1. Dealt(j)
      BY <2>2, <1>7, <1>0, <1>t DEF ResumeInv, Recovering, NoSlot
    <3>2. QED
      BY <3>1, <1>0, <1>4, <1>u, <1>t, <1>c, StillDealt
  <2>3. QED
    BY <2>1, <2>2
<1>8. ResumeInv'
  BY <1>6, <1>7, <1>u DEF ResumeInv, IsCommit, NoSlot, StartOf
<1>9. QED
  BY <1>1, <1>2, <1>3, <1>5, <1>8 DEF SourceInv

LEMMA StartReplicationInv ==
    ASSUME Steady, SourceInv, StartReplication
    PROVE  SourceInv'
<1>0. /\ SourceTypeOK /\ WalInv /\ HistoryInv /\ LogInv
      /\ SlotInv /\ ResumeInv /\ OrderInv
  BY DEF SourceInv
<1>u. /\ UNCHANGED <<wal, history, slot, wasEver, ckpt, log, covered>>
      /\ pc = "start" /\ pc' = "recv" /\ need' = FALSE /\ parser' = NewParser
  BY DEF StartReplication, dbVars, durVars
<1>t. /\ slot \in Nat /\ ckpt \in Nat /\ covered \in Nat /\ wal \in Wal /\ slot # NoSlot
      /\ Len(wal) \in Nat /\ DOMAIN wal = 1..Len(wal) /\ need \in BOOLEAN
  BY <1>0, <1>u, Unfold, WalTypes DEF SlotInv, NoSlot
<1> DEFINE s == AtLeast(slot, ReplicationStartLSN.start)
           v == ReplicationStartLSN.saved
<1>1. /\ snd' = [start |-> s, pos |-> 0, sent |-> [x \in Txn |-> 0], out |-> <<>>]
      /\ st' = [walBuf |-> <<>>, open |-> FALSE, pos |-> 0, saved |-> v, then |-> "recv"]
      /\ parser' = [lsn |-> 0, cs |-> 0, inStream |-> FALSE]
  BY DEF StartReplication, NoSession, NewState, NewParser
<1>2. /\ s \in Nat /\ v \in Nat /\ s <= Resume /\ slot <= s /\ v <= ckpt /\ v <= s
      /\ Resume \in Nat
  BY <1>t DEF AtLeast, ReplicationStartLSN, Resume
<1> HIDE DEF s, v
<1>3. SourceTypeOK'
  <2>1. snd' \in Sender
    BY <1>1, <1>2, EmptySeq DEF Sender
  <2>2. st' \in [walBuf : Seq(Event), open : BOOLEAN, pos : Nat, saved : Nat,
                 then : {"recv", "save"}]
    BY <1>1, <1>2, EmptySeq
  <2>3. parser' \in [lsn : Nat, cs : Nat, inStream : BOOLEAN]
    BY <1>1
  <2>4. QED
    BY <2>1, <2>2, <2>3, <1>0, <1>u DEF SourceTypeOK, TypeOK
<1>4. WalInv' /\ HistoryInv' /\ LogInv'
  BY <1>0, <1>u, StillWal, StillLog
<1>5. SlotInv'
  BY <1>0, <1>u, <1>t DEF SlotInv, NoSlot, StartOf
<1>6. ResumeInv' /\ OrderInv'
  BY <1>0, <1>u, StillSlot DEF Recovering
<1>7. snd'.start = s /\ snd'.pos = 0 /\ snd'.out = <<>> /\ \A y \in Txn : snd'.sent[y] = 0
  BY <1>1
<1>8. st'.walBuf = <<>> /\ st'.pos = 0 /\ st'.saved = v
  BY <1>1
<1>9. ~st'.open /\ ~parser'.inStream
  BY <1>1
<1>10. \A y \in Txn : ~Active(y)'
  BY <1>7 DEF Active
<1>11. StartOf(Len(wal) + 1) \in Nat
  BY <1>t, StartType
<1>l. Resume <= StartOf(Len(wal) + 1)
  BY <1>0, <1>t, <1>11 DEF SlotInv, Resume, AtLeast
<1>12. SenderInv'
  <2>1. \A y \in Txn : RowsUpTo(y, snd.pos)' >= 0
    <3>1. wal' \in Wal
      BY <1>u, <1>t
    <3>2. ASSUME NEW y \in Txn PROVE RowsUpTo(y, 0)' \in Nat
      <4>1. RowsUpTo(y, 0)' = RowsUpTo(y, 0)
        BY <1>u DEF RowsUpTo, RecordsOf
      <4>2. QED
        BY <4>1, <1>t, RowsFinite
    <3>3. QED
      BY <3>2, <1>7
  <2>2. s <= StartOf(Len(wal) + 1)
    BY <1>2, <1>l, <1>11
  <2>3. (snd.start <= StartOf(Len(wal) + 1))'
    BY <2>2, <1>7, <1>u DEF StartOf
  <2>4. (snd.pos <= Len(wal))' /\ DOMAIN snd'.out = {}
    BY <1>7, <1>u, <1>t
  <2>5. QED
    BY <2>1, <2>3, <2>4, <1>7, <1>10 DEF SenderInv
<1>13. PassedInv'
  <2>1. ASSUME NEW j \in DOMAIN wal, IsCommit(j), StartOf(j) < s \/ j < 0
        PROVE  Dealt(j)'
    <3>0. StartOf(j) \in Nat /\ j \in Nat
      BY <1>t, StartType
    <3>1. StartOf(j) < Resume
      BY <2>1, <1>2, <3>0
    <3>2. Dealt(j)
      BY <3>1, <2>1, <1>0, <1>u, <1>t DEF ResumeInv, Recovering
    <3>3. \A y, n : LogHas(y, n)' <=> LogHas(y, n)
      BY <1>u, StillHas
    <3>4. QED
      BY <3>2, <3>3, <1>0, <1>u, <1>t, StillDealt
  <2>2. (\A j \in DOMAIN wal :
          (IsCommit(j) /\ (StartOf(j) < snd.start \/ j < snd.pos)) => Dealt(j))'
    BY <2>1, <1>7, <1>u DEF IsCommit, StartOf
  <2>3. QED
    BY <2>2, <1>7, <1>8, <1>2, <1>u DEF PassedInv
<1>14. PhaseInv'
  <2>1. ~(snd.pos \in DOMAIN wal)'
    BY <1>7, <1>u, <1>t
  <2>2. Quiet'
    BY <2>1, <1>7, <1>8, <1>9, <1>10 DEF Quiet
  <2>3. QED
    BY <2>2, <1>u DEF PhaseInv
<1>15. QED
  BY <1>3, <1>4, <1>5, <1>6, <1>12, <1>13, <1>14 DEF SourceInv, SessionInv

LEMMA CheckpointLSNInv ==
    ASSUME Steady, SourceInv, CheckpointLSN
    PROVE  SourceInv'
<1>0. /\ SourceTypeOK /\ WalInv /\ HistoryInv /\ LogInv
      /\ SlotInv /\ ResumeInv /\ OrderInv /\ SessionInv
  BY DEF SourceInv
<1>u. /\ UNCHANGED <<wal, history, slot, snd, need, wasEver, parser, log, covered>>
      /\ pc = "save" /\ pc' = "ack" /\ ckpt' = st.pos
  BY DEF CheckpointLSN, dbVars
<1>t. /\ slot \in Nat /\ ckpt \in Nat /\ covered \in Nat /\ wal \in Wal /\ slot # NoSlot
      /\ Len(wal) \in Nat /\ DOMAIN wal = 1..Len(wal) /\ st.pos \in Nat /\ snd.pos \in Nat
  BY <1>0, <1>u, Unfold, WalTypes DEF SlotInv, NoSlot
<1>i. SenderInv /\ PassedInv /\ Quiet /\ Nobody
  BY <1>0, <1>u DEF SessionInv, InSession, PhaseInv
<1>1. /\ st'.walBuf = st.walBuf /\ st'.pos = st.pos /\ st'.saved = st.pos
      /\ st'.then = st.then /\ st'.open = st.open
  BY <1>0 DEF CheckpointLSN, SourceTypeOK, TypeOK
<1>2. SourceTypeOK'
  <2>1. st' \in [walBuf : Seq(Event), open : BOOLEAN, pos : Nat, saved : Nat,
                 then : {"recv", "save"}]
    BY <1>0, <1>t DEF CheckpointLSN, SourceTypeOK, TypeOK
  <2>2. QED
    BY <2>1, <1>0, <1>u, <1>t DEF SourceTypeOK, TypeOK
<1>3. WalInv' /\ HistoryInv' /\ LogInv'
  BY <1>0, <1>u, StillWal, StillLog
<1>s. /\ StartOf(snd.pos + 1) <= StartOf(Len(wal) + 1)
      /\ StartOf(snd.pos + 1) \in Nat /\ StartOf(Len(wal) + 1) \in Nat
  BY <1>i, <1>t, StartOrder DEF SenderInv
<1>p. st.pos = 0 \/ st.pos < StartOf(snd.pos + 1)
  BY <1>i DEF PassedInv
<1>4. SlotInv'
  <2>1. st.pos = 0 \/ st.pos < StartOf(Len(wal) + 1)
    BY <1>p, <1>s, <1>t
  <2>2. QED
    BY <2>1, <1>0, <1>u, <1>t DEF SlotInv, NoSlot, StartOf
<1>l. \A y, n : LogHas(y, n)' <=> LogHas(y, n)
  BY <1>u, StillHas
<1>5. \A j \in DOMAIN wal : Dealt(j) => Dealt(j)'
  BY <1>l, <1>0, <1>u, <1>t, StillDealt
<1>6. OrderInv'
  BY <1>l, <1>0, <1>u DEF OrderInv, IsCommit, NoSlot, StartOf
<1>7. ASSUME NEW j \in DOMAIN wal, IsCommit(j), StartOf(j) < Resume'
      PROVE  Dealt(j)'
  <2>0. StartOf(j) \in Nat /\ j \in Nat \ {0}
    BY <1>t, StartType
  <2>1. CASE StartOf(j) < slot
    <3>1. StartOf(j) < Resume
      BY <2>0, <2>1, <1>t DEF Resume, AtLeast
    <3>2. QED
      BY <3>1, <1>7, <1>5, <1>0, <1>u, <1>t DEF ResumeInv, Recovering
  <2>2. CASE ~(StartOf(j) < slot)
    <3>1. StartOf(j) < StartOf(snd.pos + 1)
      BY <2>0, <2>2, <1>7, <1>p, <1>s, <1>t, <1>u DEF Resume, AtLeast
    <3>2. j < snd.pos + 1
      BY <3>1, <2>0, <1>t, StartOrder
    <3>3. CASE j < snd.pos
      BY <3>3, <1>5, <1>7, <1>i DEF PassedInv
    <3>4. CASE j = snd.pos
      BY <3>4, <1>5, <1>7, <1>i DEF Quiet
    <3>5. QED
      BY <3>2, <3>3, <3>4, <2>0, <1>t
  <2>3. QED
    BY <2>1, <2>2
<1>8. ResumeInv'
  BY <1>7, <1>u DEF ResumeInv, Recovering, IsCommit, StartOf
<1>9. SenderInv'
  <2>1. \A y, i : RowsUpTo(y, i)' = RowsUpTo(y, i)
    BY <1>u DEF RowsUpTo, RecordsOf
  <2>2. \A y : Active(y)' <=> Active(y)
    BY <1>u DEF Active
  <2>3. \A y \in Txn : (snd.sent[y] <= RowsUpTo(y, snd.pos))'
    BY <2>1, <1>u, <1>i DEF SenderInv
  <2>4. QED
    BY <2>2, <2>3, <1>u, <1>i DEF SenderInv, StartOf
<1>10. PassedInv'
  <2>1. (\A j \in DOMAIN wal :
          (IsCommit(j) /\ (StartOf(j) < snd.start \/ j < snd.pos)) => Dealt(j))'
    BY <1>5, <1>i, <1>u DEF IsCommit, StartOf, PassedInv
  <2>2. st.pos <= StartOf(snd.pos + 1)
    BY <1>p, <1>s, <1>t
  <2>3. QED
    BY <2>1, <2>2, <1>1, <1>u, <1>t, <1>i DEF PassedInv, StartOf
<1>11. PhaseInv'
  <2>1. \A y : Active(y)' <=> Active(y)
    BY <1>u DEF Active
  <2>2. Nobody'
    BY <2>1, <1>i DEF Nobody
  <2>3. (snd.pos \in DOMAIN wal /\ IsCommit(snd.pos) => Dealt(snd.pos))'
    <3>1. PICK p : p = snd.pos
      OBVIOUS
    <3>2. p \in DOMAIN wal /\ IsCommit(p) => Dealt(p)'
      BY <3>1, <1>i, <1>5 DEF Quiet
    <3>3. QED
      BY <3>1, <3>2, <1>u DEF IsCommit
  <2>4. st'.walBuf = <<>> /\ ~st'.open
    BY <1>i, <1>1 DEF Quiet
  <2>5. Quiet'
    BY <2>2, <2>3, <2>4, <1>u, <1>i DEF Quiet, Nobody
  <2>6. QED
    BY <2>2, <2>5, <1>1, <1>u DEF PhaseInv
<1>12. QED
  BY <1>2, <1>3, <1>4, <1>6, <1>8, <1>9, <1>10, <1>11 DEF SourceInv, SessionInv

LEMMA StillSender ==
    ASSUME SenderInv, UNCHANGED <<wal, snd>>
    PROVE  SenderInv' /\ SameRecords
<1>1. \A y, i : RowsUpTo(y, i)' = RowsUpTo(y, i)
  BY DEF RowsUpTo, RecordsOf
<1>2. \A y : Active(y)' <=> Active(y)
  BY DEF Active
<1>3. \A y \in Txn : RowsUpTo(y, snd.pos)' = RowsUpTo(y, snd.pos)
  BY <1>1
<1>4. QED
  BY <1>2, <1>3 DEF SenderInv, SameRecords, StartOf

\* Acknowledgements of a session: no more than what it has saved.
LEMMA AckInv ==
    ASSUME SourceInv, slot # NoSlot, NEW a \in Nat, a <= st.saved, slot' = AtLeast(slot, a),
           InSession, pc' \in {"recv", "ack"}, UNCHANGED <<dbVars, snd, need, wasEver, st, parser, durVars>>
    PROVE  /\ SourceTypeOK' /\ WalInv' /\ HistoryInv' /\ LogInv'
           /\ SlotInv' /\ ResumeInv' /\ OrderInv' /\ SenderInv' /\ PassedInv' /\ Keeps
<1>0. /\ SourceTypeOK /\ WalInv /\ HistoryInv /\ LogInv
      /\ SlotInv /\ ResumeInv /\ OrderInv /\ SessionInv
  BY DEF SourceInv
<1>u. UNCHANGED <<wal, history, snd, need, wasEver, st, parser, ckpt, log, covered>>
  BY DEF dbVars, durVars
<1>t. /\ slot \in Nat /\ ckpt \in Nat /\ covered \in Nat /\ wal \in Wal /\ need \in BOOLEAN
      /\ Len(wal) \in Nat /\ DOMAIN wal = 1..Len(wal) /\ st.saved \in Nat
      /\ snd.pos \in Nat /\ snd.start \in Nat
  BY <1>0, Unfold, WalTypes DEF NoSlot
<1>i. SenderInv /\ PassedInv
  BY <1>0 DEF SessionInv
<1>n. ~need /\ ~Recovering /\ ~Recovering'
  BY <1>0, <1>u DEF SlotInv, InSession, Recovering
<1>1. a <= ckpt
  BY <1>i, <1>t DEF PassedInv
<1>2. /\ ResumeInv' /\ OrderInv' /\ slot' \in Nat /\ slot <= slot'
      /\ slot' <= StartOf(Len(wal) + 1)
      /\ \A j \in DOMAIN wal : Dealt(j) => Dealt(j)'
  BY <1>0, <1>1, <1>n, <1>u, RaiseSlot
<1>3. SourceTypeOK'
  <2>1. pc' \in {"down", "reset", "start", "recv", "flush", "save", "ack"}
    OBVIOUS
  <2>2. QED
    BY <2>1, <1>0, <1>2, <1>u DEF SourceTypeOK, TypeOK
<1>4. WalInv' /\ HistoryInv' /\ LogInv'
  BY <1>0, <1>u, StillWal, StillLog
<1>5. SlotInv'
  BY <1>0, <1>2, <1>n, <1>u DEF SlotInv, NoSlot, StartOf
<1>6. SenderInv' /\ SameRecords
  BY <1>i, <1>u, StillSender
<1>s. StartOf(snd.pos + 1) \in Nat /\ (snd.pos \in DOMAIN wal => StartOf(snd.pos) \in Nat)
  BY <1>t, StartType
<1>m. slot' = slot \/ (slot' = a /\ a <= st.saved)
  BY DEF AtLeast
<1>7. PassedInv'
  <2>1. (\A j \in DOMAIN wal :
          (IsCommit(j) /\ (StartOf(j) < snd.start \/ j < snd.pos)) => Dealt(j))'
    BY <1>2, <1>i, <1>u DEF IsCommit, StartOf, PassedInv
  <2>2. slot' <= snd.start \/ slot' <= StartOf(snd.pos + 1)
    BY <1>m, <1>i, <1>t, <1>s DEF PassedInv
  <2>3. QED
    BY <2>1, <2>2, <1>i, <1>u DEF PassedInv, StartOf
<1>8. Keeps
  <2>1. CommitInv => slot' <= StartOf(snd.pos)
    BY <1>m, <1>t, <1>s DEF CommitInv
  <2>2. \A y, n : LogHas(y, n)' <=> LogHas(y, n)
    BY <1>u, StillHas
  <2>3. QED
    BY <2>1, <2>2, <1>2, <1>6, <1>u DEF Keeps
<1>9. QED
  BY <1>2, <1>3, <1>4, <1>5, <1>6, <1>7, <1>8

LEMMA AckCheckpointInv ==
    ASSUME Steady, SourceInv, AckCheckpoint
    PROVE  SourceInv'
<1>0. SourceTypeOK /\ SlotInv /\ SessionInv
  BY DEF SourceInv
<1>u. /\ UNCHANGED <<dbVars, snd, need, wasEver, st, parser, durVars>>
      /\ pc = "ack" /\ pc' = "recv" /\ slot' = AtLeast(slot, st.pos)
  BY DEF AckCheckpoint
<1>1. slot # NoSlot /\ InSession
  BY <1>0, <1>u DEF SlotInv, InSession
<1>2. st.pos = st.saved /\ Quiet /\ st.pos \in Nat /\ st.saved \in Nat
  BY <1>0, <1>1, <1>u, Unfold DEF SessionInv, PhaseInv
<1>3. st.pos <= st.saved
  BY <1>2
<1>4. /\ SourceTypeOK' /\ WalInv' /\ HistoryInv' /\ LogInv'
      /\ SlotInv' /\ ResumeInv' /\ OrderInv' /\ SenderInv' /\ PassedInv' /\ Keeps
  BY <1>1, <1>2, <1>3, <1>u, AckInv
<1>5. Quiet'
  BY <1>0, <1>2, <1>4, KeepsQuiet
<1>6. PhaseInv'
  BY <1>5, <1>u DEF PhaseInv
<1>7. QED
  BY <1>4, <1>6 DEF SourceInv, SessionInv

LEMMA HeartbeatInv ==
    ASSUME Steady, SourceInv, Heartbeat
    PROVE  SourceInv'
<1>0. SourceTypeOK /\ SlotInv /\ SessionInv
  BY DEF SourceInv
<1>u. /\ UNCHANGED <<dbVars, snd, need, wasEver, st, parser, durVars>>
      /\ pc = "recv" /\ pc' = pc /\ slot' = AtLeast(slot, AckLSN)
  BY DEF Heartbeat, connVars
<1>1. slot # NoSlot /\ InSession /\ st.saved \in Nat /\ st.pos \in Nat
  BY <1>0, <1>u, Unfold DEF SlotInv, InSession
<1>2. AckLSN \in Nat /\ AckLSN <= st.saved
  BY <1>1 DEF AckLSN
<1>4. /\ SourceTypeOK' /\ WalInv' /\ HistoryInv' /\ LogInv'
      /\ SlotInv' /\ ResumeInv' /\ OrderInv' /\ SenderInv' /\ PassedInv' /\ Keeps
  BY <1>1, <1>2, <1>u, AckInv
<1>5. PhaseInv'
  BY <1>0, <1>1, <1>4, <1>u, KeepsPhase DEF SessionInv, durVars
<1>7. QED
  BY <1>4, <1>5 DEF SourceInv, SessionInv

\* Nothing to read: the connector is between two records.
LEMMA NothingOut ==
    ASSUME pc = "recv", PhaseInv, snd.out = <<>>, SourceTypeOK
    PROVE  Quiet
<1>1. Len(snd.out) = 0
  BY EmptySeq
<1>2. ~Plain /\ ~Segmenting /\ ~Aborting
  BY <1>1 DEF Plain, Segmenting, Aborting
<1>3. QED
  BY <1>2 DEF PhaseInv

LEMMA KeepaliveInv ==
    ASSUME Steady, SourceInv, Keepalive
    PROVE  SourceInv'
<1>0. /\ SourceTypeOK /\ WalInv /\ HistoryInv /\ LogInv
      /\ SlotInv /\ ResumeInv /\ OrderInv /\ SessionInv
  BY DEF SourceInv
<1>u. /\ UNCHANGED <<wal, history, slot, snd, pc, need, wasEver, parser, ckpt, log, covered>>
      /\ pc = "recv" /\ snd.out = <<>>
  BY DEF Keepalive, dbVars, durVars
<1>t. /\ slot \in Nat /\ ckpt \in Nat /\ covered \in Nat /\ wal \in Wal /\ slot # NoSlot
      /\ snd.pos \in Nat /\ st.pos \in Nat /\ need \in BOOLEAN
  BY <1>0, <1>u, Unfold DEF SlotInv, NoSlot
<1>i. SenderInv /\ PassedInv /\ PhaseInv
  BY <1>0, <1>u DEF SessionInv, InSession
<1>q. Quiet
  BY <1>0, <1>u, <1>i, NothingOut
<1>1. /\ st'.walBuf = st.walBuf /\ st'.pos = EndOf(snd.pos) /\ st'.saved = st.saved
      /\ st'.then = st.then /\ st'.open = st.open
  BY <1>0 DEF Keepalive, SourceTypeOK, TypeOK
<1>e. /\ EndOf(snd.pos) \in Nat
      /\ snd.pos > 0 => EndOf(snd.pos) = StartOf(snd.pos + 1) - Gap
      /\ snd.pos = 0 => EndOf(snd.pos) = 0
      /\ StartOf(snd.pos + 1) \in Nat
  BY <1>t, EndType, StartType
<1>2. SourceTypeOK'
  <2>1. st' \in [walBuf : Seq(Event), open : BOOLEAN, pos : Nat, saved : Nat,
                 then : {"recv", "save"}]
    BY <1>0, <1>e DEF Keepalive, SourceTypeOK, TypeOK
  <2>2. QED
    BY <2>1, <1>0, <1>u DEF SourceTypeOK, TypeOK
<1>3. WalInv' /\ HistoryInv' /\ LogInv'
  BY <1>0, <1>u, StillWal, StillLog
<1>4. SlotInv'
  BY <1>0, <1>u DEF SlotInv, NoSlot, StartOf
<1>5. ResumeInv' /\ OrderInv'
  BY <1>0, <1>u, StillSlot DEF Recovering
<1>6. SenderInv' /\ SameRecords
  BY <1>i, <1>u, StillSender
<1>l. \A y, n : LogHas(y, n)' <=> LogHas(y, n)
  BY <1>u, StillHas
<1>7. \A j \in DOMAIN wal : Dealt(j) => Dealt(j)'
  BY <1>l, <1>0, <1>u, <1>t, StillDealt
<1>8. PassedInv'
  <2>1. (\A j \in DOMAIN wal :
          (IsCommit(j) /\ (StartOf(j) < snd.start \/ j < snd.pos)) => Dealt(j))'
    BY <1>7, <1>i, <1>u DEF IsCommit, StartOf, PassedInv
  <2>2. Gap \in Nat /\ Gap > 0
    BY SourceAssumption DEF Steady
  <2>3. EndOf(snd.pos) = 0 \/ EndOf(snd.pos) < StartOf(snd.pos + 1)
    BY <1>e, <2>2, <1>t
  <2>4. QED
    BY <2>1, <2>3, <1>1, <1>u, <1>i DEF PassedInv, StartOf
<1>9. PhaseInv'
  <2>1. /\ snd.pos \in DOMAIN wal' <=> snd.pos \in DOMAIN wal
        /\ \A y \in Txn : Active(y)' <=> Active(y)
        /\ Nobody' <=> Nobody
    BY <1>6, <1>t, SameCurrent
  <2>3. (snd.pos \in DOMAIN wal /\ IsCommit(snd.pos) => Dealt(snd.pos))'
    <3>1. PICK p : p = snd.pos
      OBVIOUS
    <3>2. p \in DOMAIN wal /\ IsCommit(p) => Dealt(p)'
      BY <3>1, <1>q, <1>7 DEF Quiet
    <3>3. QED
      BY <3>1, <3>2, <1>u DEF IsCommit
  <2>4. \A y \in Txn : Active(y)' =>
          Buffered(y, 0, snd.sent[y])' /\ parser'.cs = snd'.sent[y] /\ st'.open
    BY <2>1, <1>1, <1>u, <1>q DEF Quiet, Buffered
  <2>5. Nobody' => (st'.walBuf = <<>> /\ ~st'.open)
    BY <2>1, <1>1, <1>q DEF Quiet
  <2>6. Quiet'
    BY <2>3, <2>4, <2>5, <1>u, <1>q DEF Quiet
  <2>7. QED
    BY <2>6, <1>u DEF PhaseInv
<1>10. QED
  BY <1>2, <1>3, <1>4, <1>5, <1>6, <1>8, <1>9 DEF SourceInv, SessionInv

\* The session is over: what is durable is as before.
LEMMA SessionOver ==
    ASSUME Steady, SourceInv, NEW was \in BOOLEAN, SessionEnds(was),
           UNCHANGED <<wal, history, ckpt, log, covered>>,
           slot' = slot \/ slot' = NoSlot, slot' = NoSlot => was,
           slot # NoSlot => ~Recovering,
           parser' = parser \/ parser' = NewParser
    PROVE  SourceInv'
<1>0. /\ SourceTypeOK /\ WalInv /\ HistoryInv /\ LogInv
      /\ SlotInv /\ ResumeInv /\ OrderInv /\ SessionInv
  BY DEF SourceInv
<1>u. pc' = "down" /\ wasEver' = was /\ need' = FALSE
  BY DEF SessionEnds
<1>1. SourceTypeOK'
  <2>1. snd' \in Sender
    BY EmptySeq DEF Sender, SessionEnds, NoSession
  <2>2. st' \in [walBuf : Seq(Event), open : BOOLEAN, pos : Nat, saved : Nat,
                 then : {"recv", "save"}]
    BY EmptySeq DEF SessionEnds, NewState
  <2>3. parser' \in [lsn : Nat, cs : Nat, inStream : BOOLEAN]
    <3>1. CASE parser' = parser
      BY <3>1, <1>0 DEF SourceTypeOK, TypeOK
    <3>2. CASE parser' = NewParser
      BY <3>2 DEF NewParser
    <3>3. QED
      BY <3>1, <3>2
  <2>4. QED
    BY <2>1, <2>2, <2>3, <1>0, <1>u DEF SourceTypeOK, TypeOK, NoSlot
<1>2. WalInv' /\ HistoryInv' /\ LogInv'
  BY <1>0, StillWal, StillLog
<1>3. SlotInv'
  <2>1. StartOf(Len(wal) + 1) \in Nat
    BY <1>0, Unfold, WalTypes, StartType
  <2>2. slot' <= StartOf(Len(wal) + 1)
    BY <2>1, <1>0, Unfold DEF SlotInv, NoSlot
  <2>3. QED
    BY <2>2, <1>0, <1>u DEF SlotInv, StartOf, NoSlot
<1>4. ResumeInv' /\ OrderInv'
  <2>1. CASE slot' = NoSlot
    BY <2>1 DEF ResumeInv, OrderInv, NoSlot
  <2>2. CASE slot' = slot
    BY <2>2, <1>0, <1>u, StillSlot DEF Recovering
  <2>3. QED
    BY <2>1, <2>2
<1>5. SessionInv'
  BY <1>u DEF SessionInv, InSession
<1>6. QED
  BY <1>1, <1>2, <1>3, <1>4, <1>5 DEF SourceInv

LEMMA FailureInv ==
    ASSUME Steady, SourceInv, LoseConnection \/ Restart \/ LoseSlot
    PROVE  SourceInv'
<1>0. SourceTypeOK /\ SlotInv /\ wasEver \in BOOLEAN
  BY Unfold DEF SourceInv
<1>1. CASE LoseConnection
  <2>1. /\ SessionEnds(TRUE) /\ UNCHANGED <<wal, history, ckpt, log, covered>> /\ slot' = slot
        /\ parser' = parser /\ ~Recovering
    BY <1>1 DEF LoseConnection, dbVars, durVars, Steady
  <2>2. QED
    BY <2>1, SessionOver
<1>2. CASE Restart
  <2>1. /\ SessionEnds(FALSE) /\ UNCHANGED <<wal, history, ckpt, log, covered>> /\ slot' = slot
        /\ parser' = NewParser /\ slot # NoSlot /\ ~Recovering
    BY <1>2 DEF Restart, dbVars, durVars, Steady
  <2>2. QED
    BY <2>1, SessionOver
<1>3. CASE LoseSlot
  <2>1. /\ SessionEnds(wasEver \/ pc # "down") /\ UNCHANGED <<wal, history, ckpt, log, covered>>
        /\ slot' = NoSlot /\ parser' = parser /\ ~Recovering /\ (wasEver \/ pc # "down")
    BY <1>3 DEF LoseSlot, dbVars, durVars, Steady
  <2>2. SessionEnds(TRUE)
    BY <2>1 DEF SessionEnds
  <2>3. QED
    BY <2>1, <2>2, SessionOver
<1>4. QED
  BY <1>1, <1>2, <1>3

-----------------------------------------------------------------------------
(* What the walsender sends for a record.                                  *)

Msgs == Seq(Message)

LEMMA MsgIs ==
    ASSUME NEW t \in MsgType, NEW x \in Txn, NEW l \in Nat, NEW n \in Nat, NEW f \in Nat
    PROVE  /\ Msg(t, x, l, n, f) \in Message
           /\ Msg(t, x, l, n, f).type = t /\ Msg(t, x, l, n, f).x = x
           /\ Msg(t, x, l, n, f).lsn = l /\ Msg(t, x, l, n, f).n = n
           /\ Msg(t, x, l, n, f).final = f
BY DEF Msg, Message

LEMMA MsgOne ==
    ASSUME NEW m \in Message
    PROVE  <<m>> \in Msgs /\ Len(<<m>>) = 1 /\ <<m>>[1] = m
BY DEF Msgs

LEMMA MsgConcat ==
    ASSUME NEW a \in Msgs, NEW b \in Msgs, NEW g, g = a \o b
    PROVE  /\ g \in Msgs /\ Len(g) = Len(a) + Len(b) /\ Len(a) \in Nat /\ Len(b) \in Nat
           /\ \A k \in 1..(Len(a) + Len(b)) : g[k] = IF k <= Len(a) THEN a[k] ELSE b[k - Len(a)]
BY ConcatProperties, LenProperties DEF Msgs

LEMMA MsgTypes ==
    ASSUME NEW g \in Msgs
    PROVE  /\ Len(g) \in Nat /\ DOMAIN g = 1..Len(g)
           /\ \A k \in 1..Len(g) : g[k] \in Message
           /\ g = <<>> <=> Len(g) = 0
BY LenProperties, ElementOfSeq, EmptySeq DEF Msgs

WithFirst(m, r) == <<m>> \o r
WithLast(r, e) == r \o <<e>>

LEMMA MsgFirst ==
    ASSUME NEW m \in Message, NEW r \in Msgs
    PROVE  /\ WithFirst(m, r) \in Msgs /\ Len(r) \in Nat
           /\ Len(WithFirst(m, r)) = Len(r) + 1 /\ WithFirst(m, r)[1] = m
           /\ \A k \in 1..Len(r) : WithFirst(m, r)[k + 1] = r[k]
<1>0. PICK h : h = WithFirst(m, r)
  OBVIOUS
<1>1. <<m>> \in Msgs /\ Len(<<m>>) = 1 /\ <<m>>[1] = m
  BY MsgOne
<1>2. PICK a : a = <<m>>
  OBVIOUS
<1>3. a \in Msgs /\ Len(a) = 1 /\ a[1] = m /\ h = a \o r
  BY <1>0, <1>1, <1>2 DEF WithFirst
<1>4. /\ h \in Msgs /\ Len(h) = 1 + Len(r) /\ Len(r) \in Nat
      /\ \A k \in 1..(1 + Len(r)) : h[k] = IF k <= 1 THEN a[k] ELSE r[k - 1]
  <2>1. /\ h \in Msgs /\ Len(h) = Len(a) + Len(r) /\ Len(a) \in Nat /\ Len(r) \in Nat
        /\ \A k \in 1..(Len(a) + Len(r)) : h[k] = IF k <= Len(a) THEN a[k] ELSE r[k - Len(a)]
    BY <1>3, MsgConcat, Zenon
  <2>2. QED
    BY <2>1, <1>3, Zenon
<1>5. \A k \in 1..Len(r) : h[k + 1] = r[k]
  <2>1. SUFFICES ASSUME NEW k \in 1..Len(r) PROVE h[k + 1] = r[k]
    OBVIOUS
  <2>2. k + 1 \in 1..(1 + Len(r)) /\ ~(k + 1 <= 1) /\ (k + 1) - 1 = k
    BY <1>4
  <2>3. QED
    BY <2>2, <1>4
<1>6. h[1] = m
  BY <1>3, <1>4
<1>7. QED
  BY <1>0, <1>4, <1>5, <1>6

LEMMA MsgLast ==
    ASSUME NEW e \in Message, NEW r \in Msgs
    PROVE  /\ WithLast(r, e) \in Msgs /\ Len(r) \in Nat
           /\ Len(WithLast(r, e)) = Len(r) + 1 /\ WithLast(r, e)[Len(r) + 1] = e
           /\ \A k \in 1..Len(r) : WithLast(r, e)[k] = r[k]
<1>0. PICK h : h = WithLast(r, e)
  OBVIOUS
<1>1. <<e>> \in Msgs /\ Len(<<e>>) = 1 /\ <<e>>[1] = e
  BY MsgOne
<1>2. PICK a : a = <<e>>
  OBVIOUS
<1>3. a \in Msgs /\ Len(a) = 1 /\ a[1] = e /\ h = r \o a
  BY <1>0, <1>1, <1>2 DEF WithLast
<1>4. /\ h \in Msgs /\ Len(h) = Len(r) + 1 /\ Len(r) \in Nat
      /\ \A k \in 1..(Len(r) + 1) : h[k] = IF k <= Len(r) THEN r[k] ELSE a[k - Len(r)]
  <2>1. /\ h \in Msgs /\ Len(h) = Len(r) + Len(a) /\ Len(r) \in Nat /\ Len(a) \in Nat
        /\ \A k \in 1..(Len(r) + Len(a)) : h[k] = IF k <= Len(r) THEN r[k] ELSE a[k - Len(r)]
    BY <1>3, MsgConcat, Zenon
  <2>2. QED
    BY <2>1, <1>3, Zenon
<1>5. \A k \in 1..Len(r) : h[k] = r[k]
  BY <1>4
<1>6. h[Len(r) + 1] = a[(Len(r) + 1) - Len(r)]
  BY <1>4
<1>7. (Len(r) + 1) - Len(r) = 1
  BY <1>4
<1>8. QED
  BY <1>0, <1>3, <1>4, <1>5, <1>6, <1>7

\* The rows of x that record i makes available.
LEMMA UnsentFacts ==
    ASSUME wal \in Wal, WalInv, snd.sent \in [Txn -> Nat], NEW x \in Txn, NEW i \in DOMAIN wal,
           NEW type \in Row, NEW s, s = snd.sent[x], s <= RowsUpTo(x, i),
           NEW g, g = Unsent(x, i, type), NEW d, d = RowsUpTo(x, i) - s
    PROVE  /\ d \in Nat /\ g \in Msgs /\ Len(g) = d
           /\ \A k \in 1..d : /\ g[k].type = type /\ g[k].x = x /\ g[k].n = s + k
                              /\ g[k].lsn \in Nat /\ g[k].lsn <= StartOf(i)
<1>1. /\ i \in Nat \ {0} /\ i \in 0..Len(wal) /\ RowsUpTo(x, i) \in Nat /\ s \in Nat
      /\ type \in MsgType
  <2>1. i \in Nat \ {0} /\ i \in 0..Len(wal)
    BY WalTypes
  <2>2. RowsUpTo(x, i) \in Nat
    BY <2>1, RowsFinite
  <2>3. type \in MsgType
    BY DEF Row, MsgType
  <2>4. QED
    BY <2>1, <2>2, <2>3
<1>2. d \in Nat
  BY <1>1
<1>3. ASSUME NEW k \in 1..d
      PROVE  StartOf(RowAt(x, s + k)) \in Nat /\ StartOf(RowAt(x, s + k)) <= StartOf(i)
  <2>1. s + k \in 1..RowsUpTo(x, i)
    BY <1>1
  <2>2. RowAt(x, s + k) \in 1..i
    BY <2>1, <1>1, RowAtIn
  <2>3. PICK r : r = RowAt(x, s + k)
    OBVIOUS
  <2>4. r \in Nat \ {0} /\ r <= i
    BY <2>2, <2>3, <1>1
  <2>5. StartOf(r) \in Nat /\ StartOf(r) <= StartOf(i)
    BY <2>4, <1>1, StartOrder
  <2>6. QED
    BY <2>5, <2>3
<1> DEFINE M(k) == Msg(type, x, StartOf(RowAt(x, s + k)), s + k, 0)
<1>4. ASSUME NEW k \in 1..d
      PROVE  /\ M(k) \in Message /\ M(k).type = type /\ M(k).x = x /\ M(k).n = s + k
             /\ M(k).lsn \in Nat /\ M(k).lsn <= StartOf(i)
  <2>1. StartOf(RowAt(x, s + k)) \in Nat /\ StartOf(RowAt(x, s + k)) <= StartOf(i) /\ s + k \in Nat
    BY <1>1, <1>3
  <2>2. /\ M(k) \in Message /\ M(k).type = type /\ M(k).x = x /\ M(k).n = s + k
        /\ M(k).lsn = StartOf(RowAt(x, s + k))
    <3>1. PICK l, n, m : l = StartOf(RowAt(x, s + k)) /\ n = s + k /\ m = Msg(type, x, l, n, 0)
      OBVIOUS
    <3>2. l \in Nat /\ n \in Nat /\ 0 \in Nat /\ M(k) = m
      BY <3>1, <2>1
    <3>3. m \in Message /\ m.type = type /\ m.x = x /\ m.lsn = l /\ m.n = n
      <4>1. l \in Nat /\ n \in Nat /\ 0 \in Nat /\ m = Msg(type, x, l, n, 0) /\ type \in MsgType
        BY <3>1, <3>2, <1>1
      <4>2. QED
        BY <4>1, MsgIs
    <3>4. QED
      BY <3>1, <3>2, <3>3
  <2>3. QED
    BY <2>1, <2>2
<1>5. g = [k \in 1..d |-> M(k)]
  BY DEF Unsent
<1> HIDE DEF M
<1>6. g \in Msgs /\ Len(g) = d /\ \A k \in 1..d : g[k] = M(k)
  BY <1>5, <1>4, <1>2 DEF Msgs
<1>7. QED
  BY <1>2, <1>4, <1>6

\* A segment: streamstart, rows s+1..s+d, streamstop; nothing when there is no row.
IsSegment(g, x, i, s, d) ==
    /\ d \in Nat /\ g \in Msgs /\ Len(g) = IF d = 0 THEN 0 ELSE d + 2
    /\ d > 0 => /\ g[1].type = "streamstart" /\ g[1].n = IF s = 0 THEN 1 ELSE 0
                /\ g[d + 2].type = "streamstop"
    /\ \A k \in 1..d : g[k + 1].type = "xidrow" /\ g[k + 1].x = x /\ g[k + 1].n = s + k
    /\ \A k \in 1..Len(g) : g[k].lsn \in Nat /\ g[k].lsn <= StartOf(i)

LEMMA SegmentFacts ==
    ASSUME wal \in Wal, WalInv, snd.sent \in [Txn -> Nat], NEW x \in Txn, NEW i \in DOMAIN wal,
           NEW s, s = snd.sent[x], s <= RowsUpTo(x, i),
           NEW g, g = Segment(x, i), NEW d, d = RowsUpTo(x, i) - s
    PROVE  IsSegment(g, x, i, s, d)
<1>1. PICK r : r = Unsent(x, i, "xidrow")
  OBVIOUS
<1>2. /\ d \in Nat /\ r \in Msgs /\ Len(r) = d
      /\ \A k \in 1..d : /\ r[k].type = "xidrow" /\ r[k].x = x /\ r[k].n = s + k
                         /\ r[k].lsn \in Nat /\ r[k].lsn <= StartOf(i)
  BY <1>1, UnsentFacts DEF Row
<1>3. CASE d = 0
  <2>1. r = <<>>
    BY <1>2, <1>3, MsgTypes
  <2>2. g = <<>>
    BY <2>1, <1>1 DEF Segment
  <2>3. g \in Msgs /\ Len(g) = 0
    BY <2>2, EmptySeq DEF Msgs
  <2>4. QED
    BY <2>3, <1>3, <1>2 DEF IsSegment
<1>4. CASE d > 0
  <2>1. r # <<>>
    BY <1>2, <1>4, MsgTypes
  <2>2. PICK m : m = Msg("streamstart", x, r[1].lsn, IF s = 0 THEN 1 ELSE 0, 0)
    OBVIOUS
  <2>3. PICK e : e = Msg("streamstop", x, r[Len(r)].lsn, 0, 0)
    OBVIOUS
  <2>4. g = WithLast(WithFirst(m, r), e)
    BY <2>1, <2>2, <2>3, <1>1 DEF Segment, WithFirst, WithLast
  <2>5. r[1].lsn \in Nat /\ r[1].lsn <= StartOf(i) /\ r[Len(r)].lsn \in Nat /\ r[Len(r)].lsn <= StartOf(i)
    BY <1>2, <1>4
  <2>6. (IF s = 0 THEN 1 ELSE 0) \in Nat
    OBVIOUS
  <2>t. "streamstart" \in MsgType /\ "streamstop" \in MsgType /\ 0 \in Nat
    BY DEF MsgType
  <2>7. m \in Message /\ m.type = "streamstart" /\ m.n = (IF s = 0 THEN 1 ELSE 0) /\ m.lsn = r[1].lsn
    <3>1. PICK l, n : l = r[1].lsn /\ n = (IF s = 0 THEN 1 ELSE 0)
      OBVIOUS
    <3>2. l \in Nat /\ n \in Nat /\ m = Msg("streamstart", x, l, n, 0)
      BY <3>1, <2>2, <2>5, <2>6
    <3>3. m \in Message /\ m.type = "streamstart" /\ m.lsn = l /\ m.n = n
      BY <3>2, <2>t, MsgIs
    <3>4. QED
      BY <3>1, <3>3
  <2>8. e \in Message /\ e.type = "streamstop" /\ e.lsn = r[Len(r)].lsn
    <3>1. PICK l : l = r[Len(r)].lsn
      OBVIOUS
    <3>2. l \in Nat /\ e = Msg("streamstop", x, l, 0, 0)
      BY <3>1, <2>3, <2>5
    <3>3. e \in Message /\ e.type = "streamstop" /\ e.lsn = l
      BY <3>2, <2>t, MsgIs
    <3>4. QED
      BY <3>1, <3>3
  <2>9. PICK h : h = WithFirst(m, r)
    OBVIOUS
  <2>11. h \in Msgs /\ Len(h) = d + 1 /\ h[1] = m /\ \A k \in 1..d : h[k + 1] = r[k]
    <3>1. h \in Msgs /\ Len(h) = Len(r) + 1 /\ h[1] = m /\ \A k \in 1..Len(r) : h[k + 1] = r[k]
      <4>1. m \in Message /\ r \in Msgs /\ h = WithFirst(m, r)
        BY <2>9, <2>7, <1>2
      <4>2. QED
        BY <4>1, MsgFirst
    <3>2. QED
      BY <3>1, <1>2, Zenon
  <2>12. /\ g \in Msgs /\ Len(g) = d + 2 /\ g[(d + 1) + 1] = e
         /\ \A k \in 1..(d + 1) : g[k] = h[k]
    <3>1. g = WithLast(h, e)
      BY <2>4, <2>9
    <3>2. g \in Msgs /\ Len(g) = Len(h) + 1 /\ g[Len(h) + 1] = e /\ \A k \in 1..Len(h) : g[k] = h[k]
      <4>1. e \in Message /\ h \in Msgs /\ g = WithLast(h, e)
        BY <3>1, <2>8, <2>11
      <4>2. QED
        BY <4>1, MsgLast
    <3>3. QED
      BY <3>2, <2>11, <1>2
  <2>13. g[1] = m /\ g[d + 2] = e /\ \A k \in 1..d : g[k + 1] = r[k]
    <3>1. 1 \in 1..(d + 1) /\ (d + 1) + 1 = d + 2 /\ \A k \in 1..d : k + 1 \in 1..(d + 1)
      BY <1>2, <1>4
    <3>2. QED
      BY <3>1, <2>11, <2>12
  <2>14. ASSUME NEW k \in 1..(d + 2)
         PROVE  g[k].lsn \in Nat /\ g[k].lsn <= StartOf(i)
    <3>1. CASE k = 1
      BY <3>1, <2>13, <2>7, <2>5
    <3>2. CASE k = d + 2
      BY <3>2, <2>13, <2>8, <2>5
    <3>3. CASE k # 1 /\ k # d + 2
      <4>1. k - 1 \in 1..d /\ (k - 1) + 1 = k
        BY <3>3, <1>2
      <4>2. g[k] = r[k - 1]
        BY <4>1, <2>13
      <4>3. QED
        BY <4>1, <4>2, <1>2
    <3>4. QED
      BY <3>1, <3>2, <3>3
  <2>15. d # 0 /\ (d = 0 <=> FALSE)
    BY <1>4, <1>2
  <2>16. g[1].type = "streamstart" /\ g[1].n = (IF s = 0 THEN 1 ELSE 0) /\ g[d + 2].type = "streamstop"
    BY <2>13, <2>7, <2>8, Zenon
  <2>17. \A k \in 1..d : g[k + 1].type = "xidrow" /\ g[k + 1].x = x /\ g[k + 1].n = s + k
    BY <2>13, <1>2, Zenon
  <2>18. QED
    BY <2>12, <2>14, <2>15, <2>16, <2>17, <1>2, Zenon DEF IsSegment
<1>5. QED
  BY <1>2, <1>3, <1>4

\* streamstart, rows s+1..s+d of x and streamstop, when there are rows.
SegmentShape(g, x, s, d) ==
    /\ d > 0 => /\ g[1].type = "streamstart" /\ g[1].n = IF s = 0 THEN 1 ELSE 0
                /\ g[d + 2].type = "streamstop"
    /\ \A k \in 1..d : g[k + 1].type = "xidrow" /\ g[k + 1].x = x /\ g[k + 1].n = s + k

SegmentLen(d) == IF d = 0 THEN 0 ELSE d + 2

Skipped(i, s, ms) ==
    /\ ms = <<>>
    /\ wal[i][2] = "commit" => StartOf(i) < snd.start
    /\ wal[i][2] = "abort" => s = 0

StreamedRow(i, x, s, d, ms) ==
    /\ wal[i][2] = "row" /\ MayStream(x, i) /\ ms # <<>>
    /\ Len(ms) = SegmentLen(d) /\ SegmentShape(ms, x, s, d)

StreamedCommit(i, x, s, d, ms) ==
    /\ wal[i][2] = "commit" /\ ~(StartOf(i) < snd.start) /\ s > 0
    /\ Len(ms) = SegmentLen(d) + 1 /\ SegmentShape(ms, x, s, d)
    /\ ms[Len(ms)].type = "streamcommit" /\ ms[Len(ms)].final = StartOf(i)

PlainCommit(i, x, s, d, ms) ==
    /\ wal[i][2] = "commit" /\ ~(StartOf(i) < snd.start) /\ s = 0
    /\ Len(ms) = d + 2
    /\ ms[1].type = "begin" /\ ms[1].final = StartOf(i) /\ ms[d + 2].type = "commit"
    /\ \A k \in 1..d : ms[k + 1].type = "row" /\ ms[k + 1].x = x /\ ms[k + 1].n = k

StreamedAbort(i, s, ms) ==
    /\ wal[i][2] = "abort" /\ s > 0
    /\ Len(ms) = 1 /\ ms[1].type = "streamabort"

\* A message of record i ends before record i + 1 starts.
LEMMA InsideRecord ==
    ASSUME NEW i \in Nat \ {0}, NEW l \in Nat, l <= StartOf(i) \/ l = EndOf(i)
    PROVE  Gap > MsgLen => l + MsgLen < StartOf(i + 1)
<1>1. StartOf(i) \in Nat /\ StartOf(i + 1) \in Nat /\ StartOf(i) + Unit <= StartOf(i + 1)
  BY StartOrder
<1>2. EndOf(i) = StartOf(i + 1) - Gap
  BY EndType
<1>3. Unit \in Nat /\ Gap \in Nat /\ Gap < Unit /\ MsgLen \in Nat
  BY SourceAssumption
<1>4. QED
  BY <1>1, <1>2, <1>3

LEMMA EmittedCommit ==
    ASSUME wal \in Wal, WalInv, snd.sent \in [Txn -> Nat],
           NEW i \in DOMAIN wal, NEW x, x = wal[i][1], IsCommit(i),
           NEW s, s = snd.sent[x], s <= RowsUpTo(x, i), NEW d, d = RowsUpTo(x, i) - s,
           NEW ms, ms \in Emitted(i), ~(StartOf(i) < snd.start)
    PROVE  /\ ms \in Msgs
           /\ \A k \in 1..Len(ms) : ms[k].lsn \in Nat /\ (Gap > MsgLen => ms[k].lsn + MsgLen < StartOf(i + 1))
           /\ StreamedCommit(i, x, s, d, ms) \/ PlainCommit(i, x, s, d, ms)
<1>0. x \in Txn /\ i \in Nat \ {0} /\ i \in Nat /\ wal[i][2] = "commit" /\ s \in Nat
      /\ i \in 0..Len(wal)
  BY WalTypes DEF IsCommit
<1>1. /\ EndOf(i) \in Nat /\ StartOf(i) \in Nat /\ 0 \in Nat
      /\ {"streamcommit", "begin", "commit"} \subseteq MsgType
  BY <1>0, EndType, StartType DEF MsgType
<1>2. CASE s > 0
  <2>1. PICK g, e : g = Segment(x, i) /\ e = Msg("streamcommit", x, EndOf(i), 0, StartOf(i))
    OBVIOUS
  <2>2. ms = WithLast(g, e)
    BY <2>1, <1>2, <1>0, IsCommit(i) DEF Emitted, WithLast
  <2>3. e \in Message /\ e.type = "streamcommit" /\ e.lsn = EndOf(i) /\ e.final = StartOf(i)
    <3>1. PICK l, f : l = EndOf(i) /\ f = StartOf(i)
      OBVIOUS
    <3>2. l \in Nat /\ f \in Nat /\ e = Msg("streamcommit", x, l, 0, f) /\ "streamcommit" \in MsgType
      BY <2>1, <3>1, <1>1
    <3>3. e \in Message /\ e.type = "streamcommit" /\ e.lsn = l /\ e.final = f
      <4>1. x \in Txn /\ 0 \in Nat
        BY <1>0
      <4>2. PICK q : q = "streamcommit"
        OBVIOUS
      <4>3. q \in MsgType
        BY <3>2, <4>2
      <4>4. /\ Msg(q, x, l, 0, f) \in Message /\ Msg(q, x, l, 0, f).type = q
            /\ Msg(q, x, l, 0, f).lsn = l /\ Msg(q, x, l, 0, f).final = f
        BY <4>1, <4>3, <3>2, MsgIs
      <4>5. QED
        BY <3>2, <4>2, <4>4
    <3>4. QED
      BY <3>1, <3>3
  <2>4. /\ d \in Nat /\ g \in Msgs /\ Len(g) = IF d = 0 THEN 0 ELSE d + 2
        /\ d > 0 => /\ g[1].type = "streamstart" /\ g[1].n = IF s = 0 THEN 1 ELSE 0
                    /\ g[d + 2].type = "streamstop"
        /\ \A k \in 1..d : g[k + 1].type = "xidrow" /\ g[k + 1].x = x /\ g[k + 1].n = s + k
        /\ \A k \in 1..Len(g) : g[k].lsn \in Nat /\ g[k].lsn <= StartOf(i)
    <3>1. IsSegment(g, x, i, s, d)
      BY <2>1, <1>0, SegmentFacts
    <3>2. QED
      BY <3>1 DEF IsSegment
  <2>5. /\ ms \in Msgs /\ Len(g) \in Nat /\ Len(ms) = Len(g) + 1 /\ ms[Len(g) + 1] = e
        /\ \A k \in 1..Len(g) : ms[k] = g[k]
    BY <2>2, <2>3, <2>4, MsgLast
  <2>6. ASSUME NEW k \in 1..Len(ms)
        PROVE  ms[k].lsn \in Nat /\ (Gap > MsgLen => ms[k].lsn + MsgLen < StartOf(i + 1))
    <3>1. ms[k].lsn \in Nat /\ (ms[k].lsn <= StartOf(i) \/ ms[k].lsn = EndOf(i))
      <4>1. CASE k = Len(g) + 1
        BY <4>1, <2>3, <2>5, <1>1
      <4>2. CASE k # Len(g) + 1
        <5>1. k \in 1..Len(g)
          BY <4>2, <2>5
        <5>2. QED
          BY <5>1, <2>4, <2>5
      <4>3. QED
        BY <4>1, <4>2
    <3>2. PICK l : l = ms[k].lsn
      OBVIOUS
    <3>3. Gap > MsgLen => l + MsgLen < StartOf(i + 1)
      BY <3>1, <3>2, <1>0, InsideRecord
    <3>4. QED
      BY <3>1, <3>2, <3>3
  <2>7. SegmentShape(ms, x, s, d)
    <3>1. d > 0 => (1 \in 1..Len(g) /\ d + 2 \in 1..Len(g))
      BY <2>4
    <3>2. \A k \in 1..d : k + 1 \in 1..Len(g)
      BY <2>4
    <3>3. d > 0 => (ms[1] = g[1] /\ ms[d + 2] = g[d + 2])
      BY <3>1, <2>5
    <3>4. \A k \in 1..d : ms[k + 1] = g[k + 1]
      BY <3>2, <2>5
    <3>5. d > 0 => /\ ms[1].type = "streamstart" /\ ms[1].n = IF s = 0 THEN 1 ELSE 0
                   /\ ms[d + 2].type = "streamstop"
      BY <3>3, <2>4
    <3>6. \A k \in 1..d : ms[k + 1].type = "xidrow" /\ ms[k + 1].x = x /\ ms[k + 1].n = s + k
      BY <3>4, <2>4
    <3>7. QED
      BY <3>5, <3>6 DEF SegmentShape
  <2>8. ms[Len(ms)].type = "streamcommit" /\ ms[Len(ms)].final = StartOf(i)
    BY <2>5, <2>3
  <2>9. Len(ms) = SegmentLen(d) + 1
    BY <2>4, <2>5 DEF SegmentLen
  <2>10. QED
    BY <2>5, <2>6, <2>7, <2>8, <2>9, <1>0, <1>2 DEF StreamedCommit
<1>3. CASE s = 0
  <2>0. RowsUpTo(x, i) = RowsOf[x]
    BY <1>0 DEF WalInv
  <2>1. d \in Nat /\ d >= 1 /\ 1 \in 1..RowsUpTo(x, i)
    BY <2>0, <1>0, <1>3, SourceAssumption
  <2>2. PICK b, g, e : /\ b = Msg("begin", x, StartOf(RowAt(x, 1)), 0, StartOf(i))
                       /\ g = Unsent(x, i, "row")
                       /\ e = Msg("commit", x, EndOf(i), 0, 0)
    OBVIOUS
  <2>3. ms = WithLast(WithFirst(b, g), e)
    BY <2>2, <1>3, <1>0, IsCommit(i) DEF Emitted, WithLast, WithFirst
  <2>4. PICK r : r = RowAt(x, 1)
    OBVIOUS
  <2>5. r \in 1..i
    BY <2>1, <2>4, <1>0, RowAtIn
  <2>6. StartOf(r) \in Nat /\ StartOf(r) <= StartOf(i)
    BY <2>5, <1>0, StartOrder
  <2>7. b \in Message /\ b.type = "begin" /\ b.lsn = StartOf(r) /\ b.final = StartOf(i)
    <3>1. PICK l, f : l = StartOf(r) /\ f = StartOf(i)
      OBVIOUS
    <3>2. l \in Nat /\ f \in Nat /\ b = Msg("begin", x, l, 0, f) /\ "begin" \in MsgType
      BY <2>2, <2>4, <2>6, <3>1, <1>1
    <3>3. b \in Message /\ b.type = "begin" /\ b.lsn = l /\ b.final = f
      <4>1. x \in Txn /\ 0 \in Nat
        BY <1>0
      <4>2. QED
        BY <3>2, <4>1, MsgIs
    <3>4. QED
      BY <3>1, <3>3
  <2>8. e \in Message /\ e.type = "commit" /\ e.lsn = EndOf(i)
    <3>1. PICK l : l = EndOf(i)
      OBVIOUS
    <3>2. l \in Nat /\ e = Msg("commit", x, l, 0, 0) /\ "commit" \in MsgType
      BY <2>2, <3>1, <1>1
    <3>3. e \in Message /\ e.type = "commit" /\ e.lsn = l
      <4>1. x \in Txn /\ 0 \in Nat
        BY <1>0
      <4>2. QED
        BY <3>2, <4>1, MsgIs
    <3>4. QED
      BY <3>1, <3>3
  <2>9. /\ g \in Msgs /\ Len(g) = d
        /\ \A k \in 1..d : /\ g[k].type = "row" /\ g[k].x = x /\ g[k].n = s + k
                           /\ g[k].lsn \in Nat /\ g[k].lsn <= StartOf(i)
    BY <2>2, <1>0, UnsentFacts DEF Row
  <2>10. PICK h : h = WithFirst(b, g)
    OBVIOUS
  <2>11. h \in Msgs /\ Len(h) = d + 1 /\ h[1] = b /\ \A k \in 1..d : h[k + 1] = g[k]
    BY <2>10, <2>9, <2>7, MsgFirst
  <2>12. /\ ms \in Msgs /\ Len(ms) = Len(h) + 1 /\ ms[Len(h) + 1] = e
         /\ \A k \in 1..Len(h) : ms[k] = h[k]
    BY <2>3, <2>10, <2>11, <2>8, MsgLast
  <2>13. Len(ms) = d + 2 /\ ms[d + 2] = e /\ ms[1] = b /\ \A k \in 1..d : ms[k + 1] = g[k]
    <3>1. (d + 1) + 1 = d + 2 /\ 1 \in 1..(d + 1) /\ \A k \in 1..d : k + 1 \in 1..(d + 1)
      BY <2>1
    <3>2. QED
      BY <3>1, <2>11, <2>12
  <2>14. ASSUME NEW k \in 1..Len(ms)
         PROVE  ms[k].lsn \in Nat /\ (Gap > MsgLen => ms[k].lsn + MsgLen < StartOf(i + 1))
    <3>1. ms[k].lsn \in Nat /\ (ms[k].lsn <= StartOf(i) \/ ms[k].lsn = EndOf(i))
      <4>1. CASE k = d + 2
        BY <4>1, <2>13, <2>8, <1>1
      <4>2. CASE k = 1
        BY <4>2, <2>13, <2>7, <2>6
      <4>3. CASE k # 1 /\ k # d + 2
        <5>1. k - 1 \in 1..d /\ (k - 1) + 1 = k
          BY <4>3, <2>13, <2>1
        <5>2. ms[k] = g[k - 1]
          BY <5>1, <2>13
        <5>3. QED
          BY <5>1, <5>2, <2>9
      <4>4. QED
        BY <4>1, <4>2, <4>3
    <3>2. PICK l : l = ms[k].lsn
      OBVIOUS
    <3>3. Gap > MsgLen => l + MsgLen < StartOf(i + 1)
      BY <3>1, <3>2, <1>0, InsideRecord
    <3>4. QED
      BY <3>1, <3>2, <3>3
  <2>15. ms[1].type = "begin" /\ ms[1].final = StartOf(i) /\ ms[d + 2].type = "commit"
    BY <2>13, <2>7, <2>8
  <2>16. \A k \in 1..d : s + k = k
    BY <1>3, <2>1
  <2>17. \A k \in 1..d : ms[k + 1].type = "row" /\ ms[k + 1].x = x /\ ms[k + 1].n = k
    BY <2>9, <2>13, <2>16
  <2>18. QED
    BY <2>12, <2>13, <2>14, <2>15, <2>17, <1>0, <1>3 DEF PlainCommit
<1>4. QED
  BY <1>0, <1>2, <1>3

LEMMA EmittedRow ==
    ASSUME wal \in Wal, WalInv, snd.sent \in [Txn -> Nat],
           NEW i \in DOMAIN wal, NEW x, x = wal[i][1],
           NEW s, s = snd.sent[x], s <= RowsUpTo(x, i), NEW d, d = RowsUpTo(x, i) - s,
           NEW ms, ms = Segment(x, i), wal[i][2] = "row", MayStream(x, i), ms # <<>>
    PROVE  /\ ms \in Msgs
           /\ \A k \in 1..Len(ms) : ms[k].lsn \in Nat /\ (Gap > MsgLen => ms[k].lsn + MsgLen < StartOf(i + 1))
           /\ StreamedRow(i, x, s, d, ms)
<1>0. x \in Txn /\ i \in Nat \ {0}
  BY WalTypes
<1>1. IsSegment(ms, x, i, s, d)
  BY <1>0, SegmentFacts
<1>2. ms \in Msgs /\ \A k \in 1..Len(ms) : ms[k].lsn \in Nat /\ ms[k].lsn <= StartOf(i)
  BY <1>1 DEF IsSegment
<1>3. ASSUME NEW k \in 1..Len(ms)
      PROVE  ms[k].lsn \in Nat /\ (Gap > MsgLen => ms[k].lsn + MsgLen < StartOf(i + 1))
  <2>1. PICK l : l = ms[k].lsn
    OBVIOUS
  <2>2. l \in Nat /\ l <= StartOf(i)
    BY <2>1, <1>2
  <2>3. Gap > MsgLen => l + MsgLen < StartOf(i + 1)
    BY <2>2, <1>0, InsideRecord
  <2>4. QED
    BY <2>1, <2>2, <2>3
<1>4. Len(ms) = SegmentLen(d) /\ SegmentShape(ms, x, s, d)
  BY <1>1 DEF IsSegment, SegmentLen, SegmentShape
<1>5. QED
  BY <1>2, <1>3, <1>4 DEF StreamedRow

\* Nothing, or the messages of one of the four kinds of records that are sent.
EmittedKinds(i, x, s, d, ms) ==
    \/ Skipped(i, s, ms)
    \/ StreamedRow(i, x, s, d, ms)
    \/ StreamedCommit(i, x, s, d, ms)
    \/ PlainCommit(i, x, s, d, ms)
    \/ StreamedAbort(i, s, ms)

LEMMA EmittedCases ==
    ASSUME wal \in Wal, WalInv, snd.sent \in [Txn -> Nat],
           NEW i \in DOMAIN wal, NEW x, x = wal[i][1],
           NEW s, s = snd.sent[x], s <= RowsUpTo(x, i), NEW d, d = RowsUpTo(x, i) - s,
           NEW ms, ms \in Emitted(i)
    PROVE  /\ ms \in Msgs
           /\ \A k \in 1..Len(ms) : ms[k].lsn \in Nat /\ (Gap > MsgLen => ms[k].lsn + MsgLen < StartOf(i + 1))
           /\ EmittedKinds(i, x, s, d, ms)
<1>0. x \in Txn /\ i \in Nat \ {0} /\ i \in Nat /\ wal[i][2] \in Kinds /\ s \in Nat
  BY WalTypes
<1>1. ASSUME ms = <<>> PROVE ms \in Msgs /\ \A k \in 1..Len(ms) : FALSE
  BY <1>1, EmptySeq DEF Msgs
<1>2. CASE wal[i][2] = "row"
  <2>1. ms = <<>> \/ (MayStream(x, i) /\ ms = Segment(x, i))
    BY <1>2 DEF Emitted
  <2>2. CASE ms = <<>>
    <3>1. Skipped(i, s, ms)
      BY <2>2, <1>2 DEF Skipped
    <3>2. QED
      BY <3>1, <2>2, <1>1 DEF EmittedKinds
  <2>3. CASE ms # <<>> /\ MayStream(x, i) /\ ms = Segment(x, i)
    BY <2>3, <1>2, EmittedRow DEF EmittedKinds
  <2>4. QED
    BY <2>1, <2>2, <2>3
<1>3. CASE wal[i][2] = "commit"
  <2>1. CASE StartOf(i) < snd.start
    <3>1. ms = <<>>
      BY <1>3, <2>1 DEF Emitted
    <3>2. Skipped(i, s, ms)
      BY <3>1, <2>1, <1>3 DEF Skipped
    <3>3. QED
      BY <3>1, <3>2, <1>1 DEF EmittedKinds
  <2>2. CASE ~(StartOf(i) < snd.start)
    <3>1. IsCommit(i)
      BY <1>3 DEF IsCommit
    <3>2. QED
      BY <3>1, <2>2, EmittedCommit DEF EmittedKinds
  <2>3. QED
    BY <2>1, <2>2
<1>4. CASE wal[i][2] = "abort"
  <2>0. ms = IF s > 0 THEN <<Msg("streamabort", x, EndOf(i), 0, 0)>> ELSE <<>>
    BY <1>4 DEF Emitted
  <2>1. CASE ~(s > 0)
    <3>1. ms = <<>> /\ s = 0
      BY <2>0, <2>1, <1>0
    <3>2. Skipped(i, s, ms)
      BY <3>1, <1>4 DEF Skipped
    <3>3. QED
      BY <3>1, <3>2, <1>1 DEF EmittedKinds
  <2>2. CASE s > 0
    <3>1. PICK l, e : l = EndOf(i) /\ e = Msg("streamabort", x, l, 0, 0)
      OBVIOUS
    <3>2. l \in Nat /\ "streamabort" \in MsgType /\ 0 \in Nat /\ x \in Txn
      BY <3>1, <1>0, EndType DEF MsgType
    <3>3. e \in Message /\ e.type = "streamabort" /\ e.lsn = l
      BY <3>1, <3>2, MsgIs
    <3>4. ms = <<e>>
      BY <2>0, <2>2, <3>1
    <3>5. ms \in Msgs /\ Len(ms) = 1 /\ ms[1] = e
      BY <3>3, <3>4, MsgOne
    <3>6. Gap > MsgLen => l + MsgLen < StartOf(i + 1)
      BY <3>1, <3>2, <1>0, InsideRecord
    <3>7. StreamedAbort(i, s, ms)
      BY <3>3, <3>5, <2>2, <1>4 DEF StreamedAbort
    <3>8. \A k \in 1..Len(ms) : k = 1
      BY <3>5
    <3>9. QED
      BY <3>2, <3>3, <3>5, <3>6, <3>7, <3>8 DEF EmittedKinds
  <2>3. QED
    BY <2>1, <2>2
<1>5. QED
  BY <1>0, <1>2, <1>3, <1>4 DEF Kinds

-----------------------------------------------------------------------------
(* The walsender passes a record.                                          *)

\* A step within a session that writes nothing durable.
LEMMA SessionStep ==
    ASSUME SourceInv, InSession, InSession',
           UNCHANGED <<wal, history, slot, need, wasEver, ckpt, log, covered>>
    PROVE  /\ WalInv' /\ HistoryInv' /\ LogInv' /\ SlotInv' /\ ResumeInv' /\ OrderInv'
           /\ slot # NoSlot /\ slot \in Nat /\ need = FALSE
           /\ \A j \in DOMAIN wal : Dealt(j) => Dealt(j)'
<1>0. /\ SourceTypeOK /\ WalInv /\ HistoryInv /\ LogInv
      /\ SlotInv /\ ResumeInv /\ OrderInv /\ SessionInv
  BY DEF SourceInv
<1>1. slot # NoSlot /\ slot \in Nat /\ need = FALSE
  BY <1>0, Unfold DEF SlotInv, InSession
<1>2. WalInv' /\ HistoryInv' /\ LogInv'
  BY <1>0, StillWal, StillLog
<1>3. SlotInv'
  BY <1>0, <1>1 DEF SlotInv, StartOf
<1>4. ~Recovering /\ ~Recovering'
  BY <1>1 DEF Recovering
<1>5. ResumeInv' /\ OrderInv'
  BY <1>0, <1>4, StillSlot
<1>6. \A j \in DOMAIN wal : Dealt(j) => Dealt(j)'
  <2>1. SUFFICES ASSUME NEW j \in DOMAIN wal, Dealt(j) PROVE Dealt(j)'
    OBVIOUS
  <2>2. \A y, n : LogHas(y, n) => LogHas(y, n)'
    BY StillHas
  <2>3. covered \in Nat /\ covered' \in Nat /\ covered <= covered' /\ slot \in Int /\ slot' \in Int
        /\ slot <= slot'
    BY <1>0, <1>1, Unfold, HistoryTypes
  <2>4. QED
    BY <2>1, <2>2, <2>3, <1>0, StillDealt
<1>7. QED
  BY <1>1, <1>2, <1>3, <1>5, <1>6

Decodes(i, x, ms) ==
    /\ pc = "recv" /\ snd.out = <<>> /\ i = snd.pos + 1 /\ i \in DOMAIN wal
    /\ x = wal[i][1] /\ ms \in Emitted(i)
    /\ snd' = [snd EXCEPT !.pos = i, !.out = ms,
                          !.sent[x] = IF ms = <<>> THEN @ ELSE RowsUpTo(x, i)]
    /\ UNCHANGED <<wal, history, slot, pc, need, wasEver, st, parser, ckpt, log, covered>>

LEMMA DecodesFields ==
    ASSUME SourceTypeOK, SenderInv, NEW i, NEW x, NEW ms, Decodes(i, x, ms)
    PROVE  /\ i \in Nat \ {0} /\ i \in DOMAIN wal /\ snd.pos = i - 1 /\ x \in Txn /\ x = wal[i][1]
           /\ snd'.pos = i /\ snd'.start = snd.start /\ snd'.out = ms
           /\ snd.sent[x] <= RowsUpTo(x, i) /\ RowsUpTo(x, i) \in Nat
           /\ \A y \in Txn : snd'.sent[y] = IF y # x \/ ms = <<>> THEN snd.sent[y]
                                            ELSE RowsUpTo(x, i)
           /\ snd'.sent \in [Txn -> Nat]
<1>1. i \in DOMAIN wal /\ x = wal[i][1] /\ i = snd.pos + 1
  BY DEF Decodes
<1>2. i \in Nat \ {0} /\ snd.pos = i - 1 /\ x \in Txn /\ snd.pos \in Nat
  <2>1. wal \in Wal /\ snd.pos \in Nat
    BY Unfold
  <2>2. x \in Txn
    BY <2>1, <1>1, WalTypes
  <2>3. QED
    BY <2>1, <2>2, <1>1
<1>3. RowsUpTo(x, i) \in Nat /\ RowsUpTo(x, snd.pos) \in Nat
  BY <1>2, Unfold, RowsFinite
<1>4. RowsUpTo(x, snd.pos) <= RowsUpTo(x, i)
  BY <1>2, Unfold, RowsGrow
<1>5. snd.sent[x] <= RowsUpTo(x, i)
  BY <1>2, <1>3, <1>4, Unfold DEF SenderInv
<1>6. snd'.pos = i /\ snd'.start = snd.start /\ snd'.out = ms
  BY DEF Decodes, SourceTypeOK, Sender
<1>7. snd'.sent = [snd.sent EXCEPT ![x] = IF ms = <<>> THEN snd.sent[x] ELSE RowsUpTo(x, i)]
  BY DEF Decodes, SourceTypeOK, Sender
<1>8. snd.sent \in [Txn -> Nat]
  BY Unfold
<1>9. QED
  BY <1>1, <1>2, <1>3, <1>5, <1>6, <1>7, <1>8

\* Only the transaction of the record can be active before or after it.
LEMMA DecodesActive ==
    ASSUME SourceTypeOK, WalInv, SenderInv, NEW i, NEW x, NEW ms, Decodes(i, x, ms)
    PROVE  /\ \A y \in Txn : Active(y) <=> (y = x /\ snd.sent[x] > 0)
           /\ \A y \in Txn : Active(y)' <=> (y = x /\ snd'.sent[x] > 0 /\ wal[i][2] = "row")
<1>1. /\ i \in Nat \ {0} /\ i \in DOMAIN wal /\ snd.pos = i - 1 /\ x \in Txn /\ x = wal[i][1]
      /\ snd'.pos = i
      /\ \A y \in Txn : y # x => snd'.sent[y] = snd.sent[y]
  BY DecodesFields
<1>2. wal' = wal /\ Len(wal) \in Nat /\ DOMAIN wal = 1..Len(wal)
  BY Unfold, WalTypes DEF Decodes
<1>3. \A y \in Txn : Active(y) => y = x
  <2>1. SUFFICES ASSUME NEW y \in Txn, Active(y), y # x PROVE FALSE
    OBVIOUS
  <2>2. \/ wal[i][1] = y
        \/ \E e \in DOMAIN wal : snd.pos < e /\ e < i
    BY <2>1, <1>1 DEF SenderInv
  <2>3. QED
    BY <2>1, <2>2, <1>1, <1>2
<1>4. \A e \in DOMAIN wal : (e < i /\ wal[e][1] = x) => wal[e][2] = "row"
  BY <1>1, <1>2 DEF WalInv
<1>5. snd.sent[x] > 0 => Active(x)
  BY <1>1, <1>2, <1>4 DEF Active
<1>6. \A y \in Txn : Active(y)' => y = x
  <2>1. SUFFICES ASSUME NEW y \in Txn, Active(y)', y # x PROVE FALSE
    OBVIOUS
  <2>2. Active(y)
    BY <2>1, <1>1, <1>2 DEF Active
  <2>3. QED
    BY <2>1, <2>2, <1>3
<1>7. Active(x)' => (snd'.sent[x] > 0 /\ wal[i][2] = "row")
  BY <1>1, <1>2 DEF Active
<1>8. (snd'.sent[x] > 0 /\ wal[i][2] = "row") => Active(x)'
  BY <1>1, <1>2, <1>4 DEF Active
<1>9. Active(x) => snd.sent[x] > 0
  BY DEF Active
<1>10. QED
  BY <1>1, <1>3, <1>5, <1>6, <1>7, <1>8, <1>9

\* A transaction that may be streamed has the WAL to itself until it ends.
LEMMA StreamAlone ==
    ASSUME wal \in Wal, WalInv, Steady, NEW i \in DOMAIN wal, NEW x, x = wal[i][1],
           wal[i][2] = "row", MayStream(x, i), NEW j \in DOMAIN wal, j > i
    PROVE  \/ wal[j][1] = x
           \/ \E e \in DOMAIN wal : i < e /\ e < j /\ wal[e][1] = x /\ wal[e][2] # "row"
<1>0. DOMAIN wal = 1..Len(wal) /\ Len(wal) \in Nat
  BY WalTypes
<1>1. \A k \in i..LastOf(x) : wal[k][1] = x
  BY DEF MayStream, Steady
<1>2. CASE ~Ended(x)
  <2>1. LastOf(x) = Len(wal)
    BY <1>2 DEF LastOf
  <2>2. j \in i..LastOf(x)
    BY <2>1, <1>0
  <2>3. QED
    BY <2>2, <1>1
<1>3. CASE Ended(x)
  <2>1. PICK e \in DOMAIN wal : wal[e] = <<x, "commit">> \/ wal[e] = <<x, "abort">>
    BY <1>3 DEF Ended, RecordsOf
  <2>2. LastOf(x) \in DOMAIN wal /\ wal[LastOf(x)] \in {<<x, "commit">>, <<x, "abort">>}
    BY <2>1, <1>3 DEF LastOf
  <2>3. PICK l : l = LastOf(x)
    OBVIOUS
  <2>4. l \in DOMAIN wal /\ wal[l][1] = x /\ wal[l][2] # "row"
    BY <2>2, <2>3
  <2>5. l > i
    <3>1. l # i
      BY <2>4
    <3>2. ~(l < i)
      BY <2>4 DEF WalInv
    <3>3. QED
      BY <3>1, <3>2, <2>4, <1>0
  <2>6. CASE j <= l
    <3>1. j \in i..l
      BY <2>6, <2>4, <1>0
    <3>2. QED
      BY <3>1, <2>3, <1>1
  <2>7. CASE j > l
    BY <2>7, <2>4, <2>5
  <2>8. QED
    BY <2>4, <2>6, <2>7, <1>0
<1>4. QED
  BY <1>2, <1>3

LEMMA DecodesKinds ==
    ASSUME SourceInv, Steady, NEW i, NEW x, NEW ms, Decodes(i, x, ms),
           NEW s, s = snd.sent[x], NEW d, d = RowsUpTo(x, i) - s, SenderInv
    PROVE  /\ ms \in Msgs /\ s \in Nat /\ d \in Nat
           /\ \A k \in 1..Len(ms) : ms[k].lsn \in Nat /\ ms[k].lsn + MsgLen < StartOf(i + 1)
           /\ EmittedKinds(i, x, s, d, ms)
           /\ ms = <<>> => Skipped(i, s, ms)
           /\ wal[i][2] = "row" => d > 0
<1>0. SourceTypeOK /\ WalInv /\ Gap > MsgLen
  BY DEF SourceInv, Steady
<1>1. /\ i \in Nat \ {0} /\ i \in DOMAIN wal /\ snd.pos = i - 1 /\ x \in Txn /\ x = wal[i][1]
      /\ snd.sent[x] <= RowsUpTo(x, i) /\ RowsUpTo(x, i) \in Nat
  BY <1>0, DecodesFields
<1>2. wal \in Wal /\ snd.sent \in [Txn -> Nat] /\ s \in Nat
  BY <1>0, <1>1, Unfold
<1>3. ms \in Emitted(i)
  BY DEF Decodes
<1>4. /\ ms \in Msgs
      /\ \A k \in 1..Len(ms) : ms[k].lsn \in Nat /\ ms[k].lsn + MsgLen < StartOf(i + 1)
      /\ EmittedKinds(i, x, s, d, ms)
  BY <1>0, <1>1, <1>2, <1>3, EmittedCases
<1>5. d \in Nat
  BY <1>1, <1>2
<1>6. ASSUME ms = <<>> PROVE Skipped(i, s, ms)
  <2>1. Len(ms) = 0
    BY <1>6, <1>4, MsgTypes
  <2>2. SegmentLen(d) \in Nat /\ d + 2 # 0 /\ SegmentLen(d) + 1 # 0
    BY <1>5 DEF SegmentLen
  <2>3. ~StreamedRow(i, x, s, d, ms)
    BY <1>6 DEF StreamedRow
  <2>4. ~StreamedCommit(i, x, s, d, ms)
    BY <2>1, <2>2 DEF StreamedCommit
  <2>5. ~PlainCommit(i, x, s, d, ms)
    BY <2>1, <2>2 DEF PlainCommit
  <2>6. ~StreamedAbort(i, s, ms)
    BY <2>1 DEF StreamedAbort
  <2>7. QED
    BY <2>3, <2>4, <2>5, <2>6, <1>4 DEF EmittedKinds
<1>7. wal[i][2] = "row" => d > 0
  <2>1. SUFFICES ASSUME wal[i][2] = "row" PROVE d > 0
    OBVIOUS
  <2>2. PICK q : q = i - 1
    OBVIOUS
  <2>3. q \in Nat /\ q + 1 = i /\ snd.pos = q
    BY <2>2, <1>1
  <2>4. RowsUpTo(x, q + 1) = RowsUpTo(x, q) + 1
    BY <2>1, <2>3, <1>1, <1>2, RowsNext
  <2>5. s <= RowsUpTo(x, q) /\ RowsUpTo(x, q) \in Nat
    BY <2>3, <1>1, <1>2, RowsFinite DEF SenderInv
  <2>6. QED
    BY <2>3, <2>4, <2>5, <1>2
<1>8. QED
  BY <1>2, <1>4, <1>5, <1>6, <1>7

LEMMA DecodesSender ==
    ASSUME SourceInv, Steady, NEW i, NEW x, NEW ms, Decodes(i, x, ms), SenderInv
    PROVE  SenderInv'
<1>0. SourceTypeOK /\ WalInv
  BY DEF SourceInv
<1>1. /\ i \in Nat \ {0} /\ i \in DOMAIN wal /\ snd.pos = i - 1 /\ x \in Txn /\ x = wal[i][1]
      /\ snd'.pos = i /\ snd'.start = snd.start /\ snd'.out = ms
      /\ RowsUpTo(x, i) \in Nat /\ snd.sent[x] <= RowsUpTo(x, i)
      /\ \A y \in Txn : snd'.sent[y] = IF y # x \/ ms = <<>> THEN snd.sent[y] ELSE RowsUpTo(x, i)
  BY <1>0, DecodesFields
<1>2. wal' = wal /\ Len(wal) \in Nat /\ DOMAIN wal = 1..Len(wal) /\ wal \in Wal
      /\ snd.sent \in [Txn -> Nat] /\ snd.start \in Nat
  BY <1>0, Unfold, WalTypes DEF Decodes
<1>3. PICK s, d : s = snd.sent[x] /\ d = RowsUpTo(x, i) - s
  OBVIOUS
<1>4. /\ ms \in Msgs /\ s \in Nat /\ d \in Nat
      /\ \A k \in 1..Len(ms) : ms[k].lsn \in Nat /\ ms[k].lsn + MsgLen < StartOf(i + 1)
      /\ EmittedKinds(i, x, s, d, ms)
  BY <1>3, DecodesKinds
<1>5. \A k \in Nat : RowsUpTo(x, k)' = RowsUpTo(x, k) /\ StartOf(k)' = StartOf(k)
  BY <1>2 DEF RowsUpTo, RecordsOf, StartOf
<1>6. snd'.pos <= Len(wal') /\ snd'.start <= StartOf(Len(wal') + 1)
  <2>1. snd.start <= StartOf(Len(wal) + 1)
    BY DEF SenderInv
  <2>2. QED
    BY <2>1, <1>1, <1>2
<1>7. ASSUME NEW y \in Txn
      PROVE  snd'.sent[y] <= RowsUpTo(y, i)
  <2>1. RowsUpTo(y, snd.pos) <= RowsUpTo(y, i) /\ RowsUpTo(y, i) \in Nat /\ RowsUpTo(y, snd.pos) \in Nat
    <3>1. PICK q : q = snd.pos
      OBVIOUS
    <3>2. q \in Nat /\ i \in Nat /\ q <= i /\ wal \in Wal
      BY <3>1, <1>1, <1>2
    <3>3. RowsUpTo(y, q) <= RowsUpTo(y, i)
      BY <3>2, RowsGrow
    <3>4. RowsUpTo(y, i) \in Nat /\ RowsUpTo(y, q) \in Nat
      BY <3>2, RowsFinite
    <3>5. QED
      BY <3>1, <3>3, <3>4
  <2>2. snd.sent[y] <= RowsUpTo(y, snd.pos) /\ snd.sent[y] \in Nat
    BY <1>2 DEF SenderInv
  <2>3. QED
    BY <2>1, <2>2, <1>1
<1>8. \A y \in Txn : Active(y) <=> (y = x /\ snd.sent[x] > 0)
  BY <1>0, DecodesActive
<1>9. \A y \in Txn : Active(y)' <=> (y = x /\ snd'.sent[x] > 0 /\ wal[i][2] = "row")
  BY <1>0, DecodesActive
<1>10. ASSUME snd'.sent[x] > 0, wal[i][2] = "row"
       PROVE  /\ snd.start <= StartOf(i + 1)
              /\ \A j \in DOMAIN wal : j > i =>
                    \/ wal[j][1] = x
                    \/ \E e \in DOMAIN wal : i < e /\ e < j /\ wal[e][1] = x /\ wal[e][2] # "row"
  <2>0. StartOf(i) \in Nat /\ StartOf(i + 1) \in Nat /\ StartOf(i) <= StartOf(i + 1)
    BY <1>1, StartOrder
  <2>1. CASE s > 0
    <3>1. Active(x)
      BY <2>1, <1>3, <1>8, <1>1
    <3>2. snd.pos + 1 = i
      BY <1>1
    <3>3. snd.start <= StartOf(snd.pos + 1)
      BY <3>1, <1>1 DEF SenderInv
    <3>4. snd.start <= StartOf(i + 1)
      BY <3>2, <3>3, <2>0, <1>2
    <3>5. ASSUME NEW j \in DOMAIN wal, j > i
          PROVE  \/ wal[j][1] = x
                 \/ \E e \in DOMAIN wal : i < e /\ e < j /\ wal[e][1] = x /\ wal[e][2] # "row"
      <4>1. \/ wal[j][1] = x
            \/ \E e \in DOMAIN wal : /\ snd.pos < e /\ e < j
                                     /\ wal[e][1] = x /\ wal[e][2] # "row"
        BY <3>1, <3>5, <1>1, <1>2 DEF SenderInv
      <4>2. ASSUME NEW e \in DOMAIN wal, snd.pos < e, wal[e][2] # "row"
            PROVE  i < e
        BY <4>2, <1>10, <1>1, <1>2
      <4>3. QED
        BY <4>1, <4>2
    <3>6. QED
      BY <3>4, <3>5
  <2>2. CASE s = 0
    <3>1. ms # <<>>
      BY <2>2, <1>3, <1>1, <1>10
    <3>2. StreamedRow(i, x, s, d, ms)
      BY <3>1, <1>10, <1>4 DEF EmittedKinds, Skipped, StreamedCommit, PlainCommit, StreamedAbort
    <3>3. MayStream(x, i)
      BY <3>2 DEF StreamedRow
    <3>4. StartOf(i) >= snd.start
      BY <3>3 DEF MayStream
    <3>5. \A j \in DOMAIN wal : j > i =>
                    \/ wal[j][1] = x
                    \/ \E e \in DOMAIN wal : i < e /\ e < j /\ wal[e][1] = x /\ wal[e][2] # "row"
      BY <3>3, <1>10, <1>1, <1>2, <1>0, StreamAlone
    <3>6. QED
      BY <3>4, <3>5, <2>0, <1>2
  <2>3. QED
    BY <2>1, <2>2, <1>4
<1>11. \A k \in DOMAIN ms : ms[k].lsn + MsgLen < StartOf(i + 1)
  BY <1>4, MsgTypes
<1>12. \A y \in Txn : Active(y)' =>
          /\ snd'.start <= StartOf(i + 1)
          /\ \A j \in DOMAIN wal' : j > snd'.pos =>
                \/ wal'[j][1] = y
                \/ \E e \in DOMAIN wal' : /\ snd'.pos < e /\ e < j
                                          /\ wal'[e][1] = y /\ wal'[e][2] # "row"
  <2>1. SUFFICES ASSUME NEW y \in Txn, Active(y)'
                 PROVE  /\ snd.start <= StartOf(i + 1)
                        /\ \A j \in DOMAIN wal : j > i =>
                              \/ wal[j][1] = y
                              \/ \E e \in DOMAIN wal : i < e /\ e < j /\ wal[e][1] = y /\ wal[e][2] # "row"
    BY <1>1, <1>2
  <2>2. y = x /\ snd'.sent[x] > 0 /\ wal[i][2] = "row"
    BY <2>1, <1>9
  <2>3. QED
    BY <2>2, <1>10
<1>13. \A y \in Txn : snd'.sent[y] <= RowsUpTo(y, snd.pos)'
  BY <1>7, <1>1, <1>2 DEF RowsUpTo, RecordsOf
<1>14. StartOf(snd.pos + 1)' = StartOf(i + 1) /\ StartOf(Len(wal) + 1)' = StartOf(Len(wal') + 1)
  BY <1>1 DEF StartOf
<1>15. QED
  BY <1>6, <1>11, <1>12, <1>13, <1>14, <1>1 DEF SenderInv

LEMMA DecodesPassed ==
    ASSUME SourceInv, Steady, NEW i, NEW x, NEW ms, Decodes(i, x, ms), SenderInv, PassedInv, Quiet
    PROVE  PassedInv'
<1>0. SourceTypeOK /\ WalInv
  BY DEF SourceInv
<1>1. /\ i \in Nat \ {0} /\ i \in DOMAIN wal /\ snd.pos = i - 1
      /\ snd'.pos = i /\ snd'.start = snd.start
  BY <1>0, DecodesFields
<1>2. UNCHANGED <<wal, history, slot, need, wasEver, ckpt, log, covered, st, pc>> /\ pc = "recv"
  BY DEF Decodes
<1>3. slot \in Nat /\ \A j \in DOMAIN wal : Dealt(j) => Dealt(j)'
  BY <1>2, SessionStep DEF InSession
<1>4. st.pos \in Nat /\ st.saved \in Nat /\ snd.start \in Nat
  BY <1>0, Unfold
<1>5. StartOf(i) \in Nat /\ StartOf(i + 1) \in Nat /\ StartOf(i) < StartOf(i + 1) /\ snd.pos + 1 = i
  BY <1>1, StartOrder
<1>6. st.pos = 0 \/ st.pos < StartOf(i + 1)
  BY <1>4, <1>5 DEF PassedInv
<1>7. slot <= snd.start \/ slot <= StartOf(i + 1)
  BY <1>3, <1>4, <1>5 DEF PassedInv
<1>8. st.saved <= snd.start \/ st.saved <= StartOf(i + 1)
  BY <1>4, <1>5 DEF PassedInv
<1>9. ASSUME NEW j \in DOMAIN wal, IsCommit(j), StartOf(j) < snd.start \/ j < i
      PROVE  Dealt(j)'
  <2>1. CASE StartOf(j) < snd.start \/ j < snd.pos
    BY <2>1, <1>9, <1>3 DEF PassedInv
  <2>2. CASE j = snd.pos
    BY <2>2, <1>9, <1>3 DEF Quiet
  <2>3. QED
    <3>1. j \in Nat
      BY <1>0, Unfold, WalTypes
    <3>2. QED
      BY <3>1, <2>1, <2>2, <1>9, <1>1
<1>10. \A j \in DOMAIN wal' :
          (IsCommit(j)' /\ (StartOf(j) < snd'.start \/ j < snd'.pos)) => Dealt(j)'
  BY <1>9, <1>1, <1>2 DEF IsCommit
<1>11. StartOf(snd.pos + 1)' = StartOf(i + 1) /\ \A j : StartOf(j)' = StartOf(j)
  BY <1>1 DEF StartOf
<1>12. st'.saved <= ckpt'
  BY <1>2 DEF PassedInv
<1>13. QED
  BY <1>1, <1>2, <1>6, <1>7, <1>8, <1>10, <1>11, <1>12 DEF PassedInv

\* What is buffered when the walsender reaches a record of x.
LEMMA DecodesBuffer ==
    ASSUME SourceTypeOK, WalInv, NEW i, NEW x, NEW ms, Decodes(i, x, ms), SenderInv, Quiet,
           NEW s, s = snd.sent[x]
    PROVE  /\ s \in Nat /\ x \in Txn /\ Buffered(x, 0, s) /\ Len(st.walBuf) = s
           /\ s > 0 => parser.cs = s /\ st.open
           /\ s = 0 => st.walBuf = <<>> /\ ~st.open
           /\ ~parser.inStream
<1>1. \A y \in Txn : Active(y) <=> (y = x /\ s > 0)
  BY DecodesActive
<1>2. s \in Nat /\ x \in Txn
  BY DecodesFields, Unfold
<1>3. CASE s > 0
  <2>1. Active(x)
    BY <1>1, <1>2, <1>3
  <2>2. Buffered(x, 0, s) /\ parser.cs = s /\ st.open
    BY <2>1, <1>2 DEF Quiet
  <2>3. Len(st.walBuf) = s
    BY <2>2, <1>2 DEF Buffered
  <2>4. QED
    BY <2>2, <2>3, <1>2, <1>3 DEF Quiet
<1>4. CASE s = 0
  <2>1. Nobody
    BY <1>1, <1>4 DEF Nobody
  <2>2. st.walBuf = <<>> /\ ~st.open
    BY <2>1 DEF Quiet
  <2>3. Len(st.walBuf) = 0
    BY <2>2, EmptySeq
  <2>4. Buffered(x, 0, s)
    BY <2>3, <1>4 DEF Buffered
  <2>5. QED
    BY <2>2, <2>3, <2>4, <1>2, <1>4 DEF Quiet
<1>5. QED
  BY <1>2, <1>3, <1>4

\* Facts shared by the cases below.
LEMMA DecodesNow ==
    ASSUME SourceInv, Steady, NEW i, NEW x, NEW ms, Decodes(i, x, ms), SenderInv
    PROVE  /\ snd'.pos = i /\ snd'.start = snd.start /\ snd'.out = ms
           /\ i \in DOMAIN wal' /\ wal' = wal /\ wal[i][1] = x /\ x \in Txn
           /\ CurTxn' = x /\ CurRows' = RowsUpTo(x, i)
           /\ IsCommit(snd.pos)' <=> wal[i][2] = "commit"
           /\ StartOf(snd.pos)' = StartOf(i)
           /\ wal'[snd'.pos][2] = wal[i][2]
           /\ st' = st /\ parser' = parser /\ pc' = "recv" /\ slot' = slot
           /\ i \in Nat \ {0} /\ i \in DOMAIN wal
           /\ \A y \in Txn : Active(y)' <=> (y = x /\ snd'.sent[x] > 0 /\ wal[i][2] = "row")
           /\ RowsUpTo(x, i) \in Nat
           /\ ms # <<>> => snd'.sent[x] = RowsUpTo(x, i)
           /\ ms = <<>> => snd'.sent[x] = snd.sent[x]
<1>0. SourceTypeOK /\ WalInv
  BY DEF SourceInv
<1>1. /\ i \in Nat \ {0} /\ i \in DOMAIN wal /\ x \in Txn /\ x = wal[i][1]
      /\ snd'.pos = i /\ snd'.start = snd.start /\ snd'.out = ms
      /\ RowsUpTo(x, i) \in Nat
      /\ \A y \in Txn : snd'.sent[y] = IF y # x \/ ms = <<>> THEN snd.sent[y] ELSE RowsUpTo(x, i)
  BY <1>0, DecodesFields
<1>2. wal' = wal /\ st' = st /\ parser' = parser /\ pc' = "recv" /\ slot' = slot
  BY DEF Decodes
<1>3. CurTxn' = x
  BY <1>1, <1>2 DEF CurTxn
<1>4. CurRows' = RowsUpTo(x, i)
  BY <1>1, <1>2 DEF CurRows, RowsUpTo, RecordsOf
<1>5. (IsCommit(snd.pos)' <=> wal[i][2] = "commit") /\ StartOf(snd.pos)' = StartOf(i)
  BY <1>1, <1>2 DEF IsCommit, StartOf
<1>6. \A y \in Txn : Active(y)' <=> (y = x /\ snd'.sent[x] > 0 /\ wal[i][2] = "row")
  BY <1>0, DecodesActive
<1>7. QED
  BY <1>1, <1>2, <1>3, <1>4, <1>5, <1>6

LEMMA DecodesCommitInv ==
    ASSUME SourceInv, Steady, NEW i, NEW x, NEW ms, Decodes(i, x, ms), SenderInv, PassedInv,
           wal[i][2] = "commit", ~(StartOf(i) < snd.start)
    PROVE  CommitInv'
<1>0. SourceTypeOK
  BY DEF SourceInv
<1>1. /\ snd'.pos = i /\ snd'.start = snd.start /\ i \in DOMAIN wal'
      /\ (IsCommit(snd.pos)' <=> wal[i][2] = "commit") /\ StartOf(snd.pos)' = StartOf(i)
      /\ st' = st /\ slot' = slot /\ i \in Nat \ {0}
      /\ \A y \in Txn : Active(y)' <=> (y = x /\ snd'.sent[x] > 0 /\ wal[i][2] = "row")
  BY DecodesNow
<1>2. snd.pos + 1 = i
  BY <1>0, DecodesFields
<1>3. StartOf(i) \in Nat /\ snd.start \in Nat /\ st.saved \in Nat
  BY <1>0, <1>1, Unfold, StartType
<1>4. slot \in Nat
  BY SessionStep DEF Decodes, InSession
<1>5. snd.start <= StartOf(i)
  BY <1>3
<1>6. slot <= StartOf(i) /\ st.saved <= StartOf(i)
  BY <1>2, <1>3, <1>4, <1>5 DEF PassedInv
<1>7. Nobody'
  BY <1>1 DEF Nobody
<1>8. QED
  BY <1>1, <1>5, <1>6, <1>7 DEF CommitInv

LEMMA DecodesSkipped ==
    ASSUME SourceInv, Steady, NEW i, NEW x, NEW ms, Decodes(i, x, ms), SenderInv, PassedInv, Quiet,
           ms = <<>>
    PROVE  Quiet'
<1>0. SourceTypeOK /\ WalInv
  BY DEF SourceInv
<1>1. /\ snd'.pos = i /\ snd'.out = ms /\ wal' = wal /\ st' = st /\ parser' = parser
      /\ snd'.sent[x] = snd.sent[x] /\ x \in Txn /\ i \in DOMAIN wal /\ wal[i][1] = x
      /\ (IsCommit(snd.pos)' <=> wal[i][2] = "commit")
      /\ \A y \in Txn : Active(y)' <=> (y = x /\ snd'.sent[x] > 0 /\ wal[i][2] = "row")
  BY DecodesNow
<1>2. PICK s, d : s = snd.sent[x] /\ d = RowsUpTo(x, i) - s
  OBVIOUS
<1>3. Skipped(i, s, ms)
  BY <1>2, DecodesKinds
<1>4. /\ s \in Nat /\ Buffered(x, 0, s)
      /\ s > 0 => parser.cs = s /\ st.open
      /\ s = 0 => st.walBuf = <<>> /\ ~st.open
      /\ ~parser.inStream
  BY <1>0, <1>2, DecodesBuffer
<1>5. \A j \in DOMAIN wal : Dealt(j) => Dealt(j)'
  BY SessionStep DEF Decodes, InSession
<1>6. (snd'.pos \in DOMAIN wal' /\ IsCommit(snd.pos)') => Dealt(snd.pos)'
  <2>1. SUFFICES ASSUME wal[i][2] = "commit" PROVE Dealt(snd.pos)'
    BY <1>1
  <2>2. StartOf(i) < snd.start
    BY <2>1, <1>3 DEF Skipped
  <2>3. Dealt(i)
    BY <2>1, <2>2, <1>1 DEF PassedInv, IsCommit
  <2>4. Dealt(i)'
    BY <2>3, <1>5, <1>1
  <2>5. QED
    BY <2>4, <1>1 DEF Dealt
<1>7. ASSUME NEW y \in Txn, Active(y)'
      PROVE  Buffered(y, 0, snd.sent[y])' /\ parser'.cs = snd'.sent[y] /\ st'.open
  <2>1. y = x /\ s > 0 /\ snd'.sent[y] = s
    BY <1>1, <1>2, <1>7
  <2>2. Buffered(x, 0, s) /\ parser.cs = s /\ st.open
    BY <2>1, <1>4
  <2>3. QED
    BY <2>1, <2>2, <1>1 DEF Buffered
<1>8. Nobody' => (st'.walBuf = <<>> /\ ~st'.open)
  <2>1. SUFFICES ASSUME Nobody' PROVE s = 0
    BY <1>1, <1>4
  <2>2. ~(s > 0 /\ wal[i][2] = "row")
    BY <2>1, <1>1, <1>2 DEF Nobody
  <2>3. ~(s > 0 /\ wal[i][2] = "abort")
    BY <1>3, <1>4 DEF Skipped
  <2>4. ~(s > 0 /\ wal[i][2] = "commit")
    <3>1. SUFFICES ASSUME s > 0, wal[i][2] = "commit" PROVE FALSE
      OBVIOUS
    <3>2. Active(x)
      BY <3>1, <1>0, <1>1, <1>2, DecodesActive
    <3>3. snd.start <= StartOf(snd.pos + 1) /\ snd.pos + 1 = i /\ i \in Nat \ {0}
      BY <3>2, <1>0, <1>1, DecodesFields DEF SenderInv
    <3>4. StartOf(i) < snd.start
      BY <3>1, <1>3 DEF Skipped
    <3>5. StartOf(i) \in Nat /\ snd.start \in Nat
      BY <3>3, <1>0, StartType, Unfold
    <3>6. QED
      BY <3>3, <3>4, <3>5
  <2>5. wal[i][2] \in {"row", "commit", "abort"}
    BY <1>0, <1>1, Unfold, WalTypes DEF Kinds
  <2>6. QED
    BY <2>2, <2>3, <2>4, <2>5, <1>4
<1>9. ~parser'.inStream /\ snd'.out = <<>>
  BY <1>1, <1>4
<1>10. QED
  BY <1>6, <1>7, <1>8, <1>9 DEF Quiet

\* A segment follows what is buffered of its transaction.
LEMMA DecodesSegment ==
    ASSUME SourceInv, Steady, NEW i, NEW x, NEW ms, Decodes(i, x, ms), SenderInv, PassedInv, Quiet,
           NEW s, s = snd.sent[x], NEW d, d = RowsUpTo(x, i) - s,
           StreamedRow(i, x, s, d, ms) \/ StreamedCommit(i, x, s, d, ms)
    PROVE  Segmenting'
<1>0. SourceTypeOK /\ WalInv
  BY DEF SourceInv
<1>1. /\ snd'.pos = i /\ snd'.out = ms /\ wal' = wal /\ st' = st /\ parser' = parser
      /\ x \in Txn /\ i \in DOMAIN wal /\ wal[i][1] = x /\ RowsUpTo(x, i) \in Nat
      /\ CurTxn' = x /\ CurRows' = RowsUpTo(x, i)
      /\ (IsCommit(snd.pos)' <=> wal[i][2] = "commit") /\ StartOf(snd.pos)' = StartOf(i)
      /\ \A y \in Txn : Active(y)' <=> (y = x /\ snd'.sent[x] > 0 /\ wal[i][2] = "row")
      /\ ms # <<>> => snd'.sent[x] = RowsUpTo(x, i)
  BY DecodesNow
<1>2. ms \in Msgs /\ s \in Nat /\ d \in Nat /\ (wal[i][2] = "row" => d > 0)
  BY DecodesKinds
<1>3. /\ Buffered(x, 0, s) /\ Len(st.walBuf) = s
      /\ s > 0 => parser.cs = s
      /\ ~parser.inStream
  BY <1>0, DecodesBuffer
<1>4. SegmentShape(ms, x, s, d)
  BY DEF StreamedRow, StreamedCommit
<1>5. PICK t : t = IF wal[i][2] = "commit" THEN 1 ELSE 0
  OBVIOUS
<1>6. t \in {0, 1} /\ Len(ms) = SegmentLen(d) + t /\ wal[i][2] \in {"row", "commit"}
      /\ (t = 0 => d > 0) /\ Tails' = t
  <2>1. SegmentLen(d) \in Nat
    BY <1>2 DEF SegmentLen
  <2>2. t \in {0, 1} /\ Tails' = t
    BY <1>5, <1>1 DEF Tails
  <2>3. CASE StreamedRow(i, x, s, d, ms)
    BY <2>1, <2>2, <2>3, <1>2, <1>5 DEF StreamedRow
  <2>4. CASE StreamedCommit(i, x, s, d, ms)
    BY <2>1, <2>2, <2>4, <1>2, <1>5 DEF StreamedCommit
  <2>5. QED
    BY <2>3, <2>4
<1>7. ms # <<>> /\ Len(ms) \in Nat
  BY <1>2, <1>6, MsgTypes DEF SegmentLen
<1>8. snd'.sent[x] = RowsUpTo(x, i) /\ RowsUpTo(x, i) = s + d
  BY <1>1, <1>2, <1>7
<1>9. wal[i][2] = "row" => Active(x)'
  BY <1>1, <1>2, <1>8
<1>10. StreamTail'
  <2>1. CASE wal[i][2] # "commit"
    BY <2>1, <1>1 DEF StreamTail
  <2>2. CASE wal[i][2] = "commit"
    <3>1. StreamedCommit(i, x, s, d, ms)
      BY <2>2 DEF StreamedRow
    <3>2. CommitInv'
      BY <3>1, DecodesCommitInv DEF StreamedCommit
    <3>3. snd'.out[Len(snd'.out)].type = "streamcommit" /\ snd'.out[Len(snd'.out)].final = StartOf(i)
      BY <3>1, <1>1 DEF StreamedCommit
    <3>4. QED
      BY <3>2, <3>3, <1>1 DEF StreamTail
  <2>3. QED
    BY <2>1, <2>2
<1>11. Buffered(CurTxn, 0, Len(st.walBuf))'
  BY <1>1, <1>3 DEF Buffered
<1> DEFINE b == Len(st'.walBuf)
           rest == Len(snd'.out) - Tails'
<1>12. b = s /\ b \in Nat /\ rest = SegmentLen(d) /\ CurRows' - b = d /\ b <= CurRows' /\ CurRows' = s + d
  <2>1. b = s
    BY <1>1, <1>3
  <2>2. rest = SegmentLen(d)
    <3>1. Len(snd'.out) = SegmentLen(d) + t /\ Tails' = t
      BY <1>1, <1>6
    <3>2. SegmentLen(d) \in Nat /\ t \in Nat
      BY <1>2, <1>6 DEF SegmentLen
    <3>3. QED
      BY <3>1, <3>2
  <2>3. QED
    BY <2>1, <2>2, <1>1, <1>2, <1>8
<1>13. CASE d = 0
  <2>1. rest = 0 /\ b = CurRows' /\ ~parser'.inStream
    BY <1>12, <1>13, <1>1, <1>2, <1>3 DEF SegmentLen
  <2>2. QED
    BY <2>1, <1>1, <1>6, <1>7, <1>8, <1>9, <1>10, <1>11, <1>12 DEF Segmenting
<1>14. CASE d > 0
  <2>0. SegmentLen(d) = d + 2
    BY <1>14, <1>2 DEF SegmentLen
  <2>1. rest = CurRows' - b + 2 /\ rest = d + 2
    BY <2>0, <1>12
  <2>2. ms[1].type = "streamstart" /\ ms[1].n = (IF s = 0 THEN 1 ELSE 0) /\ ms[d + 2].type = "streamstop"
    BY <1>4, <1>14 DEF SegmentShape
  <2>3. \A k \in 1..d : ms[k + 1].type = "xidrow" /\ ms[k + 1].x = x /\ ms[k + 1].n = s + k
    BY <1>4 DEF SegmentShape
  <2>4. ~parser'.inStream /\ snd'.out[1].type = "streamstart" /\ snd'.out[rest].type = "streamstop"
    BY <2>1, <2>2, <1>1, <1>3
  <2>5. IF b = 0 THEN snd'.out[1].n = 1 ELSE snd'.out[1].n = 0 /\ parser'.cs = b
    <3>1. snd'.out[1].n = (IF s = 0 THEN 1 ELSE 0) /\ (s > 0 => parser'.cs = s)
      BY <2>2, <1>1, <1>3
    <3>2. CASE b = 0
      BY <3>1, <3>2, <1>12
    <3>3. CASE b # 0
      <4>1. s # 0 /\ s > 0
        BY <3>3, <1>2, <1>12
      <4>2. QED
        BY <4>1, <3>1, <3>3, <1>12
    <3>4. QED
      BY <3>2, <3>3
  <2>6. \A k \in 1..(CurRows' - b) :
            /\ snd'.out[k + 1].type = "xidrow" /\ snd'.out[k + 1].x = CurTxn'
            /\ snd'.out[k + 1].n = b + k
    BY <2>3, <1>1, <1>12
  <2>7. QED
    BY <2>1, <2>4, <2>5, <2>6, <1>1, <1>6, <1>7, <1>8, <1>9, <1>10, <1>11, <1>12 DEF Segmenting
<1>15. QED
  BY <1>13, <1>14, <1>2

LEMMA DecodesPlain ==
    ASSUME SourceInv, Steady, NEW i, NEW x, NEW ms, Decodes(i, x, ms), SenderInv, PassedInv, Quiet,
           NEW s, s = snd.sent[x], NEW d, d = RowsUpTo(x, i) - s, PlainCommit(i, x, s, d, ms)
    PROVE  Plain'
<1>0. SourceTypeOK /\ WalInv
  BY DEF SourceInv
<1>1. /\ snd'.pos = i /\ snd'.out = ms /\ wal' = wal /\ st' = st /\ parser' = parser
      /\ x \in Txn /\ RowsUpTo(x, i) \in Nat
      /\ CurTxn' = x /\ CurRows' = RowsUpTo(x, i) /\ StartOf(snd.pos)' = StartOf(i)
  BY DecodesNow
<1>2. d \in Nat /\ s = 0 /\ CurRows' = d
  BY <1>1, DecodesKinds DEF PlainCommit
<1>3. st.walBuf = <<>> /\ ~st.open /\ ~parser.inStream
  <2>1. (s = 0 => st.walBuf = <<>> /\ ~st.open) /\ ~parser.inStream
    BY <1>0, DecodesBuffer
  <2>2. QED
    BY <2>1, <1>2
<1>4. CommitInv'
  BY DecodesCommitInv DEF PlainCommit
<1>5. Len(snd'.out) = d + 2 /\ Len(snd'.out) \in 1..(CurRows' + 2)
  BY <1>1, <1>2 DEF PlainCommit
<1>6. snd'.out[Len(snd'.out)].type = "commit"
  BY <1>1, <1>5 DEF PlainCommit
<1>7. ASSUME NEW k \in 1..(d + 1)
      PROVE  IF k = 1 THEN ms[k].type = "begin" /\ ms[k].final = StartOf(i)
             ELSE ms[k].type = "row" /\ ms[k].x = x /\ ms[k].n = k - 1
  <2>1. CASE k = 1
    BY <2>1 DEF PlainCommit
  <2>2. CASE k # 1
    <3>1. k - 1 \in 1..d /\ (k - 1) + 1 = k
      BY <2>2, <1>2
    <3>2. ms[(k - 1) + 1].type = "row" /\ ms[(k - 1) + 1].x = x /\ ms[(k - 1) + 1].n = k - 1
      BY <3>1 DEF PlainCommit
    <3>3. QED
      BY <3>1, <3>2, <2>2
  <2>3. QED
    BY <2>1, <2>2
<1>8. \A k \in 1..(Len(snd'.out) - 1) :
          IF k = 1 /\ Len(snd'.out) = CurRows' + 2
          THEN snd'.out[k].type = "begin" /\ snd'.out[k].final = StartOf(i)
          ELSE /\ snd'.out[k].type = "row" /\ snd'.out[k].x = CurTxn'
               /\ snd'.out[k].n = CurRows' + 1 + k - Len(snd'.out)
  <2>1. SUFFICES ASSUME NEW k \in 1..(Len(snd'.out) - 1)
                 PROVE  IF k = 1 THEN ms[k].type = "begin" /\ ms[k].final = StartOf(i)
                        ELSE /\ ms[k].type = "row" /\ ms[k].x = x
                             /\ ms[k].n = CurRows' + 1 + k - Len(snd'.out)
    BY <1>1, <1>2, <1>5
  <2>2. k \in 1..(d + 1) /\ CurRows' + 1 + k - Len(snd'.out) = k - 1
    <3>1. PICK l, c : l = Len(snd'.out) /\ c = CurRows'
      OBVIOUS
    <3>2. l = d + 2 /\ c = d /\ k \in 1..(l - 1) /\ d \in Nat
      BY <3>1, <1>2, <1>5
    <3>3. k \in 1..(d + 1) /\ k \in Int /\ d \in Int
      BY <3>2
    <3>4. d + 1 + k - (d + 2) = k - 1
      BY <3>3
    <3>5. QED
      BY <3>1, <3>2, <3>3, <3>4
  <2>3. QED
    BY <2>2, <1>7
<1>9. Len(snd'.out) = CurRows' + 2 /\ st'.walBuf = <<>> /\ ~st'.open /\ ~parser'.inStream
  BY <1>1, <1>2, <1>3, <1>5
<1>10. QED
  BY <1>1, <1>4, <1>5, <1>6, <1>8, <1>9 DEF Plain

LEMMA DecodeInv ==
    ASSUME Steady, SourceInv, Decode
    PROVE  SourceInv'
<1>1. PICK i, x, ms : Decodes(i, x, ms)
  <2>1. PICK i : i = snd.pos + 1
    OBVIOUS
  <2>2. PICK ms \in Emitted(i) :
          snd' = [snd EXCEPT !.pos = i, !.out = ms,
                             !.sent[wal[i][1]] = IF ms = <<>> THEN @ ELSE RowsUpTo(wal[i][1], i)]
    BY <2>1 DEF Decode
  <2>3. PICK x : x = wal[i][1]
    OBVIOUS
  <2>4. Decodes(i, x, ms)
    BY <2>1, <2>2, <2>3 DEF Decode, Decodes, dbVars, durVars
  <2>5. QED
    BY <2>4
<1>0. SourceTypeOK /\ WalInv /\ SessionInv
  BY DEF SourceInv
<1>2. pc = "recv" /\ pc' = "recv" /\ snd.out = <<>>
      /\ UNCHANGED <<wal, history, slot, need, wasEver, st, parser, ckpt, log, covered>>
  BY <1>1 DEF Decodes
<1>3. InSession /\ InSession' /\ SenderInv /\ PassedInv /\ PhaseInv
  BY <1>0, <1>2 DEF InSession, SessionInv
<1>4. Quiet
  BY <1>0, <1>2, <1>3, NothingOut
<1>5. WalInv' /\ HistoryInv' /\ LogInv' /\ SlotInv' /\ ResumeInv' /\ OrderInv'
  BY <1>2, <1>3, SessionStep
<1>6. SenderInv' /\ PassedInv'
  BY <1>1, <1>3, <1>4, DecodesSender, DecodesPassed
<1>7. PICK s, d : s = snd.sent[x] /\ d = RowsUpTo(x, i) - s
  OBVIOUS
<1>8. ms \in Msgs /\ EmittedKinds(i, x, s, d, ms)
  BY <1>1, <1>3, <1>7, DecodesKinds
<1>9. SourceTypeOK'
  <2>1. snd'.pos = i /\ snd'.start = snd.start /\ snd'.out = ms /\ snd'.sent \in [Txn -> Nat] /\ i \in Nat
    BY <1>0, <1>1, <1>3, DecodesFields
  <2>2. DOMAIN snd' = DOMAIN snd /\ snd' = [start |-> snd'.start, pos |-> snd'.pos, sent |-> snd'.sent, out |-> snd'.out]
    BY <1>0, <1>1 DEF Decodes, SourceTypeOK, Sender
  <2>3. snd.start \in Nat
    BY <1>0, Unfold
  <2>4. snd' \in Sender
    BY <2>1, <2>2, <2>3, <1>8 DEF Sender, Msgs
  <2>5. QED
    BY <2>4, <1>0, <1>2 DEF SourceTypeOK, TypeOK
<1>10. Quiet' \/ Plain' \/ Segmenting' \/ Aborting'
  <2>1. CASE Skipped(i, s, ms)
    BY <2>1, <1>1, <1>3, <1>4, DecodesSkipped DEF Skipped
  <2>2. CASE StreamedRow(i, x, s, d, ms) \/ StreamedCommit(i, x, s, d, ms)
    BY <2>2, <1>1, <1>3, <1>4, <1>7, DecodesSegment
  <2>3. CASE PlainCommit(i, x, s, d, ms)
    BY <2>3, <1>1, <1>3, <1>4, <1>7, DecodesPlain
  <2>4. CASE StreamedAbort(i, s, ms)
    <3>1. /\ snd'.pos = i /\ snd'.out = ms /\ i \in DOMAIN wal' /\ wal'[snd'.pos][2] = wal[i][2]
          /\ parser' = parser
          /\ \A y \in Txn : Active(y)' <=> (y = x /\ snd'.sent[x] > 0 /\ wal[i][2] = "row")
      BY <1>1, <1>3, DecodesNow
    <3>2. wal[i][2] = "abort" /\ Len(ms) = 1 /\ ms[1].type = "streamabort"
      BY <2>4 DEF StreamedAbort
    <3>3. Nobody'
      BY <3>1, <3>2 DEF Nobody
    <3>4. ~parser'.inStream
      BY <3>1, <1>4 DEF Quiet
    <3>5. Aborting'
      BY <3>1, <3>2, <3>3, <3>4 DEF Aborting
    <3>6. QED
      BY <3>5
  <2>5. QED
    BY <2>1, <2>2, <2>3, <2>4, <1>8 DEF EmittedKinds
<1>11. PhaseInv'
  BY <1>2, <1>10 DEF PhaseInv
<1>12. QED
  BY <1>5, <1>6, <1>9, <1>11 DEF SourceInv, SessionInv

-----------------------------------------------------------------------------
(* The connector handles a message.                                        *)

\* The sender has not moved.
SamePlace == UNCHANGED <<wal, history, slot>> /\ snd'.pos = snd.pos
             /\ snd'.start = snd.start /\ snd'.sent = snd.sent

LEMMA SamePlaceFacts ==
    ASSUME SamePlace
    PROVE  /\ CurTxn' = CurTxn /\ CurRows' = CurRows /\ Tails' = Tails
           /\ \A y : Active(y)' <=> Active(y)
           /\ Nobody' <=> Nobody
           /\ StartOf(snd.pos)' = StartOf(snd.pos)
           /\ IsCommit(snd.pos)' <=> IsCommit(snd.pos)
           /\ \A y, k : RowsUpTo(y, k)' = RowsUpTo(y, k)
           /\ (CommitInv /\ st'.saved = st.saved) => CommitInv'
<1>1. CurTxn' = CurTxn
  BY DEF CurTxn, SamePlace
<1>2. CurRows' = CurRows
  BY DEF CurRows, RowsUpTo, RecordsOf, SamePlace
<1>3. IsCommit(snd.pos)' <=> IsCommit(snd.pos)
  BY DEF IsCommit, SamePlace
<1>4. Tails' = Tails
  BY <1>3 DEF Tails
<1>5. \A y : Active(y)' <=> Active(y)
  BY DEF Active, SamePlace
<1>6. Nobody' <=> Nobody
  BY <1>5 DEF Nobody
<1>7. StartOf(snd.pos)' = StartOf(snd.pos)
  BY DEF StartOf, SamePlace
<1>8. \A y, k : RowsUpTo(y, k)' = RowsUpTo(y, k)
  BY DEF RowsUpTo, RecordsOf, SamePlace
<1>9. (CommitInv /\ st'.saved = st.saved) => CommitInv'
  BY <1>3, <1>6, <1>7 DEF CommitInv, SamePlace
<1>10. QED
  BY <1>1, <1>2, <1>3, <1>4, <1>5, <1>6, <1>7, <1>8, <1>9

State == [walBuf : Seq(Event), open : BOOLEAN, pos : Nat, saved : Nat, then : {"recv", "save"}]
Parser == [lsn : Nat, cs : Nat, inStream : BOOLEAN]

Receives(m) ==
    /\ pc = "recv" /\ snd.out # <<>> /\ m = Head(snd.out)
    /\ snd' = [snd EXCEPT !.out = Tail(@)]
    /\ parser' = Parsed(m) /\ Handle(m)
    /\ UNCHANGED <<wal, history, slot, need, wasEver, ckpt, log, covered>>

LEMMA ReceivesFields ==
    ASSUME SourceTypeOK, NEW m, Receives(m)
    PROVE  /\ SamePlace /\ m \in Message /\ m = snd.out[1]
           /\ Len(snd.out) \in Nat /\ Len(snd.out) >= 1
           /\ snd'.out \in Msgs /\ Len(snd'.out) = Len(snd.out) - 1
           /\ \A k \in 1..(Len(snd.out) - 1) : snd'.out[k] = snd.out[k + 1]
           /\ snd' \in Sender
<1>1. snd.out \in Seq(Message) /\ snd.out # <<>>
  BY Unfold DEF Receives
<1>2. snd'.out = Tail(snd.out) /\ snd'.pos = snd.pos /\ snd'.start = snd.start /\ snd'.sent = snd.sent
  BY DEF Receives, SourceTypeOK, Sender
<1>3. SamePlace
  BY <1>2 DEF SamePlace, Receives
<1>4. PICK o, t : o = snd.out /\ t = Tail(o)
  OBVIOUS
<1>5. o \in Seq(Message) /\ o # <<>>
  BY <1>1, <1>4
<1>6. /\ Len(o) \in Nat /\ Len(o) >= 1 /\ o[1] \in Message /\ Head(o) = o[1]
      /\ t \in Seq(Message) /\ Len(t) = Len(o) - 1
      /\ \A k \in 1..(Len(o) - 1) : t[k] = o[k + 1]
  BY <1>4, <1>5, HeadTailProperties, LenProperties, EmptySeq, ElementOfSeq
<1>7. m = o[1]
  BY <1>4, <1>6 DEF Receives
<1>8. snd' \in Sender
  <2>1. snd' = [start |-> snd.start, pos |-> snd.pos, sent |-> snd.sent, out |-> t]
    BY <1>4 DEF Receives, SourceTypeOK, Sender
  <2>2. QED
    BY <2>1, <1>6, Unfold DEF Sender
<1>9. QED
  BY <1>2, <1>3, <1>4, <1>6, <1>7, <1>8 DEF Msgs

\* The receive state and the parser after a message of each type.
LEMMA HandlesRow ==
    ASSUME SourceTypeOK, NEW m \in Message, Handle(m), parser' = Parsed(m), m.type \in Row
    PROVE  /\ st'.walBuf = Append(st.walBuf, NewEvent(m)) /\ st'.open = st.open
           /\ st'.pos = AtLeast(st.pos, m.lsn + MsgLen) /\ st'.saved = st.saved /\ st'.then = "recv"
           /\ pc' = IF Len(st.walBuf) + 1 >= Threshold /\ ~st.open THEN "flush" ELSE "recv"
           /\ parser'.cs = parser.cs + 1 /\ parser'.lsn = parser.lsn
           /\ parser'.inStream = parser.inStream
           /\ DOMAIN st' = DOMAIN st /\ DOMAIN parser' = DOMAIN parser
<1>1. st \in State /\ parser \in Parser
  BY DEF SourceTypeOK, TypeOK, State, Parser
<1> DEFINE s == [st EXCEPT !.pos = AtLeast(@, m.lsn + MsgLen), !.then = "recv"]
           buf == Append(st.walBuf, NewEvent(m))
<1>2. /\ st' = [s EXCEPT !.walBuf = buf]
      /\ pc' = IF Len(buf) >= Threshold /\ ~st.open THEN "flush" ELSE "recv"
  <2>1. m.type \notin {"streamstart", "streamabort", "commit", "streamcommit"}
    BY DEF Row
  <2>2. QED
    BY <2>1, Zenon DEF Handle
<1>3. Len(buf) = Len(st.walBuf) + 1
  <2>1. st.walBuf \in Seq(Event)
    BY <1>1 DEF State
  <2>2. NewEvent(m) \in Event
    BY <1>1 DEF NewEvent, Event, Message, Parser
  <2>3. QED
    BY <2>1, <2>2, AppendProperties
<1>4. parser' = [parser EXCEPT !.cs = @ + 1]
  BY DEF Parsed, Row
<1>5. /\ parser'.cs = parser.cs + 1 /\ parser'.lsn = parser.lsn
      /\ parser'.inStream = parser.inStream /\ DOMAIN parser' = DOMAIN parser
  BY <1>1, <1>4 DEF Parser
<1>6. /\ st'.walBuf = buf /\ st'.open = st.open
      /\ st'.pos = AtLeast(st.pos, m.lsn + MsgLen) /\ st'.saved = st.saved /\ st'.then = "recv"
      /\ DOMAIN st' = DOMAIN st
  BY <1>1, <1>2 DEF State
<1>7. QED
  BY <1>2, <1>3, <1>5, <1>6

LEMMA HandlesOther ==
    ASSUME SourceTypeOK, NEW m \in Message, Handle(m), parser' = Parsed(m),
           m.type \in {"begin", "streamstart", "streamstop", "streamabort"}
    PROVE  /\ st'.walBuf = IF m.type = "streamabort" THEN <<>> ELSE st.walBuf
           /\ m.type = "streamstart" => st'.open = TRUE
           /\ m.type = "streamabort" => st'.open = FALSE
           /\ m.type \in {"begin", "streamstop"} => st'.open = st.open
           /\ st'.pos = AtLeast(st.pos, m.lsn + MsgLen) /\ st'.saved = st.saved /\ st'.then = "recv"
           /\ pc' = IF m.type = "streamabort" THEN "save" ELSE "recv"
           /\ m.type = "begin" => /\ parser'.cs = 0 /\ parser'.lsn = m.final
                                  /\ parser'.inStream = parser.inStream
           /\ m.type = "streamstart" => /\ parser'.cs = (IF m.n = 1 THEN 0 ELSE parser.cs)
                                        /\ parser'.inStream = TRUE /\ parser'.lsn = parser.lsn
           /\ m.type \in {"streamstop", "streamabort"} =>
                /\ parser'.cs = parser.cs /\ parser'.inStream = FALSE /\ parser'.lsn = parser.lsn
           /\ DOMAIN st' = DOMAIN st /\ DOMAIN parser' = DOMAIN parser
<1>1. st \in State /\ parser \in Parser
  BY DEF SourceTypeOK, TypeOK, State, Parser
<1> DEFINE s == [st EXCEPT !.pos = AtLeast(@, m.lsn + MsgLen), !.then = "recv"]
<1>2. CASE m.type = "begin"
  <2>1. st' = s /\ pc' = "recv"
    BY <1>2 DEF Handle, Row
  <2>2. parser' = [parser EXCEPT !.lsn = m.final, !.cs = 0]
    BY <1>2 DEF Parsed, Row
  <2>3. QED
    BY <2>1, <2>2, <1>1, <1>2 DEF State, Parser
<1>3. CASE m.type = "streamstart"
  <2>1. st' = [s EXCEPT !.open = TRUE] /\ pc' = "recv"
    BY <1>3 DEF Handle, Row
  <2>2. parser' = [parser EXCEPT !.inStream = TRUE, !.cs = IF m.n = 1 THEN 0 ELSE @]
    BY <1>3 DEF Parsed, Row
  <2>3. QED
    BY <2>1, <2>2, <1>1, <1>3 DEF State, Parser
<1>4. CASE m.type = "streamstop"
  <2>1. st' = s /\ pc' = "recv"
    BY <1>4 DEF Handle, Row
  <2>2. parser' = [parser EXCEPT !.inStream = FALSE]
    BY <1>4 DEF Parsed, Row
  <2>3. QED
    BY <2>1, <2>2, <1>1, <1>4 DEF State, Parser
<1>5. CASE m.type = "streamabort"
  <2>1. st' = [s EXCEPT !.walBuf = <<>>, !.open = FALSE] /\ pc' = "save"
    BY <1>5 DEF Handle, Row
  <2>2. parser' = [parser EXCEPT !.inStream = FALSE]
    BY <1>5 DEF Parsed, Row
  <2>3. QED
    BY <2>1, <2>2, <1>1, <1>5 DEF State, Parser
<1>6. QED
  BY <1>2, <1>3, <1>4, <1>5

LEMMA HandlesCommit ==
    ASSUME SourceTypeOK, NEW m \in Message, Handle(m), parser' = Parsed(m),
           m.type \in {"commit", "streamcommit"}
    PROVE  /\ st'.walBuf = IF m.type = "commit" THEN st.walBuf ELSE Stamped(st.walBuf, m.final)
           /\ st'.open = FALSE
           /\ st'.pos = AtLeast(st.pos, m.lsn + MsgLen) /\ st'.saved = st.saved /\ st'.then = "save"
           /\ pc' = IF st.walBuf = <<>> THEN "save" ELSE "flush"
           /\ m.type = "commit" => parser' = parser
           /\ m.type = "streamcommit" =>
                parser'.cs = parser.cs /\ parser'.inStream = FALSE /\ parser'.lsn = m.final
           /\ DOMAIN st' = DOMAIN st /\ DOMAIN parser' = DOMAIN parser
<1>1. st \in State /\ parser \in Parser
  BY DEF SourceTypeOK, TypeOK, State, Parser
<1> DEFINE s == [st EXCEPT !.pos = AtLeast(@, m.lsn + MsgLen), !.then = "recv"]
<1>2. /\ st' = [s EXCEPT !.walBuf = IF m.type = "commit" THEN @ ELSE Stamped(@, m.final),
                         !.open = FALSE, !.then = "save"]
      /\ pc' = IF st.walBuf = <<>> THEN "save" ELSE "flush"
  BY DEF Handle, Row
<1>3. m.type = "commit" => parser' = parser
  BY DEF Parsed, Row
<1>4. m.type = "streamcommit" => parser' = [parser EXCEPT !.lsn = m.final, !.inStream = FALSE]
  BY DEF Parsed, Row
<1>5. QED
  BY <1>1, <1>2, <1>3, <1>4 DEF State, Parser

\* Whatever the message is, its end is the new position.
LEMMA HandlesPos ==
    ASSUME SourceTypeOK, NEW m \in Message, Handle(m), parser' = Parsed(m)
    PROVE  /\ st'.pos = AtLeast(st.pos, m.lsn + MsgLen) /\ st'.saved = st.saved
           /\ pc' \in {"recv", "flush", "save"}
<1>1. CASE m.type \in Row
  BY <1>1, HandlesRow
<1>2. CASE m.type \in {"begin", "streamstart", "streamstop", "streamabort"}
  BY <1>2, HandlesOther
<1>3. CASE m.type \in {"commit", "streamcommit"}
  BY <1>3, HandlesCommit
<1>4. m.type \in MsgType
  BY DEF Message
<1>5. QED
  BY <1>1, <1>2, <1>3, <1>4 DEF MsgType, Row

LEMMA StampedFacts ==
    ASSUME NEW buf \in Events, NEW l \in Nat, NEW g, g = Stamped(buf, l)
    PROVE  /\ g \in Events /\ Len(g) = Len(buf) /\ Len(buf) \in Nat
           /\ \A k \in 1..Len(buf) : /\ g[k].x = buf[k].x /\ g[k].n = buf[k].n
                                     /\ g[k].cs = buf[k].cs /\ g[k].lsn = l
<1>1. Len(buf) \in Nat /\ DOMAIN buf = 1..Len(buf) /\ \A k \in 1..Len(buf) : buf[k] \in Event
  BY LenProperties, ElementOfSeq DEF Events
<1> DEFINE E(k) == [buf[k] EXCEPT !.lsn = l]
<1>2. ASSUME NEW k \in 1..Len(buf)
      PROVE  /\ E(k) \in Event /\ E(k).x = buf[k].x /\ E(k).n = buf[k].n
             /\ E(k).cs = buf[k].cs /\ E(k).lsn = l
  BY <1>1 DEF Event
<1>3. g = [k \in 1..Len(buf) |-> E(k)]
  BY <1>1 DEF Stamped
<1> HIDE DEF E
<1>4. g \in Events /\ Len(g) = Len(buf) /\ \A k \in 1..Len(buf) : g[k] = E(k)
  BY <1>1, <1>2, <1>3 DEF Events
<1>5. QED
  BY <1>1, <1>2, <1>4

LEMMA HandlesTypes ==
    ASSUME SourceTypeOK, NEW m \in Message, Handle(m), parser' = Parsed(m)
    PROVE  st' \in State /\ parser' \in Parser
<1>1. st \in State /\ parser \in Parser
  BY DEF SourceTypeOK, TypeOK, State, Parser
<1>2. /\ m.lsn \in Nat /\ m.n \in Nat /\ m.final \in Nat /\ m.x \in Txn /\ m.type \in MsgType
  BY DEF Message
<1>3. PICK p : p = AtLeast(st.pos, m.lsn + MsgLen)
  OBVIOUS
<1>4. p \in Nat
  BY <1>1, <1>2, <1>3, SourceAssumption DEF AtLeast, State
<1>5. CASE m.type \in Row
  <2>1. PICK e, g : e = NewEvent(m) /\ g = Append(st.walBuf, e)
    OBVIOUS
  <2>2. g \in Seq(Event)
    <3>1. e \in Event
      BY <2>1, <1>1, <1>2 DEF NewEvent, Event, Parser
    <3>2. QED
      BY <3>1, <2>1, <1>1, AppendProperties DEF State
  <2>3. st' = [st EXCEPT !.walBuf = g, !.pos = p, !.then = "recv"]
    <3>1. m.type \notin {"streamstart", "streamabort", "commit", "streamcommit"}
      BY <1>5 DEF Row
    <3>2. st' = [[st EXCEPT !.pos = p, !.then = "recv"] EXCEPT !.walBuf = g]
      BY <3>1, <2>1, <1>3, <1>5, Zenon DEF Handle
    <3>3. QED
      BY <3>2, <1>1 DEF State
  <2>4. parser' = [parser EXCEPT !.cs = @ + 1]
    BY <1>5 DEF Parsed, Row
  <2>5. st' \in State
    BY <2>2, <2>3, <1>1, <1>4 DEF State
  <2>6. parser' \in Parser
    <3>1. parser.lsn \in Nat /\ parser.cs \in Nat /\ parser.inStream \in BOOLEAN
      BY Unfold
    <3>2. parser' = [lsn |-> parser'.lsn, cs |-> parser'.cs, inStream |-> parser'.inStream]
      BY <2>4, <1>1 DEF Parser
    <3>3. parser'.lsn \in Nat /\ parser'.inStream \in BOOLEAN
      BY <3>1, <2>4, <1>1, <1>2 DEF Parser
    <3>4. parser'.cs \in Nat
      BY <3>1, <2>4, <1>1, <1>2 DEF Parser
    <3>5. QED
      BY <3>2, <3>3, <3>4 DEF Parser
  <2>7. QED
    BY <2>5, <2>6
<1>6. CASE m.type = "begin"
  <2>1. st' = [st EXCEPT !.pos = p, !.then = "recv"]
    BY <1>3, <1>6 DEF Handle, Row
  <2>2. parser' = [parser EXCEPT !.lsn = m.final, !.cs = 0]
    BY <1>6 DEF Parsed, Row
  <2>3. st' \in State
    BY <2>1, <1>1, <1>4 DEF State
  <2>4. parser' \in Parser
    <3>1. parser.lsn \in Nat /\ parser.cs \in Nat /\ parser.inStream \in BOOLEAN
      BY Unfold
    <3>2. parser' = [lsn |-> parser'.lsn, cs |-> parser'.cs, inStream |-> parser'.inStream]
      BY <2>2, <1>1 DEF Parser
    <3>3. parser'.lsn \in Nat /\ parser'.inStream \in BOOLEAN
      BY <3>1, <2>2, <1>1, <1>2 DEF Parser
    <3>4. parser'.cs \in Nat
      BY <3>1, <2>2, <1>1, <1>2 DEF Parser
    <3>5. QED
      BY <3>2, <3>3, <3>4 DEF Parser
  <2>5. QED
    BY <2>3, <2>4
<1>7. CASE m.type = "streamstart"
  <2>1. st' = [[st EXCEPT !.pos = p, !.then = "recv"] EXCEPT !.open = TRUE]
    BY <1>3, <1>7 DEF Handle, Row
  <2>2. parser' = [parser EXCEPT !.inStream = TRUE, !.cs = IF m.n = 1 THEN 0 ELSE @]
    BY <1>7 DEF Parsed, Row
  <2>3. st' \in State
    BY <2>1, <1>1, <1>4 DEF State
  <2>4. parser' \in Parser
    <3>1. parser.lsn \in Nat /\ parser.cs \in Nat /\ parser.inStream \in BOOLEAN
      BY Unfold
    <3>2. parser' = [lsn |-> parser'.lsn, cs |-> parser'.cs, inStream |-> parser'.inStream]
      BY <2>2, <1>1 DEF Parser
    <3>3. parser'.lsn \in Nat /\ parser'.inStream \in BOOLEAN
      BY <3>1, <2>2, <1>1, <1>2 DEF Parser
    <3>4. parser'.cs \in Nat
      BY <3>1, <2>2, <1>1, <1>2 DEF Parser
    <3>5. QED
      BY <3>2, <3>3, <3>4 DEF Parser
  <2>5. QED
    BY <2>3, <2>4
<1>8. CASE m.type = "streamstop"
  <2>1. st' = [st EXCEPT !.pos = p, !.then = "recv"]
    BY <1>3, <1>8 DEF Handle, Row
  <2>2. parser' = [parser EXCEPT !.inStream = FALSE]
    BY <1>8 DEF Parsed, Row
  <2>3. QED
    BY <2>1, <2>2, <1>1, <1>2, <1>4 DEF State, Parser
<1>9. CASE m.type = "streamabort"
  <2>1. st' = [[st EXCEPT !.pos = p, !.then = "recv"] EXCEPT !.walBuf = <<>>, !.open = FALSE]
    BY <1>3, <1>9 DEF Handle, Row
  <2>2. parser' = [parser EXCEPT !.inStream = FALSE]
    BY <1>9 DEF Parsed, Row
  <2>3. <<>> \in Seq(Event)
    BY EmptySeq
  <2>4. QED
    BY <2>1, <2>2, <2>3, <1>1, <1>2, <1>4 DEF State, Parser
<1>10. CASE m.type \in {"commit", "streamcommit"}
  <2>1. PICK g : g = IF m.type = "commit" THEN st.walBuf ELSE Stamped(st.walBuf, m.final)
    OBVIOUS
  <2>2. g \in Seq(Event)
    <3>1. st.walBuf \in Events /\ st.walBuf \in Seq(Event)
      BY <1>1 DEF State, Events
    <3>2. PICK h : h = Stamped(st.walBuf, m.final)
      OBVIOUS
    <3>3. h \in Events
      BY <3>1, <3>2, <1>2, StampedFacts
    <3>4. QED
      BY <2>1, <3>1, <3>2, <3>3 DEF Events
  <2>3. st' = [[st EXCEPT !.pos = p, !.then = "recv"] EXCEPT !.walBuf = g, !.open = FALSE, !.then = "save"]
    BY <2>1, <1>1, <1>3, <1>10 DEF Handle, Row, State
  <2>4. parser' = parser \/ parser' = [parser EXCEPT !.lsn = m.final, !.inStream = FALSE]
    BY <1>10 DEF Parsed, Row
  <2>5. QED
    BY <2>2, <2>3, <2>4, <1>1, <1>2, <1>4 DEF State, Parser
<1>11. QED
  BY <1>2, <1>5, <1>6, <1>7, <1>8, <1>9, <1>10 DEF MsgType, Row

\* The sender and what it has passed are as before.
LEMMA ReceivesSender ==
    ASSUME SourceInv, NEW m, Receives(m), SenderInv, PassedInv
    PROVE  SenderInv' /\ PassedInv'
<1>0. SourceTypeOK
  BY DEF SourceInv
<1>1. /\ SamePlace /\ m \in Message /\ m = snd.out[1]
      /\ Len(snd.out) \in Nat /\ Len(snd.out) >= 1
      /\ snd'.out \in Msgs /\ Len(snd'.out) = Len(snd.out) - 1
      /\ \A k \in 1..(Len(snd.out) - 1) : snd'.out[k] = snd.out[k + 1]
  BY <1>0, ReceivesFields
<1>2. /\ \A y : Active(y)' <=> Active(y)
      /\ \A y, k : RowsUpTo(y, k)' = RowsUpTo(y, k)
  BY <1>1, SamePlaceFacts
<1>3. /\ wal' = wal /\ snd'.pos = snd.pos /\ snd'.start = snd.start /\ snd'.sent = snd.sent
      /\ slot' = slot
  BY <1>1 DEF SamePlace
<1>4. DOMAIN snd.out = 1..Len(snd.out) /\ DOMAIN snd'.out = 1..Len(snd'.out)
  BY <1>0, <1>1, MsgTypes, Unfold DEF Msgs
<1>5. \A k \in DOMAIN snd'.out : snd'.out[k].lsn + MsgLen < StartOf(snd.pos + 1)
  <2>1. SUFFICES ASSUME NEW k \in DOMAIN snd'.out
                 PROVE  snd'.out[k].lsn + MsgLen < StartOf(snd.pos + 1)
    OBVIOUS
  <2>2. k \in 1..(Len(snd.out) - 1) /\ k + 1 \in DOMAIN snd.out
    BY <1>1, <1>4
  <2>3. snd'.out[k] = snd.out[k + 1]
    BY <2>2, <1>1
  <2>4. QED
    BY <2>2, <2>3 DEF SenderInv
<1>6. StartOf(snd.pos + 1)' = StartOf(snd.pos + 1) /\ StartOf(Len(wal) + 1)' = StartOf(Len(wal) + 1)
      /\ \A j : StartOf(j)' = StartOf(j)
  BY <1>3 DEF StartOf
<1>7. SenderInv'
  <2>1. /\ snd'.pos <= Len(wal') /\ snd'.start <= StartOf(Len(wal) + 1)'
        /\ \A y \in Txn : snd'.sent[y] <= RowsUpTo(y, snd.pos)'
    <3>1. \A y : RowsUpTo(y, snd.pos)' = RowsUpTo(y, snd.pos)
      BY <1>3 DEF RowsUpTo, RecordsOf
    <3>2. QED
      BY <3>1, <1>3, <1>6 DEF SenderInv
  <2>2. \A y \in Txn : Active(y)' =>
          /\ snd'.start <= StartOf(snd.pos + 1)'
          /\ \A j \in DOMAIN wal' : j > snd'.pos =>
                \/ wal'[j][1] = y
                \/ \E e \in DOMAIN wal' : /\ snd'.pos < e /\ e < j
                                          /\ wal'[e][1] = y /\ wal'[e][2] # "row"
    BY <1>2, <1>3, <1>6 DEF SenderInv
  <2>3. QED
    BY <2>1, <2>2, <1>5, <1>6 DEF SenderInv
<1>8. Handle(m) /\ parser' = Parsed(m) /\ pc = "recv"
      /\ UNCHANGED <<wal, history, slot, need, wasEver, ckpt, log, covered>>
  BY DEF Receives
<1>9. st'.pos = AtLeast(st.pos, m.lsn + MsgLen) /\ st'.saved = st.saved /\ pc' \in {"recv", "flush", "save"}
  BY <1>0, <1>1, <1>8, HandlesPos
<1>10. \A j \in DOMAIN wal : Dealt(j) => Dealt(j)'
  BY <1>8, <1>9, SessionStep DEF InSession
<1>11. st'.pos < StartOf(snd.pos + 1)
  <2>1. snd.pos + 1 \in Nat \ {0} /\ st.pos \in Nat
    BY <1>0, Unfold
  <2>2. StartOf(snd.pos + 1) \in Nat
    BY <2>1, StartType
  <2>3. m.lsn \in Nat
    BY <1>1 DEF Message
  <2>4. 1 \in DOMAIN snd.out
    BY <1>1, <1>4
  <2>5. m.lsn + MsgLen < StartOf(snd.pos + 1)
    BY <2>4, <1>1 DEF SenderInv
  <2>6. st.pos = 0 \/ st.pos < StartOf(snd.pos + 1)
    BY DEF PassedInv
  <2>7. QED
    BY <2>1, <2>2, <2>3, <2>5, <2>6, <1>9, SourceAssumption DEF AtLeast
<1>12. \A j \in DOMAIN wal' :
          (IsCommit(j)' /\ (StartOf(j)' < snd'.start \/ j < snd'.pos)) => Dealt(j)'
  BY <1>3, <1>6, <1>10 DEF PassedInv, IsCommit
<1>13. PassedInv'
  BY <1>3, <1>6, <1>8, <1>9, <1>11, <1>12 DEF PassedInv
<1>14. QED
  BY <1>7, <1>13

\* A commit whose rows are all in the log is dealt with.
LEMMA CommitDealt ==
    ASSUME SourceTypeOK, WalInv, HistoryInv, UNCHANGED <<wal, history>>,
           NEW j \in DOMAIN wal, IsCommit(j),
           \A n \in 1..RowsUpTo(wal[j][1], j) : LogHas(wal[j][1], n)'
    PROVE  Dealt(j)'
<1>1. RowsUpTo(wal[j][1], j) = RowsOf[wal[j][1]]
  BY DEF WalInv
<1>2. ASSUME NEW i \in DOMAIN history, history[i][1] = wal[j][1]
      PROVE  LogHas(history[i][1], history[i][2])'
  <2>1. history[i][2] \in 1..RowsOf[wal[j][1]]
    BY <1>2 DEF HistoryInv
  <2>2. PICK x, n : x = history[i][1] /\ n = history[i][2]
    OBVIOUS
  <2>3. LogHas(x, n)'
    BY <2>1, <2>2, <1>1, <1>2
  <2>4. QED
    BY <2>2, <2>3 DEF LogHas
<1>3. QED
  BY <1>2 DEF Dealt

LEMMA NewEventIs ==
    ASSUME SourceTypeOK, NEW m \in Message
    PROVE  /\ NewEvent(m) \in Event /\ NewEvent(m).x = m.x /\ NewEvent(m).n = m.n
           /\ NewEvent(m).lsn = parser.lsn /\ NewEvent(m).cs = parser.cs
BY Unfold DEF NewEvent, Event, Message

LEMMA BufferGrows ==
    ASSUME st.walBuf \in Events, NEW e \in Event, st'.walBuf = Append(st.walBuf, e)
    PROVE  /\ Len(st.walBuf) \in Nat /\ Len(st'.walBuf) = Len(st.walBuf) + 1
           /\ DOMAIN st.walBuf = 1..Len(st.walBuf) /\ DOMAIN st'.walBuf = 1..(Len(st.walBuf) + 1)
           /\ \A k \in 1..Len(st.walBuf) : st'.walBuf[k] = st.walBuf[k]
           /\ st'.walBuf[Len(st.walBuf) + 1] = e
           /\ st'.walBuf # <<>>
<1>1. PICK u, v : u = st.walBuf /\ v = st'.walBuf
  OBVIOUS
<1>2. u \in Seq(Event) /\ v = Append(u, e)
  BY <1>1 DEF Events
<1>3. /\ Len(u) \in Nat /\ Len(v) = Len(u) + 1 /\ v \in Seq(Event)
      /\ \A k \in 1..Len(u) : v[k] = u[k]
      /\ v[Len(u) + 1] = e
  BY <1>2, AppendProperties, LenProperties
<1>4. DOMAIN u = 1..Len(u) /\ DOMAIN v = 1..Len(v)
  BY <1>2, <1>3, LenProperties
<1>5. v # <<>>
  BY <1>3, EmptySeq
<1>6. QED
  BY <1>1, <1>3, <1>4, <1>5

LEMMA BufferedGrows ==
    ASSUME st.walBuf \in Events, NEW e \in Event, st'.walBuf = Append(st.walBuf, e),
           NEW x, NEW lo \in Nat, NEW hi \in Nat, lo <= hi, Buffered(x, lo, hi),
           e.x = x, e.n = hi + 1, e.cs = hi
    PROVE  Buffered(x, lo, hi + 1)'
<1>1. /\ Len(st.walBuf) \in Nat /\ Len(st'.walBuf) = Len(st.walBuf) + 1
      /\ \A k \in 1..Len(st.walBuf) : st'.walBuf[k] = st.walBuf[k]
      /\ st'.walBuf[Len(st.walBuf) + 1] = e
  BY BufferGrows
<1>2. /\ Len(st.walBuf) = hi - lo
      /\ \A k \in 1..(hi - lo) :
          st.walBuf[k].x = x /\ st.walBuf[k].n = lo + k /\ st.walBuf[k].cs = lo + k - 1
  BY DEF Buffered
<1>3. Len(st'.walBuf) = (hi + 1) - lo
  BY <1>1, <1>2
<1>4. ASSUME NEW k \in 1..((hi + 1) - lo)
      PROVE  st'.walBuf[k].x = x /\ st'.walBuf[k].n = lo + k /\ st'.walBuf[k].cs = lo + k - 1
  <2>1. CASE k = (hi - lo) + 1
    <3>1. st'.walBuf[k] = e /\ lo + k = hi + 1 /\ lo + k - 1 = hi
      BY <2>1, <1>1, <1>2
    <3>2. QED
      BY <3>1
  <2>2. CASE k # (hi - lo) + 1
    <3>1. k \in 1..(hi - lo)
      BY <2>2
    <3>2. st'.walBuf[k] = st.walBuf[k]
      BY <3>1, <1>1, <1>2
    <3>3. QED
      BY <3>1, <3>2, <1>2
  <2>3. QED
    BY <2>1, <2>2
<1>5. QED
  BY <1>3, <1>4 DEF Buffered

LEMMA CurTypes ==
    ASSUME SourceTypeOK, snd.pos \in DOMAIN wal
    PROVE  CurTxn \in Txn /\ CurRows \in Nat
<1>1. wal \in Wal /\ snd.pos \in Nat
  BY Unfold
<1>2. CurTxn \in Txn
  BY <1>1, WalTypes DEF CurTxn
<1>3. CurRows \in Nat
  BY <1>1, RowsFinite DEF CurRows
<1>4. QED
  BY <1>2, <1>3

LEMMA PlainBegin ==
    ASSUME SourceInv, NEW m, Receives(m), Plain, Len(snd.out) = CurRows + 2
    PROVE  pc' = "recv" /\ Plain'
<1>0. SourceTypeOK
  BY DEF SourceInv
<1>1. /\ SamePlace /\ m \in Message /\ m = snd.out[1]
      /\ Len(snd'.out) = Len(snd.out) - 1
      /\ \A k \in 1..(Len(snd.out) - 1) : snd'.out[k] = snd.out[k + 1]
  BY <1>0, ReceivesFields
<1>2. CurTxn \in Txn /\ CurRows \in Nat
  BY <1>0, CurTypes DEF Plain, CommitInv
<1>3. PICK x, r : x = CurTxn /\ r = CurRows
  OBVIOUS
<1>4. r \in Nat /\ Len(snd.out) = r + 2 /\ Len(snd'.out) = r + 1
  BY <1>1, <1>2, <1>3
<1>5. m.type = "begin" /\ m.final = StartOf(snd.pos)
  <2>1. 1 \in 1..(Len(snd.out) - 1)
    BY <1>4
  <2>2. QED
    BY <2>1, <1>1 DEF Plain
<1>6. Handle(m) /\ parser' = Parsed(m) /\ log' = log
  BY DEF Receives
<1>7. /\ st'.walBuf = st.walBuf /\ st'.open = st.open /\ st'.saved = st.saved /\ pc' = "recv"
      /\ parser'.cs = 0 /\ parser'.lsn = m.final /\ parser'.inStream = parser.inStream
  BY <1>0, <1>1, <1>5, <1>6, HandlesOther
<1>8. CurTxn' = x /\ CurRows' = r /\ StartOf(snd.pos)' = StartOf(snd.pos) /\ CommitInv'
  BY <1>1, <1>3, <1>7, SamePlaceFacts DEF Plain
<1>9. ~st'.open
  BY <1>7 DEF Plain
<1>10. ~parser'.inStream
  BY <1>7 DEF Plain
<1>11. snd'.out[Len(snd'.out)].type = "commit"
  <2>1. snd'.out[r + 1] = snd.out[(r + 1) + 1] /\ (r + 1) + 1 = r + 2
    <3>1. r + 1 \in 1..(Len(snd.out) - 1)
      BY <1>4
    <3>2. (r + 1) + 1 = r + 2
      BY <1>4
    <3>3. snd'.out[r + 1] = snd.out[(r + 1) + 1]
      BY <1>1, <3>1
    <3>4. QED
      BY <3>2, <3>3
  <2>2. QED
    BY <2>1, <1>4 DEF Plain
<1>12. ASSUME NEW k \in 1..r
       PROVE  snd'.out[k].type = "row" /\ snd'.out[k].x = x /\ snd'.out[k].n = k
  <2>1. k + 1 \in 1..(Len(snd.out) - 1) /\ k \in 1..(Len(snd.out) - 1) /\ k + 1 # 1
    BY <1>4
  <2>2. snd'.out[k] = snd.out[k + 1]
    BY <2>1, <1>1
  <2>3. /\ snd.out[k + 1].type = "row" /\ snd.out[k + 1].x = CurTxn
        /\ snd.out[k + 1].n = CurRows + 1 + (k + 1) - Len(snd.out)
    BY <2>1 DEF Plain
  <2>4. CurRows + 1 + (k + 1) - Len(snd.out) = k
    BY <1>3, <1>4
  <2>5. QED
    BY <2>2, <2>3, <2>4, <1>3
<1>13. st'.walBuf = <<>>
  BY <1>7 DEF Plain
<1>14. Receiving(x, 0)'
  <2>1. Len(st'.walBuf) = 0 /\ DOMAIN st'.walBuf = {}
    BY <1>13, EmptySeq
  <2>2. QED
    BY <2>1 DEF Receiving, Buffered
<1>15. \A k \in 1..(Len(snd'.out) - 1) :
          /\ ~(k = 1 /\ Len(snd'.out) = CurRows' + 2)
          /\ snd'.out[k].type = "row" /\ snd'.out[k].x = CurTxn'
          /\ snd'.out[k].n = CurRows' + 1 + k - Len(snd'.out)
  <2>1. SUFFICES ASSUME NEW k \in 1..((r + 1) - 1)
                 PROVE  /\ r + 1 # r + 2
                        /\ snd'.out[k].type = "row" /\ snd'.out[k].x = x
                        /\ snd'.out[k].n = r + 1 + k - (r + 1)
    BY <1>4, <1>8
  <2>2. k \in 1..r /\ r + 1 + k - (r + 1) = k /\ r + 1 # r + 2
    BY <1>4
  <2>3. QED
    BY <2>2, <1>12
<1>16. /\ Len(snd'.out) \in 1..(CurRows' + 2) /\ Len(snd'.out) # CurRows' + 2
       /\ CurRows' + 1 - Len(snd'.out) = 0
  BY <1>4, <1>8
<1>17. parser'.lsn = StartOf(snd.pos)' /\ parser'.cs = CurRows' + 1 - Len(snd'.out)
  BY <1>5, <1>7, <1>8, <1>16
<1>18. Receiving(CurTxn, CurRows + 1 - Len(snd.out))'
  BY <1>14, <1>16, <1>8
<1>19. Plain'
  BY <1>8, <1>9, <1>10, <1>11, <1>15, <1>16, <1>17, <1>18 DEF Plain
<1>20. QED
  BY <1>7, <1>19

LEMMA PlainRow ==
    ASSUME SourceInv, NEW m, Receives(m), Plain, Len(snd.out) # CurRows + 2, Len(snd.out) # 1
    PROVE  Plain' /\ (pc' = "recv" \/ (pc' = "flush" /\ st'.walBuf # <<>> /\ st'.then = "recv"))
<1>0. SourceTypeOK
  BY DEF SourceInv
<1>1. /\ SamePlace /\ m \in Message /\ m = snd.out[1] /\ Len(snd.out) \in Nat
      /\ Len(snd'.out) = Len(snd.out) - 1
      /\ \A k \in 1..(Len(snd.out) - 1) : snd'.out[k] = snd.out[k + 1]
  BY <1>0, ReceivesFields
<1>2. CurTxn \in Txn /\ CurRows \in Nat
  BY <1>0, CurTypes DEF Plain, CommitInv
<1>3. PICK x, r, o, h, b : /\ x = CurTxn /\ r = CurRows /\ o = Len(snd.out)
                           /\ h = r + 1 - o /\ b = Len(st.walBuf)
  OBVIOUS
<1>4. r \in Nat /\ o \in 2..(r + 1) /\ h \in Nat /\ Len(snd'.out) = o - 1
  <2>1. o \in 1..(r + 2) /\ o # 1 /\ o # r + 2
    BY <1>3 DEF Plain
  <2>2. r \in Nat /\ h = r + 1 - o
    BY <1>2, <1>3
  <2>3. o \in 2..(r + 1) /\ h \in Nat
    BY <2>1, <2>2
  <2>4. Len(snd'.out) = o - 1
    BY <1>1, <1>3
  <2>5. QED
    BY <2>2, <2>3, <2>4
<1>5. m.type = "row" /\ m.x = x /\ m.n = h + 1
  <2>1. 1 \in 1..(Len(snd.out) - 1)
    BY <1>3, <1>4
  <2>2. m.type = "row" /\ m.x = CurTxn /\ m.n = CurRows + 1 + 1 - Len(snd.out)
    BY <2>1, <1>1 DEF Plain
  <2>3. CurRows + 1 + 1 - Len(snd.out) = h + 1
    BY <1>3, <1>4
  <2>4. QED
    BY <2>2, <2>3, <1>3
<1>6. Handle(m) /\ parser' = Parsed(m) /\ log' = log /\ m.type \in Row
  BY <1>5 DEF Receives, Row
<1>7. /\ st'.walBuf = Append(st.walBuf, NewEvent(m)) /\ st'.open = st.open
      /\ st'.saved = st.saved /\ st'.then = "recv" /\ pc' \in {"flush", "recv"}
      /\ parser'.cs = parser.cs + 1 /\ parser'.lsn = parser.lsn
      /\ parser'.inStream = parser.inStream
  BY <1>0, <1>1, <1>6, HandlesRow
<1>8. CurTxn' = x /\ CurRows' = r /\ StartOf(snd.pos)' = StartOf(snd.pos) /\ CommitInv'
  BY <1>1, <1>3, <1>7, SamePlaceFacts DEF Plain
<1>9. ~st'.open
  BY <1>7 DEF Plain
<1>10. ~parser'.inStream
  BY <1>7 DEF Plain
<1>11. parser.lsn = StartOf(snd.pos) /\ parser.cs = h /\ Receiving(x, h)
  BY <1>3 DEF Plain
<1>12. PICK e : e = NewEvent(m)
  OBVIOUS
<1>13. e \in Event /\ e.x = x /\ e.n = h + 1 /\ e.cs = h /\ e.lsn = StartOf(snd.pos)
  BY <1>0, <1>1, <1>5, <1>11, <1>12, NewEventIs
<1>14. st.walBuf \in Events /\ st'.walBuf = Append(st.walBuf, e)
  BY <1>0, <1>7, <1>12, Unfold
<1>15. /\ b \in Nat /\ Len(st'.walBuf) = b + 1 /\ st'.walBuf # <<>>
       /\ DOMAIN st.walBuf = 1..b /\ DOMAIN st'.walBuf = 1..(b + 1)
       /\ \A k \in 1..b : st'.walBuf[k] = st.walBuf[k]
       /\ st'.walBuf[b + 1] = e
  BY <1>3, <1>13, <1>14, BufferGrows
<1>16. b <= h /\ Buffered(x, h - b, h) /\ h - b \in Nat
  <2>1. Len(st.walBuf) <= h /\ Buffered(x, h - Len(st.walBuf), h)
    BY <1>11 DEF Receiving
  <2>2. b <= h /\ Buffered(x, h - b, h)
    BY <2>1, <1>3
  <2>3. h - b \in Nat
    BY <2>2, <1>4, <1>15
  <2>4. QED
    BY <2>2, <2>3
<1>17. Buffered(x, h - b, h + 1)'
  <2>1. PICK lo \in Nat : lo = h - b
    BY <1>16
  <2>2. h \in Nat /\ lo <= h /\ Buffered(x, lo, h)
    <3>1. h \in Nat /\ b \in Nat
      BY <1>4, <1>15
    <3>2. lo <= h
      BY <3>1, <2>1
    <3>3. QED
      BY <3>1, <3>2, <2>1, <1>16
  <2>3. Buffered(x, lo, h + 1)'
    BY <2>2, <1>13, <1>14, BufferedGrows
  <2>4. QED
    BY <2>1, <2>3
<1>18. \A n \in 1..(h - b) : LogHas(x, n)'
  <2>1. \A n \in 1..(h - b) : LogHas(x, n)
    BY <1>3, <1>11 DEF Receiving
  <2>2. QED
    BY <2>1, <1>6, StillHas
<1>19. \A k \in DOMAIN st'.walBuf : st'.walBuf[k].lsn = StartOf(snd.pos)'
  <2>1. ASSUME NEW k \in 1..b PROVE st'.walBuf[k].lsn = StartOf(snd.pos)
    BY <1>11, <1>15 DEF Receiving
  <2>2. \A k \in 1..(b + 1) : k \in 1..b \/ k = b + 1
    BY <1>15
  <2>3. QED
    BY <2>1, <2>2, <1>8, <1>13, <1>15
<1>20. Receiving(x, h + 1)'
  <2>1. h + 1 \in Nat /\ Len(st'.walBuf) <= h + 1 /\ (h + 1) - Len(st'.walBuf) = h - b
    BY <1>4, <1>15, <1>16
  <2>2. QED
    BY <2>1, <1>17, <1>18, <1>19 DEF Receiving
<1>21. snd'.out[Len(snd'.out)].type = "commit"
  <2>1. snd'.out[o - 1] = snd.out[(o - 1) + 1] /\ (o - 1) + 1 = o
    BY <1>1, <1>3, <1>4
  <2>2. QED
    BY <2>1, <1>3, <1>4 DEF Plain
<1>22. ASSUME NEW k \in 1..((o - 1) - 1)
       PROVE  snd'.out[k].type = "row" /\ snd'.out[k].x = x /\ snd'.out[k].n = r + 1 + k - (o - 1)
  <2>1. k + 1 \in 1..(Len(snd.out) - 1) /\ k \in 1..(Len(snd.out) - 1)
    BY <1>3, <1>4
  <2>2. snd'.out[k] = snd.out[k + 1]
    BY <2>1, <1>1
  <2>3. /\ snd.out[k + 1].type = "row" /\ snd.out[k + 1].x = CurTxn
        /\ snd.out[k + 1].n = CurRows + 1 + (k + 1) - Len(snd.out)
    BY <2>1 DEF Plain
  <2>4. CurRows + 1 + (k + 1) - Len(snd.out) = r + 1 + k - (o - 1)
    BY <1>3, <1>4
  <2>5. QED
    BY <2>2, <2>3, <2>4, <1>3
<1>23. /\ Len(snd'.out) = o - 1 /\ Len(snd'.out) \in 1..(CurRows' + 2) /\ Len(snd'.out) # CurRows' + 2
       /\ CurRows' + 1 - Len(snd'.out) = h + 1
  BY <1>3, <1>4, <1>8
<1>24. \A k \in 1..(Len(snd'.out) - 1) :
          /\ snd'.out[k].type = "row" /\ snd'.out[k].x = CurTxn'
          /\ snd'.out[k].n = CurRows' + 1 + k - Len(snd'.out)
  BY <1>22, <1>23, <1>8
<1>25. parser'.lsn = StartOf(snd.pos)' /\ parser'.cs = CurRows' + 1 - Len(snd'.out)
  BY <1>7, <1>8, <1>11, <1>23
<1>26. Receiving(CurTxn, CurRows + 1 - Len(snd.out))'
  BY <1>20, <1>23, <1>8
<1>27. Plain'
  BY <1>8, <1>9, <1>10, <1>21, <1>23, <1>24, <1>25, <1>26 DEF Plain
<1>28. QED
  BY <1>7, <1>15, <1>27

\* A commit message is the last one of its record: what is buffered is appended
\* next, or there is nothing to append.
LEMMA CommitsPhase ==
    ASSUME SourceInv, NEW m, Receives(m), CommitInv, m.type \in {"commit", "streamcommit"},
           Len(snd.out) = 1, ~parser'.inStream, NEW x, NEW r, x = CurTxn, r = CurRows,
           Receiving(x, r)'
    PROVE  PhaseInv'
<1>0. SourceTypeOK /\ WalInv /\ HistoryInv
  BY DEF SourceInv
<1>1. /\ SamePlace /\ m \in Message /\ snd'.out \in Msgs /\ Len(snd'.out) = Len(snd.out) - 1
  BY <1>0, ReceivesFields
<1>2. Handle(m) /\ parser' = Parsed(m) /\ wal' = wal /\ history' = history
  BY DEF Receives
<1>3. /\ st'.walBuf = IF m.type = "commit" THEN st.walBuf ELSE Stamped(st.walBuf, m.final)
      /\ st'.open = FALSE /\ st'.saved = st.saved /\ st'.then = "save"
      /\ pc' = IF st.walBuf = <<>> THEN "save" ELSE "flush"
  BY <1>0, <1>1, <1>2, HandlesCommit
<1>4. snd'.out = <<>>
  BY <1>1, MsgTypes
<1>5. /\ CurTxn' = x /\ CurRows' = r /\ StartOf(snd.pos)' = StartOf(snd.pos) /\ CommitInv'
      /\ (Nobody' <=> Nobody) /\ \A y : Active(y)' <=> Active(y)
  BY <1>1, <1>3, SamePlaceFacts
<1>6. st.walBuf \in Events /\ m.final \in Nat
  BY <1>0, <1>1, Unfold DEF Message
<1>7. st'.walBuf = <<>> <=> st.walBuf = <<>>
  <2>1. PICK g : g = Stamped(st.walBuf, m.final)
    OBVIOUS
  <2>2. g \in Events /\ Len(g) = Len(st.walBuf)
    BY <2>1, <1>6, StampedFacts
  <2>3. (g = <<>> <=> Len(g) = 0) /\ (st.walBuf = <<>> <=> Len(st.walBuf) = 0)
    BY <2>2, <1>6, EmptySeq DEF Events
  <2>4. QED
    BY <2>1, <2>2, <2>3, <1>3
<1>8. Nobody /\ snd.pos \in DOMAIN wal /\ IsCommit(snd.pos)
  BY DEF CommitInv
<1>9. CASE st.walBuf = <<>>
  <2>1. st'.walBuf = <<>> /\ pc' = "save" /\ ~st'.open
    BY <1>3, <1>7, <1>9
  <2>2. Len(st'.walBuf) = 0
    BY <2>1, EmptySeq
  <2>3. \A n \in 1..(r - 0) : LogHas(x, n)'
    BY <2>2 DEF Receiving
  <2>4. PICK j : j = snd.pos
    OBVIOUS
  <2>5. j \in DOMAIN wal /\ IsCommit(j) /\ x = wal[j][1] /\ r = RowsUpTo(wal[j][1], j)
    BY <2>4, <1>8 DEF CurTxn, CurRows
  <2>6. r \in Nat
    BY <1>0, <1>8, CurTypes
  <2>7. \A n \in 1..RowsUpTo(wal[j][1], j) : LogHas(wal[j][1], n)'
    <3>1. SUFFICES ASSUME NEW n \in 1..r PROVE LogHas(x, n)'
      BY <2>5, <1>2
    <3>2. QED
      BY <2>3, <2>6
  <2>8. Dealt(j)'
    BY <2>5, <2>7, <1>0, <1>2, CommitDealt
  <2>9. Dealt(snd.pos)'
    BY <2>4, <2>8, <1>1 DEF Dealt, SamePlace
  <2>10. \A y \in Txn : ~Active(y)'
    BY <1>5, <1>8 DEF Nobody
  <2>11. Quiet'
    BY <2>1, <2>9, <2>10, <1>4 DEF Quiet
  <2>12. QED
    BY <2>1, <2>11, <1>5, <1>8 DEF PhaseInv
<1>10. CASE st.walBuf # <<>>
  <2>1. st'.walBuf # <<>> /\ pc' = "flush" /\ ~st'.open
    BY <1>3, <1>7, <1>10
  <2>2. Receiving(CurTxn, CurRows)'
    BY <1>5
  <2>3. Final'
    BY <2>1, <2>2, <1>3, <1>4, <1>5 DEF Final
  <2>4. QED
    BY <2>1, <2>3 DEF PhaseInv
<1>11. QED
  BY <1>9, <1>10

LEMMA PlainCommitPhase ==
    ASSUME SourceInv, NEW m, Receives(m), Plain, Len(snd.out) = 1
    PROVE  PhaseInv'
<1>0. SourceTypeOK
  BY DEF SourceInv
<1>1. SamePlace /\ m \in Message /\ m = snd.out[1]
  BY <1>0, ReceivesFields
<1>2. CurTxn \in Txn /\ CurRows \in Nat
  BY <1>0, CurTypes DEF Plain, CommitInv
<1>3. m.type = "commit"
  BY <1>1 DEF Plain
<1>4. Handle(m) /\ parser' = Parsed(m) /\ log' = log
  BY DEF Receives
<1>5. st'.walBuf = st.walBuf /\ parser' = parser
  BY <1>0, <1>1, <1>3, <1>4, HandlesCommit
<1>6. PICK x, r : x = CurTxn /\ r = CurRows
  OBVIOUS
<1>7. Receiving(x, r)
  <2>1. Len(snd.out) # CurRows + 2 /\ CurRows + 1 - Len(snd.out) = CurRows
    BY <1>2
  <2>2. QED
    BY <2>1, <1>6 DEF Plain
<1>8. Receiving(x, r)'
  <2>1. \A n \in 1..(r - Len(st.walBuf)) : LogHas(x, n)'
    BY <1>7, <1>4, StillHas DEF Receiving
  <2>2. StartOf(snd.pos)' = StartOf(snd.pos)
    BY <1>1, SamePlaceFacts
  <2>3. QED
    BY <2>1, <2>2, <1>5, <1>7 DEF Receiving, Buffered
<1>9. ~parser'.inStream /\ CommitInv
  BY <1>5 DEF Plain
<1>10. QED
  BY <1>3, <1>6, <1>8, <1>9, CommitsPhase

\* The segment is still to be started, its next message is a row, or its end.
StartNext(x, r, b, rest) ==
    /\ x = CurTxn /\ r = CurRows /\ b = Len(st.walBuf)
    /\ rest = Len(snd.out) - Tails /\ rest = r - b + 2
    /\ ~parser.inStream /\ snd.out[1].type = "streamstart"
    /\ IF b = 0 THEN snd.out[1].n = 1 ELSE snd.out[1].n = 0 /\ parser.cs = b
    /\ snd.out[rest].type = "streamstop"
    /\ \A k \in 1..(r - b) :
          /\ snd.out[k + 1].type = "xidrow" /\ snd.out[k + 1].x = x
          /\ snd.out[k + 1].n = b + k

StopNext(x, r, b, o, t) ==
    /\ x = CurTxn /\ r = CurRows /\ b = Len(st.walBuf)
    /\ o = Len(snd.out) /\ t = Tails /\ r = b /\ o = 1 + t
    /\ st.open /\ parser.cs = b /\ snd.out[1].type = "streamstop"

RowNext(x, r, b, o, t, d) ==
    /\ x = CurTxn /\ r = CurRows /\ b = Len(st.walBuf)
    /\ o = Len(snd.out) /\ t = Tails
    /\ d \in Nat /\ d >= 1 /\ r = b + d /\ o = d + 1 + t
    /\ parser.inStream /\ st.open /\ parser.cs = b
    /\ snd.out[d + 1].type = "streamstop"
    /\ \A k \in 1..d : /\ snd.out[k].type = "xidrow" /\ snd.out[k].x = x
                       /\ snd.out[k].n = b + k

\* What Segmenting says of the first message left.
LEMMA SegmentStart ==
    ASSUME SourceInv, NEW m, Receives(m), Segmenting,
           NEW x, NEW r, NEW b, NEW rest, StartNext(x, r, b, rest)
    PROVE  pc' = "recv" /\ Segmenting'
<1>p. /\ x = CurTxn /\ r = CurRows /\ b = Len(st.walBuf)
      /\ rest = Len(snd.out) - Tails /\ rest = r - b + 2
      /\ ~parser.inStream /\ snd.out[1].type = "streamstart"
      /\ IF b = 0 THEN snd.out[1].n = 1 ELSE snd.out[1].n = 0 /\ parser.cs = b
      /\ snd.out[rest].type = "streamstop"
      /\ \A k \in 1..(r - b) :
            /\ snd.out[k + 1].type = "xidrow" /\ snd.out[k + 1].x = x
            /\ snd.out[k + 1].n = b + k
  BY DEF StartNext
<1> USE <1>p
<1>0. SourceTypeOK
  BY DEF SourceInv
<1>1. /\ SamePlace /\ m \in Message /\ m = snd.out[1] /\ Len(snd.out) \in Nat
      /\ Len(snd'.out) = Len(snd.out) - 1 /\ snd'.out \in Msgs
      /\ \A k \in 1..(Len(snd.out) - 1) : snd'.out[k] = snd.out[k + 1]
  BY <1>0, ReceivesFields
<1>2. /\ snd.pos \in DOMAIN wal /\ wal[snd.pos][2] \in {"row", "commit"}
      /\ \A y \in Txn : Active(y) => y = CurTxn
      /\ wal[snd.pos][2] = "row" => Active(CurTxn)
      /\ snd.sent[CurTxn] = CurRows /\ b <= r /\ Buffered(x, 0, b) /\ StreamTail
  BY DEF Segmenting
<1>3. r \in Nat /\ b \in Nat /\ Tails \in {0, 1} /\ st.walBuf \in Events
  <2>1. r \in Nat
    BY <1>0, <1>2, CurTypes
  <2>2. st.walBuf \in Events
    BY <1>0, Unfold
  <2>3. b \in Nat
    BY <2>2, LenProperties DEF Events
  <2>4. QED
    BY <2>1, <2>2, <2>3 DEF Tails
<1>4. PICK o, t : o = Len(snd.out) /\ t = Tails
  OBVIOUS
<1>d. PICK d : d = r - b
  OBVIOUS
<1>5. /\ d \in Nat /\ r = b + d /\ t \in {0, 1} /\ o = d + 2 + t /\ rest = d + 2
      /\ Len(snd'.out) = d + 1 + t
  <2>1. t \in {0, 1} /\ o \in Nat /\ rest = o - t
    BY <1>1, <1>3, <1>4
  <2>2. d \in Nat /\ r = b + d
    BY <1>2, <1>3, <1>d
  <2>3. rest = d + 2
    BY <2>2, <1>3
  <2>4. o = d + 2 + t
    BY <2>1, <2>2, <2>3
  <2>5. Len(snd'.out) = o - 1
    BY <1>1, <1>4
  <2>6. QED
    BY <2>1, <2>2, <2>3, <2>4, <2>5
<1>6. Handle(m) /\ parser' = Parsed(m) /\ log' = log /\ m.type = "streamstart"
  BY <1>1 DEF Receives
<1>7. /\ st'.walBuf = st.walBuf /\ st'.open = TRUE /\ st'.saved = st.saved /\ pc' = "recv"
      /\ parser'.cs = (IF m.n = 1 THEN 0 ELSE parser.cs) /\ parser'.inStream = TRUE
  BY <1>0, <1>1, <1>6, HandlesOther
<1>8. parser'.cs = b
  <2>1. CASE b = 0
    BY <2>1, <1>1, <1>7
  <2>2. CASE b # 0
    BY <2>2, <1>1, <1>7
  <2>3. QED
    BY <2>1, <2>2
<1>9. /\ CurTxn' = x /\ CurRows' = r /\ Tails' = t /\ StartOf(snd.pos)' = StartOf(snd.pos)
      /\ (IsCommit(snd.pos)' <=> IsCommit(snd.pos)) /\ (CommitInv => CommitInv')
      /\ \A y : Active(y)' <=> Active(y)
  BY <1>1, <1>4, <1>7, SamePlaceFacts
<1>10. snd'.sent = snd.sent /\ snd'.pos = snd.pos /\ wal' = wal
  BY <1>1 DEF SamePlace
<1>11. \A k \in 1..(d + 1 + t) : snd'.out[k] = snd.out[k + 1]
  <2>1. Len(snd.out) - 1 = d + 1 + t
    BY <1>4, <1>5
  <2>2. QED
    BY <2>1, <1>1
<1>12. snd'.out # <<>>
  <2>1. Len(snd'.out) # 0
    BY <1>5
  <2>2. QED
    BY <2>1, <1>1, MsgTypes
<1>13. StreamTail'
  <2>1. snd'.out[Len(snd'.out)] = snd.out[Len(snd.out)]
    <3>1. d + 1 + t \in 1..(d + 1 + t) /\ (d + 1 + t) + 1 = o
      BY <1>5
    <3>2. QED
      BY <3>1, <1>4, <1>5, <1>11
  <2>2. QED
    BY <2>1, <1>2, <1>9 DEF StreamTail
<1>14. Buffered(CurTxn, 0, Len(st.walBuf))'
  BY <1>2, <1>7, <1>9 DEF Buffered
<1>15. Len(snd'.out) - Tails' = d + 1 /\ r - b + 1 = d + 1
  BY <1>5, <1>9, <1>d
<1>16. snd'.out[d + 1].type = "streamstop"
  <2>1. d + 1 \in 1..(d + 1 + t)
    BY <1>5
  <2>d. (d + 1) + 1 = rest
    BY <1>5
  <2>2. QED
    BY <2>1, <2>d, <1>11
<1>17. \A k \in 1..(r - b) :
          /\ snd'.out[k].type = "xidrow" /\ snd'.out[k].x = x /\ snd'.out[k].n = b + k
  <2>1. SUFFICES ASSUME NEW k \in 1..(r - b)
                 PROVE  snd'.out[k].type = "xidrow" /\ snd'.out[k].x = x /\ snd'.out[k].n = b + k
    OBVIOUS
  <2>2. k \in 1..(d + 1 + t)
    BY <1>5, <1>d
  <2>3. snd'.out[k] = snd.out[k + 1]
    BY <2>2, <1>11
  <2>4. QED
    BY <2>3
<1>18. Len(st'.walBuf) = b
  BY <1>7
<1>19. Segmenting'
  <2>1. /\ snd'.pos \in DOMAIN wal' /\ wal'[snd'.pos][2] \in {"row", "commit"}
        /\ \A y \in Txn : Active(y)' => y = CurTxn'
        /\ wal'[snd'.pos][2] = "row" => Active(CurTxn)'
        /\ snd'.sent[CurTxn'] = CurRows' /\ Len(st'.walBuf) <= CurRows'
    <3>1. Active(x) => Active(x)'
      BY <1>9
    <3>2. QED
      BY <3>1, <1>2, <1>9, <1>10, <1>18
  <2>2. parser'.inStream /\ st'.open
    BY <1>7
  <2>3. QED
    BY <2>1, <2>2, <1>8, <1>9, <1>12, <1>13, <1>14, <1>15, <1>16, <1>17, <1>18 DEF Segmenting
<1>20. QED
  BY <1>7, <1>19

\* What a message of a segment leaves alone.
LEMMA SegmentMoves ==
    ASSUME SourceInv, NEW m, Receives(m), Segmenting,
           NEW x, NEW r, NEW b, NEW o, NEW t, x = CurTxn, r = CurRows, b = Len(st.walBuf),
           o = Len(snd.out), t = Tails
    PROVE  /\ r \in Nat /\ b \in Nat /\ t \in {0, 1} /\ o \in Nat /\ o >= 1 /\ b <= r
           /\ m \in Message /\ m = snd.out[1] /\ Len(snd'.out) = o - 1 /\ snd'.out \in Msgs
           /\ \A k \in 1..(o - 1) : snd'.out[k] = snd.out[k + 1]
           /\ st.walBuf \in Events /\ Buffered(x, 0, b)
           /\ CurTxn' = x /\ CurRows' = r /\ Tails' = t
           /\ snd'.pos = snd.pos /\ snd.pos \in DOMAIN wal /\ wal' = wal /\ snd'.sent = snd.sent
           /\ wal[snd.pos][2] \in {"row", "commit"} /\ snd.sent[x] = r
           /\ \A y \in Txn : Active(y)' => y = x
           /\ wal[snd.pos][2] = "row" => Active(x)'
           /\ o > 1 => snd'.out # <<>> /\ StreamTail'
           /\ Handle(m) /\ parser' = Parsed(m) /\ log' = log
<1>0. SourceTypeOK
  BY DEF SourceInv
<1>1. /\ SamePlace /\ m \in Message /\ m = snd.out[1] /\ Len(snd.out) \in Nat /\ Len(snd.out) >= 1
      /\ Len(snd'.out) = Len(snd.out) - 1 /\ snd'.out \in Msgs
      /\ \A k \in 1..(Len(snd.out) - 1) : snd'.out[k] = snd.out[k + 1]
  BY <1>0, ReceivesFields
<1>2. /\ snd.pos \in DOMAIN wal /\ wal[snd.pos][2] \in {"row", "commit"}
      /\ \A y \in Txn : Active(y) => y = CurTxn
      /\ wal[snd.pos][2] = "row" => Active(CurTxn)
      /\ snd.sent[CurTxn] = CurRows /\ b <= r /\ Buffered(x, 0, b) /\ StreamTail
  BY DEF Segmenting
<1>3. r \in Nat
  BY <1>0, <1>2, CurTypes
<1>4. st.walBuf \in Events
  BY <1>0, Unfold
<1>5. b \in Nat
  BY <1>4, LenProperties DEF Events
<1>6. t \in {0, 1}
  BY DEF Tails
<1>7. Handle(m) /\ parser' = Parsed(m) /\ log' = log
  BY DEF Receives
<1>8. st'.saved = st.saved
  BY <1>0, <1>1, <1>7, HandlesPos
<1>9. /\ CurTxn' = x /\ CurRows' = r /\ Tails' = t /\ StartOf(snd.pos)' = StartOf(snd.pos)
      /\ (IsCommit(snd.pos)' <=> IsCommit(snd.pos)) /\ (CommitInv => CommitInv')
      /\ \A y : Active(y)' <=> Active(y)
  BY <1>1, <1>8, SamePlaceFacts
<1>10. snd'.sent = snd.sent /\ snd'.pos = snd.pos /\ wal' = wal
  BY <1>1 DEF SamePlace
<1>11. o > 1 => snd'.out # <<>>
  <2>1. o > 1 => Len(snd'.out) # 0
    BY <1>1
  <2>2. QED
    BY <2>1, <1>1, MsgTypes
<1>12. o > 1 => StreamTail'
  <2>1. SUFFICES ASSUME o > 1 PROVE StreamTail'
    OBVIOUS
  <2>2. snd'.out[Len(snd'.out)] = snd.out[Len(snd.out)]
    <3>1. o \in Nat
      BY <1>1
    <3>2. o - 1 \in 1..(o - 1) /\ (o - 1) + 1 = o
      BY <3>1, <2>1
    <3>3. Len(snd'.out) = o - 1 /\ \A k \in 1..(o - 1) : snd'.out[k] = snd.out[k + 1]
      BY <1>1
    <3>4. QED
      BY <3>2, <3>3
  <2>3. QED
    BY <2>2, <1>2, <1>9 DEF StreamTail
<1>13. \A y \in Txn : Active(y)' => y = x
  BY <1>2, <1>9
<1>14. wal[snd.pos][2] = "row" => Active(x)'
  BY <1>2, <1>9
<1>15. snd.sent[x] = r
  BY <1>2
<1>16. /\ o \in Nat /\ o >= 1 /\ Len(snd'.out) = o - 1
       /\ \A k \in 1..(o - 1) : snd'.out[k] = snd.out[k + 1]
  BY <1>1
<1>17. QED
  BY <1>1, <1>2, <1>3, <1>4, <1>5, <1>6, <1>7, <1>9, <1>10, <1>11, <1>12, <1>13, <1>14, <1>15, <1>16

LEMMA ShiftOne ==
    ASSUME NEW b \in Nat, NEW k \in Nat
    PROVE  b + (k + 1) = (b + 1) + k
OBVIOUS

LEMMA SegmentRow ==
    ASSUME SourceInv, NEW m, Receives(m), Segmenting,
           NEW x, NEW r, NEW b, NEW o, NEW t, NEW d, RowNext(x, r, b, o, t, d)
    PROVE  pc' = "recv" /\ Segmenting'
<1>p. /\ x = CurTxn /\ r = CurRows /\ b = Len(st.walBuf)
      /\ o = Len(snd.out) /\ t = Tails
      /\ d \in Nat /\ d >= 1 /\ r = b + d /\ o = d + 1 + t
      /\ parser.inStream /\ st.open /\ parser.cs = b
      /\ snd.out[d + 1].type = "streamstop"
      /\ \A k \in 1..d : /\ snd.out[k].type = "xidrow" /\ snd.out[k].x = x
                         /\ snd.out[k].n = b + k
  BY DEF RowNext
<1> USE <1>p
<1>0. SourceTypeOK
  BY DEF SourceInv
<1>1. /\ r \in Nat /\ b \in Nat /\ t \in {0, 1} /\ o \in Nat /\ b <= r
      /\ m \in Message /\ m = snd.out[1] /\ Len(snd'.out) = o - 1
      /\ \A k \in 1..(o - 1) : snd'.out[k] = snd.out[k + 1]
      /\ st.walBuf \in Events /\ Buffered(x, 0, b)
      /\ Handle(m) /\ parser' = Parsed(m)
  BY SegmentMoves
<1>2. /\ CurTxn' = x /\ CurRows' = r /\ Tails' = t
      /\ snd'.pos = snd.pos /\ snd.pos \in DOMAIN wal /\ wal' = wal /\ snd'.sent = snd.sent
      /\ wal[snd.pos][2] \in {"row", "commit"} /\ snd.sent[x] = r
      /\ \A y \in Txn : Active(y)' => y = x
      /\ wal[snd.pos][2] = "row" => Active(x)'
      /\ o > 1 => snd'.out # <<>> /\ StreamTail'
  BY SegmentMoves
<1>3. PICK c : c = d - 1
  OBVIOUS
<1>4. c \in Nat /\ d = c + 1 /\ o - 1 = c + 1 + t /\ o > 1 /\ r = (b + 1) + c /\ 1 \in 1..d
  <2>1. c \in Nat /\ d = c + 1 /\ 1 \in 1..d
    BY <1>3
  <2>2. t \in Nat /\ b \in Nat
    BY <1>1
  <2>3. o - 1 = c + 1 + t /\ o > 1
    BY <2>1, <2>2
  <2>4. r = (b + 1) + c
    BY <2>1, <2>2, ShiftOne
  <2>5. QED
    BY <2>1, <2>3, <2>4
<1>5. m.type = "xidrow" /\ m.x = x /\ m.n = b + 1 /\ m.type \in Row
  BY <1>1, <1>4 DEF Row
<1>6. /\ st'.walBuf = Append(st.walBuf, NewEvent(m)) /\ st'.open = st.open
      /\ pc' = IF Len(st.walBuf) + 1 >= Threshold /\ ~st.open THEN "flush" ELSE "recv"
      /\ parser'.cs = parser.cs + 1 /\ parser'.inStream = parser.inStream
  BY <1>0, <1>1, <1>5, HandlesRow
<1>7. pc' = "recv" /\ st'.open /\ parser'.inStream /\ parser'.cs = b + 1
  BY <1>6
<1>8. PICK e : e = NewEvent(m)
  OBVIOUS
<1>9. e \in Event /\ e.x = x /\ e.n = b + 1 /\ e.cs = b
  BY <1>0, <1>1, <1>5, <1>8, NewEventIs
<1>10. Len(st'.walBuf) = b + 1
  BY <1>1, <1>6, <1>8, <1>9, BufferGrows
<1>11. Buffered(x, 0, b + 1)'
  <2>1. 0 \in Nat /\ 0 <= b
    BY <1>1
  <2>2. QED
    BY <2>1, <1>1, <1>6, <1>8, <1>9, BufferedGrows
<1>12. Buffered(CurTxn, 0, Len(st.walBuf))'
  BY <1>2, <1>10, <1>11
<1>13. Len(snd'.out) - Tails' = c + 1 /\ CurRows' - Len(st'.walBuf) + 1 = c + 1
       /\ CurRows' - Len(st'.walBuf) = c
  BY <1>1, <1>2, <1>4, <1>10
<1>14. \A k \in 1..(c + 1) : snd'.out[k] = snd.out[k + 1]
  <2>1. \A k \in 1..(c + 1) : k \in 1..(o - 1)
    BY <1>1, <1>4
  <2>2. QED
    BY <2>1, <1>1
<1>15. snd'.out[c + 1].type = "streamstop"
  <2>1. c + 1 \in 1..(c + 1) /\ (c + 1) + 1 = d + 1
    BY <1>4
  <2>2. QED
    BY <2>1, <1>14
<1>16. \A k \in 1..c : /\ snd'.out[k].type = "xidrow" /\ snd'.out[k].x = x
                       /\ snd'.out[k].n = (b + 1) + k
  <2>1. SUFFICES ASSUME NEW k \in 1..c
                 PROVE  snd'.out[k].type = "xidrow" /\ snd'.out[k].x = x /\ snd'.out[k].n = (b + 1) + k
    OBVIOUS
  <2>2. k \in 1..(c + 1) /\ k + 1 \in 1..d /\ b + (k + 1) = (b + 1) + k
    <3>1. c \in Nat /\ d = c + 1 /\ b \in Nat
      BY <1>1, <1>4
    <3>2. k \in 1..(c + 1) /\ k + 1 \in 1..d
      BY <3>1
    <3>k. k \in Nat
      BY <3>1
    <3>3. b + (k + 1) = (b + 1) + k
      BY <3>1, <3>k, ShiftOne
    <3>4. QED
      BY <3>2, <3>3
  <2>3. snd'.out[k] = snd.out[k + 1]
    BY <2>2, <1>14
  <2>4. QED
    BY <2>2, <2>3
<1>17. Segmenting'
  <2>1. /\ snd'.pos \in DOMAIN wal' /\ wal'[snd'.pos][2] \in {"row", "commit"}
        /\ \A y \in Txn : Active(y)' => y = CurTxn'
        /\ wal'[snd'.pos][2] = "row" => Active(CurTxn)'
        /\ snd'.sent[CurTxn'] = CurRows' /\ snd'.out # <<>> /\ StreamTail'
    BY <1>2, <1>4
  <2>2. Len(st'.walBuf) <= CurRows'
    BY <1>1, <1>2, <1>4, <1>10
  <2>3. /\ snd'.out[CurRows' - Len(st'.walBuf) + 1].type = "streamstop"
        /\ \A k \in 1..(CurRows' - Len(st'.walBuf)) :
              /\ snd'.out[k].type = "xidrow" /\ snd'.out[k].x = CurTxn'
              /\ snd'.out[k].n = Len(st'.walBuf) + k
    <3>1. PICK u, w : u = CurRows' - Len(st'.walBuf) /\ w = Len(st'.walBuf)
      OBVIOUS
    <3>2. u = c /\ w = b + 1
      BY <3>1, <1>10, <1>13
    <3>3. snd'.out[u + 1].type = "streamstop"
      BY <3>2, <1>15
    <3>4. \A k \in 1..u : /\ snd'.out[k].type = "xidrow" /\ snd'.out[k].x = x
                           /\ snd'.out[k].n = w + k
      BY <3>2, <1>16
    <3>5. QED
      BY <3>1, <3>3, <3>4, <1>2
  <2>4. QED
    BY <2>1, <2>2, <2>3, <1>7, <1>10, <1>12, <1>13 DEF Segmenting
<1>18. QED
  BY <1>7, <1>17

LEMMA SegmentStop ==
    ASSUME SourceInv, NEW m, Receives(m), Segmenting,
           NEW x, NEW r, NEW b, NEW o, NEW t, StopNext(x, r, b, o, t)
    PROVE  pc' = "recv" /\ (Quiet' \/ Segmenting')
<1>p. /\ x = CurTxn /\ r = CurRows /\ b = Len(st.walBuf)
      /\ o = Len(snd.out) /\ t = Tails /\ r = b /\ o = 1 + t
      /\ st.open /\ parser.cs = b /\ snd.out[1].type = "streamstop"
  BY DEF StopNext
<1> USE <1>p
<1>0. SourceTypeOK
  BY DEF SourceInv
<1>1. /\ r \in Nat /\ b \in Nat /\ t \in {0, 1} /\ o \in Nat
      /\ m \in Message /\ m = snd.out[1] /\ Len(snd'.out) = o - 1 /\ snd'.out \in Msgs
      /\ Buffered(x, 0, b) /\ Handle(m) /\ parser' = Parsed(m)
  BY SegmentMoves
<1>2. /\ CurTxn' = x /\ CurRows' = r /\ Tails' = t
      /\ snd'.pos = snd.pos /\ snd.pos \in DOMAIN wal /\ wal' = wal /\ snd'.sent = snd.sent
      /\ wal[snd.pos][2] \in {"row", "commit"} /\ snd.sent[x] = r
      /\ \A y \in Txn : Active(y)' => y = x
      /\ wal[snd.pos][2] = "row" => Active(x)'
      /\ o > 1 => snd'.out # <<>> /\ StreamTail'
  BY SegmentMoves
<1>3. m.type = "streamstop"
  BY <1>1
<1>4. /\ st'.walBuf = st.walBuf /\ st'.open = st.open /\ pc' = "recv"
      /\ parser'.cs = parser.cs /\ parser'.inStream = FALSE
  BY <1>0, <1>1, <1>3, HandlesOther
<1>5. Buffered(x, 0, b)' /\ Len(st'.walBuf) = b
  BY <1>1, <1>4 DEF Buffered
<1>6. CASE t = 0
  <2>1. snd'.out = <<>>
    <3>1. Len(snd'.out) = 0
      BY <1>1, <1>6
    <3>2. QED
      BY <3>1, <1>1, MsgTypes
  <2>2. ~IsCommit(snd.pos)
    BY <1>6 DEF Tails
  <2>3. wal[snd.pos][2] = "row"
    BY <2>2, <1>2 DEF IsCommit
  <2>4. ~IsCommit(snd.pos)'
    BY <2>2, <1>2 DEF IsCommit
  <2>5. \A y \in Txn : Active(y)' =>
          Buffered(y, 0, snd.sent[y])' /\ parser'.cs = snd'.sent[y] /\ st'.open
    <3>1. Buffered(x, 0, b)' /\ snd'.sent[x] = b /\ parser'.cs = b /\ st'.open
      BY <1>2, <1>4, <1>5
    <3>2. QED
      BY <3>1, <1>2
  <2>6. ~Nobody'
    <3>1. x \in Txn
      BY <1>0, <1>2, CurTypes
    <3>2. QED
      BY <3>1, <2>3, <1>2 DEF Nobody
  <2>7. Quiet'
    BY <2>1, <2>4, <2>5, <2>6, <1>4 DEF Quiet
  <2>8. QED
    BY <2>7, <1>4
<1>7. CASE t = 1
  <2>1. snd'.out # <<>> /\ StreamTail'
    BY <1>1, <1>2, <1>7
  <2>2. Len(snd'.out) - Tails' = 0 /\ Len(st'.walBuf) = CurRows'
    BY <1>1, <1>2, <1>5, <1>7
  <2>3. Buffered(CurTxn, 0, Len(st.walBuf))'
    BY <1>2, <1>5
  <2>4. Segmenting'
    <3>1. /\ snd'.pos \in DOMAIN wal' /\ wal'[snd'.pos][2] \in {"row", "commit"}
          /\ \A y \in Txn : Active(y)' => y = CurTxn'
          /\ wal'[snd'.pos][2] = "row" => Active(CurTxn)'
          /\ snd'.sent[CurTxn'] = CurRows'
      BY <1>2
    <3>2. Len(st'.walBuf) <= CurRows' /\ ~parser'.inStream
      BY <2>2, <1>1, <1>2, <1>4
    <3>3. QED
      BY <3>1, <3>2, <2>1, <2>2, <2>3 DEF Segmenting
  <2>5. QED
    BY <2>4, <1>4
<1>8. QED
  BY <1>1, <1>6, <1>7

LEMMA StreamCommitPhase ==
    ASSUME SourceInv, NEW m, Receives(m), Segmenting, Len(snd.out) = 1, IsCommit(snd.pos),
           Len(st.walBuf) = CurRows
    PROVE  PhaseInv'
<1>0. SourceTypeOK
  BY DEF SourceInv
<1>1. SamePlace /\ m \in Message /\ m = snd.out[1]
  BY <1>0, ReceivesFields
<1>2. CommitInv /\ m.type = "streamcommit" /\ m.final = StartOf(snd.pos)
      /\ Buffered(CurTxn, 0, Len(st.walBuf))
  BY <1>1 DEF Segmenting, StreamTail
<1>3. CurRows \in Nat /\ CurTxn \in Txn
  BY <1>0, <1>2, CurTypes DEF CommitInv
<1>4. Handle(m) /\ parser' = Parsed(m)
  BY DEF Receives
<1>5. st'.walBuf = Stamped(st.walBuf, m.final) /\ parser'.inStream = FALSE
  BY <1>0, <1>1, <1>2, <1>4, HandlesCommit
<1>6. PICK x, r : x = CurTxn /\ r = CurRows
  OBVIOUS
<1>7. st.walBuf \in Events /\ m.final \in Nat
  BY <1>0, <1>1, Unfold DEF Message
<1>8. PICK g, l : l = m.final /\ g = Stamped(st.walBuf, l)
  OBVIOUS
<1>9. /\ g \in Events /\ Len(g) = Len(st.walBuf)
      /\ \A k \in 1..Len(st.walBuf) :
            /\ g[k].x = st.walBuf[k].x /\ g[k].n = st.walBuf[k].n
            /\ g[k].cs = st.walBuf[k].cs /\ g[k].lsn = l
  BY <1>7, <1>8, StampedFacts
<1>10. r \in Nat /\ Len(st.walBuf) = r /\ Buffered(x, 0, r)
  BY <1>2, <1>3, <1>6
<1>11. \A k \in 1..(r - 0) :
          st.walBuf[k].x = x /\ st.walBuf[k].n = 0 + k /\ st.walBuf[k].cs = 0 + k - 1
  BY <1>10 DEF Buffered
<1>12. r - 0 = r /\ r - r = 0
  BY <1>10
<1>13. Buffered(x, 0, r)'
  <2>1. st'.walBuf = g /\ Len(g) = r - 0
    BY <1>5, <1>8, <1>9, <1>10, <1>12
  <2>2. \A k \in 1..(r - 0) : g[k].x = x /\ g[k].n = 0 + k /\ g[k].cs = 0 + k - 1
    <3>1. \A k \in 1..(r - 0) : k \in 1..Len(st.walBuf)
      BY <1>10, <1>12
    <3>2. QED
      BY <3>1, <1>9, <1>11
  <2>3. QED
    BY <2>1, <2>2 DEF Buffered
<1>14. DOMAIN g = 1..r
  BY <1>9, <1>10, LenProperties DEF Events
<1>15. \A k \in DOMAIN st'.walBuf : st'.walBuf[k].lsn = StartOf(snd.pos)'
  <2>1. StartOf(snd.pos)' = StartOf(snd.pos)
    BY <1>1, SamePlaceFacts
  <2>2. QED
    BY <2>1, <1>2, <1>5, <1>8, <1>9, <1>10, <1>14
<1>16. Receiving(x, r)'
  <2>1. Len(st'.walBuf) = r /\ r - Len(st'.walBuf) = 0
    BY <1>5, <1>8, <1>9, <1>10, <1>12
  <2>2. Buffered(x, r - Len(st.walBuf), r)'
    BY <2>1, <1>13
  <2>3. QED
    BY <2>1, <2>2, <1>10, <1>15 DEF Receiving
<1>17. QED
  BY <1>2, <1>5, <1>6, <1>16, CommitsPhase

LEMMA AbortPhase ==
    ASSUME SourceInv, NEW m, Receives(m), Aborting
    PROVE  PhaseInv'
<1>0. SourceTypeOK
  BY DEF SourceInv
<1>1. /\ SamePlace /\ m \in Message /\ m = snd.out[1] /\ snd'.out \in Msgs
      /\ Len(snd'.out) = Len(snd.out) - 1
  BY <1>0, ReceivesFields
<1>2. m.type = "streamabort" /\ Len(snd'.out) = 0
  BY <1>1 DEF Aborting
<1>3. Handle(m) /\ parser' = Parsed(m)
  BY DEF Receives
<1>4. st'.walBuf = <<>> /\ st'.open = FALSE /\ pc' = "save" /\ parser'.inStream = FALSE
  BY <1>0, <1>1, <1>2, <1>3, HandlesOther
<1>5. (Nobody' <=> Nobody) /\ (IsCommit(snd.pos)' <=> IsCommit(snd.pos))
      /\ \A y : Active(y)' <=> Active(y)
  BY <1>1, SamePlaceFacts
<1>6. Nobody' /\ ~IsCommit(snd.pos)' /\ \A y \in Txn : ~Active(y)'
  BY <1>5 DEF Aborting, IsCommit, Nobody
<1>7. snd'.out = <<>>
  BY <1>1, <1>2, MsgTypes
<1>8. Quiet'
  BY <1>4, <1>6, <1>7 DEF Quiet
<1>9. QED
  BY <1>4, <1>6, <1>8 DEF PhaseInv

\* A message is never read in the wrong mode, and the connector is where its
\* type says.
LEMMA ReceivesPhase ==
    ASSUME SourceInv, NEW m, m = Head(snd.out), pc = "recv", snd.out # <<>>,
           Plain \/ Segmenting \/ Aborting
    PROVE  ~Garbled(m) /\ (Receives(m) => PhaseInv')
<1>0. SourceTypeOK
  BY DEF SourceInv
<1>1. snd.out \in Msgs /\ m = snd.out[1]
  <2>1. snd.out \in Seq(Message)
    BY <1>0, Unfold
  <2>2. QED
    BY <2>1, HeadTailProperties DEF Msgs
<1>2. Len(snd.out) \in Nat /\ Len(snd.out) # 0
  BY <1>1, MsgTypes
<1>3. CASE Plain
  <2>0. CurRows \in Nat
    BY <1>0, <1>3, CurTypes DEF Plain, CommitInv
  <2>1. ~parser.inStream
    BY <1>3 DEF Plain
  <2>2. m.type # "xidrow"
    <3>1. CASE Len(snd.out) = 1
      BY <3>1, <1>1, <1>3 DEF Plain
    <3>2. CASE Len(snd.out) # 1
      <4>0. PICK n \in Nat : n = Len(snd.out)
        BY <1>2
      <4>00. n # 0 /\ n # 1
        BY <4>0, <3>2, <1>2
      <4>1. 1 \in 1..(Len(snd.out) - 1)
        <5>1. 1 \in 1..(n - 1)
          BY <4>00
        <5>2. QED
          BY <5>1, <4>0
      <4>2. m.type \in {"begin", "row"}
        BY <4>1, <1>1, <1>3 DEF Plain
      <4>3. QED
        BY <4>2
    <3>3. QED
      BY <3>1, <3>2
  <2>3. ~Garbled(m)
    BY <2>1, <2>2, <1>0, Unfold DEF Garbled
  <2>4. Receives(m) => PhaseInv'
    <3>1. SUFFICES ASSUME Receives(m) PROVE PhaseInv'
      OBVIOUS
    <3>2. CASE Len(snd.out) = CurRows + 2
      BY <3>1, <3>2, <1>3, PlainBegin DEF PhaseInv
    <3>3. CASE Len(snd.out) = 1
      BY <3>1, <3>3, <1>3, PlainCommitPhase
    <3>4. CASE Len(snd.out) # CurRows + 2 /\ Len(snd.out) # 1
      BY <3>1, <3>4, <1>3, PlainRow DEF PhaseInv
    <3>5. QED
      BY <3>2, <3>3, <3>4
  <2>5. QED
    BY <2>3, <2>4
<1>4. CASE Segmenting
  <2>1. PICK x, r, b, o, t : /\ x = CurTxn /\ r = CurRows /\ b = Len(st.walBuf)
                             /\ o = Len(snd.out) /\ t = Tails
    OBVIOUS
  <2>2. r \in Nat /\ b \in Nat /\ b <= r /\ t \in {0, 1} /\ o \in Nat /\ o >= 1
    <3>1. r \in Nat
      BY <2>1, <1>0, <1>4, CurTypes DEF Segmenting
    <3>2. st.walBuf \in Events
      BY <1>0, Unfold
    <3>3. b \in Nat
      BY <2>1, <3>2, LenProperties DEF Events
    <3>4. b <= r
      BY <2>1, <1>4 DEF Segmenting
    <3>5. t \in {0, 1}
      BY <2>1 DEF Tails
    <3>6. o \in Nat /\ o >= 1
      BY <2>1, <1>2
    <3>7. QED
      BY <3>1, <3>3, <3>4, <3>5, <3>6
  <2>3. PICK d : d = r - b
    OBVIOUS
  <2>4. d \in Nat /\ r = b + d
    BY <2>2, <2>3
  <2>5. \/ o - t = 0 /\ b = r /\ ~parser.inStream
        \/ /\ o - t = d + 1
           /\ parser.inStream /\ st.open /\ parser.cs = b
           /\ snd.out[d + 1].type = "streamstop"
           /\ \A k \in 1..d : /\ snd.out[k].type = "xidrow" /\ snd.out[k].x = x
                              /\ snd.out[k].n = b + k
        \/ /\ o - t = d + 2
           /\ ~parser.inStream /\ snd.out[1].type = "streamstart"
           /\ IF b = 0 THEN snd.out[1].n = 1 ELSE snd.out[1].n = 0 /\ parser.cs = b
           /\ snd.out[d + 2].type = "streamstop"
           /\ \A k \in 1..d : /\ snd.out[k + 1].type = "xidrow" /\ snd.out[k + 1].x = x
                              /\ snd.out[k + 1].n = b + k
    BY <2>1, <2>3, <1>4 DEF Segmenting
  <2>6. CASE o - t = 0 /\ b = r
    <3>1. t = 1 /\ o = 1
      BY <2>2, <2>6
    <3>2. IsCommit(snd.pos)
      BY <3>1, <2>1 DEF Tails
    <3>3. m.type = "streamcommit"
      BY <3>1, <3>2, <2>1, <1>1, <1>4 DEF Segmenting, StreamTail
    <3>4. ~Garbled(m)
      BY <3>3 DEF Garbled, Row
    <3>5. QED
      BY <3>1, <3>2, <3>4, <2>1, <2>6, <1>4, StreamCommitPhase
  <2>7. CASE /\ o - t = d + 1
             /\ parser.inStream /\ st.open /\ parser.cs = b
             /\ snd.out[d + 1].type = "streamstop"
             /\ \A k \in 1..d : /\ snd.out[k].type = "xidrow" /\ snd.out[k].x = x
                                /\ snd.out[k].n = b + k
    <3>0. o = d + 1 + t
      BY <2>2, <2>4, <2>7
    <3>1. CASE d = 0
      <4>1. m.type = "streamstop" /\ r = b /\ o = 1 + t
        BY <3>0, <3>1, <2>2, <2>4, <2>7, <1>1
      <4>2. ~Garbled(m)
        BY <4>1 DEF Garbled, Row
      <4>3. Receives(m) => (pc' = "recv" /\ (Quiet' \/ Segmenting'))
        <5>1. snd.out[1].type = "streamstop"
          BY <4>1, <1>1
        <5>2. StopNext(x, r, b, o, t)
          BY <5>1, <4>1, <2>1, <2>7 DEF StopNext
        <5>3. QED
          BY <5>2, <1>4, SegmentStop
      <4>4. QED
        BY <4>2, <4>3 DEF PhaseInv
    <3>2. CASE d >= 1
      <4>1. 1 \in 1..d
        BY <3>2, <2>4
      <4>2. m.type = "xidrow" /\ parser.inStream
        BY <4>1, <2>7, <1>1
      <4>3. parser.inStream = TRUE
        BY <4>2, <1>0, Unfold
      <4>4. ~Garbled(m)
        BY <4>2, <4>3 DEF Garbled
      <4>5. Receives(m) => (pc' = "recv" /\ Segmenting')
        <5>1. SUFFICES ASSUME Receives(m) PROVE pc' = "recv" /\ Segmenting'
          OBVIOUS
        <5>2. /\ x = CurTxn /\ r = CurRows /\ b = Len(st.walBuf) /\ o = Len(snd.out) /\ t = Tails
              /\ d \in Nat /\ d >= 1 /\ r = b + d /\ o = d + 1 + t
              /\ parser.inStream /\ st.open /\ parser.cs = b
              /\ snd.out[d + 1].type = "streamstop"
              /\ \A k \in 1..d : /\ snd.out[k].type = "xidrow" /\ snd.out[k].x = x
                                 /\ snd.out[k].n = b + k
          BY <3>0, <3>2, <2>1, <2>4, <2>7
        <5>3. QED
          <6>1. RowNext(x, r, b, o, t, d)
            BY <5>2 DEF RowNext
          <6>2. QED
            BY <5>1, <6>1, <1>4, SegmentRow
      <4>6. QED
        BY <4>4, <4>5 DEF PhaseInv
    <3>3. QED
      BY <3>1, <3>2, <2>4
  <2>8. CASE /\ o - t = d + 2
             /\ ~parser.inStream /\ snd.out[1].type = "streamstart"
             /\ IF b = 0 THEN snd.out[1].n = 1 ELSE snd.out[1].n = 0 /\ parser.cs = b
             /\ snd.out[d + 2].type = "streamstop"
             /\ \A k \in 1..d : /\ snd.out[k + 1].type = "xidrow" /\ snd.out[k + 1].x = x
                                /\ snd.out[k + 1].n = b + k
    <3>1. ~Garbled(m)
      BY <2>8, <1>1 DEF Garbled, Row
    <3>2. PICK rest : rest = o - t
      OBVIOUS
    <3>3. rest = Len(snd.out) - Tails /\ rest = r - b + 2 /\ rest = d + 2
      BY <3>2, <2>1, <2>3, <2>8
    <3>4. Receives(m) => (pc' = "recv" /\ Segmenting')
      <4>1. SUFFICES ASSUME Receives(m) PROVE pc' = "recv" /\ Segmenting'
        OBVIOUS
      <4>2. /\ x = CurTxn /\ r = CurRows /\ b = Len(st.walBuf)
            /\ rest = Len(snd.out) - Tails /\ rest = r - b + 2
            /\ ~parser.inStream /\ snd.out[1].type = "streamstart"
            /\ IF b = 0 THEN snd.out[1].n = 1 ELSE snd.out[1].n = 0 /\ parser.cs = b
            /\ snd.out[rest].type = "streamstop"
            /\ \A k \in 1..(r - b) :
                  /\ snd.out[k + 1].type = "xidrow" /\ snd.out[k + 1].x = x
                  /\ snd.out[k + 1].n = b + k
        BY <3>3, <2>1, <2>3, <2>8
      <4>3. QED
        <5>1. StartNext(x, r, b, rest)
          BY <4>2 DEF StartNext
        <5>2. QED
          BY <4>1, <5>1, <1>4, SegmentStart
    <3>5. QED
      BY <3>1, <3>4 DEF PhaseInv
  <2>9. QED
    BY <2>5, <2>6, <2>7, <2>8
<1>5. CASE Aborting
  <2>1. m.type = "streamabort"
    BY <1>1, <1>5 DEF Aborting
  <2>2. ~Garbled(m)
    BY <2>1 DEF Garbled, Row
  <2>3. QED
    BY <2>2, <1>5, AbortPhase
<1>6. QED
  BY <1>3, <1>4, <1>5

LEMMA HandleXLogDataInv ==
    ASSUME Steady, SourceInv, HandleXLogData
    PROVE  SourceInv'
<1>0. SourceTypeOK /\ SessionInv
  BY DEF SourceInv
<1>1. pc = "recv" /\ snd.out # <<>>
  BY DEF HandleXLogData
<1>2. SenderInv /\ PassedInv /\ PhaseInv /\ InSession
  BY <1>0, <1>1 DEF SessionInv, InSession
<1>3. Plain \/ Segmenting \/ Aborting
  BY <1>1, <1>2 DEF PhaseInv, Quiet
<1>4. PICK m : m = Head(snd.out)
  OBVIOUS
<1>5. ~Garbled(m) /\ (Receives(m) => PhaseInv')
  BY <1>1, <1>3, <1>4, ReceivesPhase
<1>6. Receives(m)
  BY <1>1, <1>4, <1>5 DEF HandleXLogData, Receives, dbVars, durVars
<1>7. UNCHANGED <<wal, history, slot, need, wasEver, ckpt, log, covered>>
      /\ Handle(m) /\ parser' = Parsed(m)
  BY <1>6 DEF Receives
<1>8. m \in Message /\ snd' \in Sender
  BY <1>0, <1>6, ReceivesFields
<1>9. /\ pc' \in {"recv", "flush", "save"}
      /\ st' \in State /\ parser' \in Parser
  BY <1>0, <1>7, <1>8, HandlesPos, HandlesTypes
<1>10. SourceTypeOK'
  BY <1>0, <1>7, <1>8, <1>9 DEF SourceTypeOK, TypeOK, State, Parser
<1>11. SenderInv' /\ PassedInv'
  BY <1>2, <1>6, ReceivesSender
<1>12. WalInv' /\ HistoryInv' /\ LogInv' /\ SlotInv' /\ ResumeInv' /\ OrderInv'
  BY <1>2, <1>7, <1>9, SessionStep DEF InSession
<1>13. QED
  BY <1>5, <1>6, <1>10, <1>11, <1>12 DEF SourceInv, SessionInv

-----------------------------------------------------------------------------
(* The connector appends what it has buffered.                             *)

\* Rows of the transaction at the sender's position handled so far.
Handled == IF snd.out = <<>> THEN CurRows ELSE CurRows + 1 - Len(snd.out)

Flushes(e) ==
    /\ pc = "flush" /\ e = Head(st.walBuf)
    /\ log' = (IF Duplicate(e) THEN log ELSE Append(log, e))
    /\ st' = [st EXCEPT !.walBuf = Tail(@)]
    /\ pc' = (IF Len(st.walBuf) = 1 THEN st.then ELSE "flush")
    /\ UNCHANGED <<wal, history, slot, snd, need, wasEver, parser, ckpt, covered>>

LEMMA FlushPhase ==
    ASSUME SourceInv, pc = "flush"
    PROVE  /\ CommitInv /\ SenderInv /\ PassedInv /\ (Plain \/ Final)
           /\ st.walBuf \in Events /\ st.walBuf # <<>>
           /\ CurTxn \in Txn /\ CurRows \in Nat
           /\ Handled \in Nat /\ Receiving(CurTxn, Handled)
           /\ Final => Handled = CurRows
           /\ Plain => /\ st.then = "recv" /\ Handled = CurRows + 1 - Len(snd.out)
                       /\ Len(snd.out) # CurRows + 2
<1>0. SourceTypeOK /\ SessionInv
  BY DEF SourceInv
<1>1. SenderInv /\ PassedInv /\ st.walBuf # <<>> /\ ((Plain /\ st.then = "recv") \/ Final)
  BY <1>0 DEF SessionInv, InSession, PhaseInv
<1>2. CommitInv
  BY <1>1 DEF Plain, Final
<1>3. CurTxn \in Txn /\ CurRows \in Nat
  BY <1>0, <1>2, CurTypes DEF CommitInv
<1>4. st.walBuf \in Events
  BY <1>0, Unfold
<1>5. Len(snd.out) = 0 <=> snd.out = <<>>
  BY <1>0, Unfold, EmptySeq
<1>6. CASE Final
  <2>1. snd.out = <<>> /\ Receiving(CurTxn, CurRows)
    BY <1>6 DEF Final
  <2>2. Handled = CurRows
    BY <2>1 DEF Handled
  <2>3. ~Plain
    <3>1. Len(snd.out) = 0
      BY <2>1, <1>5
    <3>2. QED
      BY <3>1 DEF Plain
  <2>4. QED
    BY <2>1, <2>2, <2>3, <1>1, <1>2, <1>3, <1>4, <1>6
<1>7. CASE Plain /\ st.then = "recv" /\ ~Final
  <2>1. Len(snd.out) # CurRows + 2
    BY <1>1, <1>7 DEF Plain
  <2>2. Receiving(CurTxn, CurRows + 1 - Len(snd.out))
    BY <2>1, <1>7 DEF Plain
  <2>3. snd.out # <<>>
    <3>1. Len(snd.out) # 0
      BY <1>7, <1>3 DEF Plain
    <3>2. QED
      BY <3>1, <1>5
  <2>4. Handled = CurRows + 1 - Len(snd.out)
    BY <2>3 DEF Handled
  <2>5. Receiving(CurTxn, Handled)
    BY <2>2, <2>4
  <2>6. Handled \in Nat
    BY <2>5 DEF Receiving
  <2>7. QED
    BY <2>1, <2>4, <2>5, <2>6, <1>1, <1>2, <1>3, <1>4, <1>7
<1>8. QED
  BY <1>1, <1>6, <1>7

\* The event flushed is the first row that is not yet in the log.
LEMMA FlushesEvent ==
    ASSUME SourceInv, NEW e, Flushes(e)
    PROVE  /\ e \in Event /\ e.x = CurTxn /\ e.lsn = StartOf(snd.pos)
           /\ e.n = Handled - Len(st.walBuf) + 1 /\ e.cs = Handled - Len(st.walBuf)
           /\ Len(st.walBuf) \in Nat /\ Len(st.walBuf) >= 1 /\ Len(st.walBuf) <= Handled
           /\ st'.walBuf \in Events /\ Len(st'.walBuf) = Len(st.walBuf) - 1
           /\ \A k \in 1..(Len(st.walBuf) - 1) : st'.walBuf[k] = st.walBuf[k + 1]
           /\ st'.open = st.open /\ st'.pos = st.pos /\ st'.saved = st.saved /\ st'.then = st.then
           /\ st' \in State
<1>0. SourceTypeOK /\ pc = "flush"
  BY DEF SourceInv, Flushes
<1>1. /\ st.walBuf \in Events /\ st.walBuf # <<>> /\ Handled \in Nat
      /\ Receiving(CurTxn, Handled)
  BY <1>0, FlushPhase
<1>2. PICK u, v : u = st.walBuf /\ v = Tail(u)
  OBVIOUS
<1>3. u \in Seq(Event) /\ u # <<>>
  BY <1>1, <1>2 DEF Events
<1>4. /\ Len(u) \in Nat /\ Len(u) >= 1 /\ u[1] \in Event /\ Head(u) = u[1] /\ DOMAIN u = 1..Len(u)
      /\ v \in Seq(Event) /\ Len(v) = Len(u) - 1
      /\ \A k \in 1..(Len(u) - 1) : v[k] = u[k + 1]
  BY <1>2, <1>3, HeadTailProperties, LenProperties, EmptySeq, ElementOfSeq
<1>5. e = u[1]
  BY <1>2, <1>4 DEF Flushes
<1>6. /\ st'.walBuf = v /\ st'.open = st.open /\ st'.pos = st.pos /\ st'.saved = st.saved
      /\ st'.then = st.then
  BY <1>0, <1>2 DEF Flushes, SourceTypeOK, TypeOK
<1>7. st' \in State
  <2>1. st' = [walBuf |-> v, open |-> st.open, pos |-> st.pos, saved |-> st.saved, then |-> st.then]
    BY <1>0, <1>2 DEF Flushes, SourceTypeOK, TypeOK
  <2>2. QED
    BY <2>1, <1>0, <1>4, Unfold DEF State
<1>8. PICK x, h, b : x = CurTxn /\ h = Handled /\ b = Len(st.walBuf)
  OBVIOUS
<1>9. h \in Nat /\ b \in Nat /\ b >= 1 /\ b <= h /\ Buffered(x, h - b, h)
      /\ u[1].lsn = StartOf(snd.pos)
  BY <1>1, <1>2, <1>4, <1>8 DEF Receiving
<1>10. u[1].x = x /\ u[1].n = (h - b) + 1 /\ u[1].cs = (h - b) + 1 - 1
  <2>1. 1 \in 1..(h - (h - b))
    BY <1>9
  <2>2. QED
    BY <2>1, <1>9, <1>2 DEF Buffered
<1>11. u[1].cs = h - b
  BY <1>9, <1>10
<1>12. QED
  BY <1>2, <1>4, <1>5, <1>6, <1>7, <1>8, <1>9, <1>10, <1>11 DEF Events

\* The same key in the log is the same change: an event is skipped only when
\* its change is there.
LEMMA FlushesLog ==
    ASSUME SourceInv, NEW e, Flushes(e)
    PROVE  /\ log' \in Events /\ LogInv'
           /\ \A y, n : LogHas(y, n) => LogHas(y, n)'
           /\ LogHas(e.x, e.n)'
           /\ Duplicate(e) => LogHas(e.x, e.n)
           /\ \A y, n : LogHas(y, n)' => (LogHas(y, n) \/ (y = e.x /\ n = e.n))
<1>0. SourceTypeOK /\ LogInv /\ pc = "flush" /\ wal \in Wal /\ log \in Events
  BY Unfold DEF SourceInv, Flushes
<1>1. /\ e \in Event /\ e.x = CurTxn /\ e.lsn = StartOf(snd.pos) /\ e.n = e.cs + 1
  <2>1. /\ e \in Event /\ e.x = CurTxn /\ e.lsn = StartOf(snd.pos)
        /\ e.n = Handled - Len(st.walBuf) + 1 /\ e.cs = Handled - Len(st.walBuf)
    BY FlushesEvent
  <2>2. QED
    BY <2>1
<1>2. snd.pos \in DOMAIN wal /\ IsCommit(snd.pos)
  BY <1>0, FlushPhase DEF CommitInv
<1>3. Keyed(e)
  <2>1. PICK j : j = snd.pos
    OBVIOUS
  <2>2. j \in DOMAIN wal /\ IsCommit(j) /\ wal[j][1] = e.x /\ e.lsn = StartOf(j)
    BY <2>1, <1>1, <1>2 DEF CurTxn
  <2>3. QED
    BY <2>2, <1>1 DEF Keyed
<1>4. wal' = wal
  BY DEF Flushes
<1>5. \A f : Keyed(f)' <=> Keyed(f)
  <2>1. SUFFICES ASSUME NEW f PROVE Keyed(f)' <=> Keyed(f)
    OBVIOUS
  <2>2. QED
    BY <1>4 DEF Keyed, IsCommit, StartOf
<1>6. CASE Duplicate(e)
  <2>1. log' = log
    BY <1>6 DEF Flushes
  <2>2. \A y, n : LogHas(y, n)' <=> LogHas(y, n)
    BY <2>1, StillHas
  <2>3. PICK i \in DOMAIN log : log[i].lsn = e.lsn /\ log[i].cs = e.cs
    BY <1>6 DEF Duplicate
  <2>4. PICK j \in DOMAIN wal : /\ IsCommit(j) /\ wal[j][1] = log[i].x
                                /\ log[i].lsn = StartOf(j) /\ log[i].n = log[i].cs + 1
    BY <1>0, <2>3 DEF LogInv, Keyed
  <2>5. StartOf(j) = StartOf(snd.pos)
    BY <2>3, <2>4, <1>1
  <2>6. j \in Nat \ {0} /\ snd.pos \in Nat \ {0}
    BY <1>0, <1>2, WalTypes
  <2>7. j = snd.pos
    BY <2>5, <2>6, StartOrder
  <2>8. log[i].x = e.x /\ log[i].n = e.n
    BY <2>3, <2>4, <2>7, <1>1 DEF CurTxn
  <2>9. LogHas(e.x, e.n)
    BY <2>3, <2>8 DEF LogHas
  <2>10. LogInv'
    BY <1>0, <1>5, <2>1 DEF LogInv
  <2>11. LogHas(e.x, e.n)'
    <3>1. PICK y, n : y = e.x /\ n = e.n
      OBVIOUS
    <3>2. LogHas(y, n)'
      BY <3>1, <2>2, <2>9
    <3>3. QED
      BY <3>1, <3>2
  <2>12. QED
    BY <1>0, <2>1, <2>2, <2>9, <2>10, <2>11
<1>7. CASE ~Duplicate(e)
  <2>1. log' = Append(log, e)
    BY <1>7 DEF Flushes
  <2>2. PICK g, h : g = log /\ h = log'
    OBVIOUS
  <2>3. g \in Seq(Event) /\ h = Append(g, e)
    BY <2>1, <2>2, <1>0 DEF Events
  <2>4. /\ Len(g) \in Nat /\ Len(h) = Len(g) + 1 /\ h \in Seq(Event)
        /\ \A k \in 1..Len(g) : h[k] = g[k]
        /\ h[Len(g) + 1] = e
    BY <2>3, <1>1, AppendProperties, LenProperties
  <2>5. DOMAIN g = 1..Len(g) /\ DOMAIN h = 1..(Len(g) + 1)
    BY <2>3, <2>4, LenProperties
  <2>6. \A k \in DOMAIN g : k \in DOMAIN h /\ h[k] = g[k]
    BY <2>4, <2>5
  <2>7. \A k \in DOMAIN h : k \in DOMAIN g \/ h[k] = e
    BY <2>4, <2>5
  <2>8. \E k \in DOMAIN h : h[k] = e
    BY <2>4, <2>5
  <2>9. LogInv'
    <3>1. \A k \in DOMAIN h : Keyed(h[k])
      BY <2>2, <2>6, <2>7, <1>0, <1>3 DEF LogInv
    <3>2. QED
      BY <3>1, <2>2, <1>5 DEF LogInv
  <2>10. \A y, n : LogHas(y, n) => LogHas(y, n)'
    BY <2>2, <2>6 DEF LogHas
  <2>11. LogHas(e.x, e.n)'
    BY <2>2, <2>8 DEF LogHas
  <2>12. \A y, n : LogHas(y, n)' => (LogHas(y, n) \/ (y = e.x /\ n = e.n))
    BY <2>2, <2>6, <2>7 DEF LogHas
  <2>13. log' \in Events
    BY <2>2, <2>4 DEF Events
  <2>14. QED
    BY <2>9, <2>10, <2>11, <2>12, <2>13, <1>7
<1>8. QED
  BY <1>6, <1>7

\* The rows before the event flushed are in the log, so are the changes of the
\* commits before: no change of a commit that can be sent again is overtaken.
LEMMA FlushesOrder ==
    ASSUME SourceInv, NEW e, Flushes(e)
    PROVE  OrderInv'
<1>0. /\ SourceTypeOK /\ HistoryInv /\ OrderInv /\ pc = "flush"
      /\ wal \in Wal /\ history \in Hist /\ wal' = wal /\ history' = history /\ slot' = slot
  BY Unfold DEF SourceInv, Flushes
<1>1. /\ CommitInv /\ PassedInv /\ Receiving(CurTxn, Handled) /\ Handled \in Nat
  BY <1>0, FlushPhase
<1>2. /\ e.x = CurTxn /\ e.n = Handled - Len(st.walBuf) + 1
      /\ Len(st.walBuf) \in Nat /\ Len(st.walBuf) <= Handled
  BY FlushesEvent
<1>3. /\ \A y, n : LogHas(y, n) => LogHas(y, n)'
      /\ \A y, n : LogHas(y, n)' => (LogHas(y, n) \/ (y = e.x /\ n = e.n))
  BY FlushesLog
<1>4. PICK p : p = snd.pos
  OBVIOUS
<1>5. p \in DOMAIN wal /\ IsCommit(p) /\ wal[p][1] = e.x
  BY <1>1, <1>2, <1>4 DEF CommitInv, CurTxn
<1>6. PICK h : h = Handled - Len(st.walBuf)
  OBVIOUS
<1>7. h \in Nat /\ e.n = h + 1 /\ \A n \in 1..h : LogHas(e.x, n)
  BY <1>1, <1>2, <1>6 DEF Receiving
<1>8. \A j \in DOMAIN wal : (IsCommit(j) /\ j < p) => Dealt(j)
  BY <1>1, <1>4 DEF PassedInv
<1>9. SUFFICES ASSUME slot # NoSlot,
                      NEW i \in DOMAIN history, NEW k \in DOMAIN history, NEW c \in DOMAIN wal,
                      i < k, IsCommit(c), wal[c][1] = history[i][1], StartOf(c) >= slot,
                      NEW y, NEW n, y = history[k][1], n = history[k][2], LogHas(y, n)'
               PROVE  \A a, b : (a = history[i][1] /\ b = history[i][2]) => LogHas(a, b)'
  <2>1. SUFFICES ASSUME slot # NoSlot,
                      NEW i \in DOMAIN history, NEW k \in DOMAIN history, NEW c \in DOMAIN wal,
                      i < k, IsCommit(c), wal[c][1] = history[i][1], StartOf(c) >= slot,
                      LogHas(history[k][1], history[k][2])'
                 PROVE  LogHas(history[i][1], history[i][2])'
    BY <1>0 DEF OrderInv, IsCommit, NoSlot, StartOf
  <2>2. PICK y, n : y = history[k][1] /\ n = history[k][2]
    OBVIOUS
  <2>3. LogHas(y, n)'
    BY <2>1, <2>2, <1>0 DEF LogHas
  <2>4. PICK a, b : a = history[i][1] /\ b = history[i][2]
    OBVIOUS
  <2>5. LogHas(a, b)'
    BY <2>1, <2>2, <2>3, <2>4
  <2>6. QED
    BY <2>4, <2>5, <1>0 DEF LogHas
<1>10. SUFFICES ASSUME NEW a, NEW b, a = history[i][1], b = history[i][2] PROVE LogHas(a, b)'
  OBVIOUS
<1>11. CASE LogHas(y, n)
  <2>1. LogHas(a, b)
    BY <1>0, <1>9, <1>10, <1>11 DEF OrderInv
  <2>2. QED
    BY <2>1, <1>3
<1>12. CASE y = e.x /\ n = e.n
  <2>1. c < p \/ (c = p /\ b < n)
    <3>1. wal[p][1] = history[k][1] /\ IsCommit(p) /\ p \in DOMAIN wal
      BY <1>5, <1>9, <1>12
    <3>2. c < p \/ (c = p /\ history[i][2] < history[k][2])
      BY <3>1, <1>0, <1>9 DEF HistoryInv
    <3>3. QED
      BY <3>2, <1>9, <1>10
  <2>2. CASE c < p
    <3>1. Dealt(c)
      BY <2>2, <1>8, <1>9
    <3>2. LogHas(a, b) \/ (i <= covered /\ StartOf(c) < slot)
      BY <3>1, <1>9, <1>10 DEF Dealt
    <3>3. StartOf(c) \in Nat /\ slot \in Int
      <4>1. c \in Nat \ {0}
        BY <1>0, WalTypes
      <4>2. StartOf(c) \in Nat
        BY <4>1, StartType
      <4>3. slot \in Int
        BY <1>0, Unfold DEF NoSlot
      <4>4. QED
        BY <4>2, <4>3
    <3>4. LogHas(a, b)
      BY <3>2, <3>3, <1>9
    <3>5. QED
      BY <3>4, <1>3
  <2>3. CASE c = p /\ b < n
    <3>1. a = e.x
      BY <2>3, <1>5, <1>9, <1>10
    <3>2. b \in 1..RowsOf[a]
      BY <1>0, <1>10 DEF HistoryInv
    <3>3. RowsOf[a] \in Nat
      <4>1. a \in Txn
        BY <1>0, <1>10, HistoryTypes
      <4>2. QED
        BY <4>1, SourceAssumption
    <3>4. b \in 1..h
      BY <3>2, <3>3, <2>3, <1>7, <1>12
    <3>5. LogHas(a, b)
      BY <3>1, <3>4, <1>7
    <3>6. QED
      BY <3>5, <1>3
  <2>4. QED
    BY <2>1, <2>2, <2>3
<1>13. QED
  BY <1>3, <1>9, <1>11, <1>12

LEMMA FlushesReceiving ==
    ASSUME SourceInv, NEW e, Flushes(e), NEW x, NEW h, x = CurTxn, h = Handled
    PROVE  /\ h \in Nat /\ Receiving(x, h)'
           /\ st'.walBuf = <<>> <=> Len(st.walBuf) = 1
<1>0. SourceTypeOK /\ pc = "flush" /\ UNCHANGED <<wal, history, slot, snd>>
  BY DEF SourceInv, Flushes
<1>1. h \in Nat /\ Receiving(x, h) /\ st.walBuf \in Events
  BY <1>0, FlushPhase
<1>2. PICK b, c : b = Len(st.walBuf) /\ c = Len(st'.walBuf)
  OBVIOUS
<1>3. /\ b \in Nat /\ b >= 1 /\ b <= h /\ c = b - 1 /\ st'.walBuf \in Events
      /\ \A k \in 1..(b - 1) : st'.walBuf[k] = st.walBuf[k + 1]
      /\ e.x = x /\ e.n = (h - b) + 1
  BY <1>2, FlushesEvent
<1>4. /\ DOMAIN st.walBuf = 1..b /\ DOMAIN st'.walBuf = 1..c /\ c \in Nat
      /\ st'.walBuf = <<>> <=> c = 0
  <2>1. PICK u, v : u = st.walBuf /\ v = st'.walBuf
    OBVIOUS
  <2>2. u \in Seq(Event) /\ v \in Seq(Event)
    BY <2>1, <1>1, <1>3 DEF Events
  <2>3. DOMAIN u = 1..Len(u) /\ DOMAIN v = 1..Len(v) /\ Len(v) \in Nat /\ (v = <<>> <=> Len(v) = 0)
    BY <2>2, LenProperties, EmptySeq
  <2>4. QED
    BY <2>1, <2>3, <1>2
<1>5. Buffered(x, h - b, h)
  BY <1>1, <1>2 DEF Receiving
<1>6. \A k \in 1..b : /\ st.walBuf[k].x = x /\ st.walBuf[k].n = (h - b) + k
                      /\ st.walBuf[k].cs = (h - b) + k - 1
  <2>1. h - (h - b) = b
    BY <1>1, <1>3
  <2>2. QED
    BY <2>1, <1>5 DEF Buffered
<1>7. \A k \in 1..c : /\ st'.walBuf[k].x = x /\ st'.walBuf[k].n = (h - c) + k
                      /\ st'.walBuf[k].cs = (h - c) + k - 1
  <2>1. SUFFICES ASSUME NEW k \in 1..c
                 PROVE  /\ st'.walBuf[k].x = x /\ st'.walBuf[k].n = (h - c) + k
                        /\ st'.walBuf[k].cs = (h - c) + k - 1
    OBVIOUS
  <2>2. k + 1 \in 1..b /\ k \in 1..(b - 1) /\ (h - c) + k = (h - b) + (k + 1)
    BY <1>1, <1>3, <1>4
  <2>3. st'.walBuf[k] = st.walBuf[k + 1]
    BY <2>2, <1>3
  <2>4. PICK q : q = k + 1
    OBVIOUS
  <2>5. /\ st'.walBuf[k] = st.walBuf[q] /\ q \in 1..b /\ (h - c) + k = (h - b) + q
    BY <2>2, <2>3, <2>4
  <2>6. /\ st.walBuf[q].x = x /\ st.walBuf[q].n = (h - b) + q
        /\ st.walBuf[q].cs = (h - b) + q - 1
    BY <2>5, <1>6
  <2>7. PICK w : w = (h - b) + q
    OBVIOUS
  <2>t. h \in Int /\ b \in Int /\ c \in Int /\ q \in Int /\ w \in Int
    BY <2>5, <2>7, <1>1, <1>3, <1>4
  <2>8. st.walBuf[q].x = x /\ st.walBuf[q].n = w /\ st.walBuf[q].cs = w - 1
    BY <2>6, <2>7, <2>t
  <2>9. st'.walBuf[k].x = x /\ st'.walBuf[k].n = w /\ st'.walBuf[k].cs = w - 1
    BY <2>5, <2>8
  <2>10. w = (h - c) + k
    BY <2>5, <2>7
  <2>11. QED
    BY <2>9, <2>10, <2>t
<1>8. Buffered(x, h - c, h)'
  <2>1. c = h - (h - c)
    BY <1>1, <1>4
  <2>2. QED
    BY <2>1, <1>2, <1>7 DEF Buffered
<1>9. \A k \in DOMAIN st'.walBuf : st'.walBuf[k].lsn = StartOf(snd.pos)
  <2>1. SUFFICES ASSUME NEW k \in 1..c PROVE st'.walBuf[k].lsn = StartOf(snd.pos)
    BY <1>4
  <2>2. k + 1 \in 1..b /\ st'.walBuf[k] = st.walBuf[k + 1]
    BY <1>3, <1>4
  <2>3. QED
    BY <2>2, <1>1, <1>4 DEF Receiving
<1>10. \A n \in 1..(h - c) : LogHas(x, n)'
  <2>1. SUFFICES ASSUME NEW n \in 1..(h - c) PROVE LogHas(x, n)'
    OBVIOUS
  <2>2. /\ \A y, q : LogHas(y, q) => LogHas(y, q)'
        /\ LogHas(e.x, e.n)'
    BY FlushesLog
  <2>3. n \in 1..(h - b) \/ n = (h - b) + 1
    BY <1>1, <1>3, <1>4
  <2>4. CASE n \in 1..(h - b)
    <3>1. LogHas(x, n)
      BY <2>4, <1>1, <1>2 DEF Receiving
    <3>2. QED
      BY <3>1, <2>2
  <2>5. CASE n = (h - b) + 1
    <3>1. PICK y, q : y = e.x /\ q = e.n
      OBVIOUS
    <3>2. LogHas(y, q)'
      BY <3>1, <2>2
    <3>3. y = x /\ q = n
      BY <3>1, <2>5, <1>3
    <3>4. QED
      BY <3>2, <3>3
  <2>6. QED
    BY <2>3, <2>4, <2>5
<1>11. c <= h
  BY <1>1, <1>3, <1>4
<1>12. Receiving(x, h)'
  BY <1>0, <1>1, <1>2, <1>8, <1>9, <1>10, <1>11 DEF Receiving, StartOf
<1>13. QED
  BY <1>1, <1>2, <1>3, <1>4, <1>12

LEMMA FlushesPhase ==
    ASSUME SourceInv, NEW e, Flushes(e)
    PROVE  PhaseInv'
<1>0. /\ SourceTypeOK /\ WalInv /\ HistoryInv /\ pc = "flush"
      /\ UNCHANGED <<wal, history, slot, snd, parser>>
  BY DEF SourceInv, Flushes
<1>1. /\ CommitInv /\ (Plain \/ Final) /\ CurTxn \in Txn /\ CurRows \in Nat
      /\ Final => Handled = CurRows
      /\ Plain => /\ st.then = "recv" /\ Handled = CurRows + 1 - Len(snd.out)
                  /\ Len(snd.out) # CurRows + 2
  BY <1>0, FlushPhase
<1>2. PICK x, h, r : x = CurTxn /\ h = Handled /\ r = CurRows
  OBVIOUS
<1>3. Receiving(x, h)' /\ (st'.walBuf = <<>> <=> Len(st.walBuf) = 1)
  BY <1>2, FlushesReceiving
<1>4. /\ st'.open = st.open /\ st'.saved = st.saved /\ st'.then = st.then
  BY FlushesEvent
<1>5. SamePlace
  BY <1>0 DEF SamePlace
<1>6. /\ CurTxn' = x /\ CurRows' = r /\ StartOf(snd.pos)' = StartOf(snd.pos) /\ CommitInv'
      /\ (Nobody' <=> Nobody) /\ \A y : Active(y)' <=> Active(y)
  BY <1>1, <1>2, <1>4, <1>5, SamePlaceFacts
<1>7. pc' = (IF Len(st.walBuf) = 1 THEN st.then ELSE "flush")
  BY DEF Flushes
<1>8. CASE Plain
  <2>1. h = r + 1 - Len(snd.out) /\ Len(snd.out) # r + 2 /\ st'.then = "recv"
    BY <1>1, <1>2, <1>4, <1>8
  <2>2. PICK o : o = Len(snd.out) /\ o = Len(snd'.out)
    BY <1>0
  <2>3. Receiving(CurTxn, CurRows + 1 - Len(snd.out))'
    <3>1. CurTxn' = x /\ CurRows' + 1 - Len(snd'.out) = h
      BY <1>6, <2>1, <1>0
    <3>2. QED
      BY <3>1, <1>3
  <2>4. Plain'
    BY <2>1, <2>3, <1>0, <1>2, <1>4, <1>6, <1>8 DEF Plain
  <2>5. pc' = "recv" \/ (pc' = "flush" /\ st'.walBuf # <<>>)
    BY <1>3, <1>4, <1>7, <2>1
  <2>6. QED
    BY <2>1, <2>4, <2>5 DEF PhaseInv
<1>9. CASE Final
  <2>1. h = r /\ st'.then = "save" /\ snd'.out = <<>> /\ ~parser'.inStream /\ ~st'.open
    BY <1>0, <1>1, <1>2, <1>4, <1>9 DEF Final
  <2>2. CASE Len(st.walBuf) # 1
    <3>1. pc' = "flush" /\ st'.walBuf # <<>>
      BY <2>2, <1>3, <1>7
    <3>2. Receiving(CurTxn, CurRows)'
      BY <2>1, <1>3, <1>6
    <3>3. Final'
      BY <2>1, <3>2, <1>6 DEF Final
    <3>4. QED
      BY <3>1, <3>3 DEF PhaseInv
  <2>3. CASE Len(st.walBuf) = 1
    <3>1. pc' = "save" /\ st'.walBuf = <<>>
      BY <2>1, <2>3, <1>3, <1>4, <1>7
    <3>2. Len(st'.walBuf) = 0
      BY <3>1, EmptySeq
    <3>3. \A n \in 1..(r - 0) : LogHas(x, n)'
      BY <3>2, <2>1, <1>3 DEF Receiving
    <3>4. PICK j : j = snd.pos
      OBVIOUS
    <3>5. j \in DOMAIN wal /\ IsCommit(j) /\ x = wal[j][1] /\ r = RowsUpTo(wal[j][1], j)
      BY <3>4, <1>1, <1>2 DEF CurTxn, CurRows, CommitInv
    <3>6. r \in Nat
      BY <1>1, <1>2
    <3>7. \A n \in 1..RowsUpTo(wal[j][1], j) : LogHas(wal[j][1], n)'
      <4>1. SUFFICES ASSUME NEW n \in 1..r PROVE LogHas(x, n)'
        BY <3>5, <1>0
      <4>2. QED
        BY <3>3, <3>6
    <3>8. Dealt(j)'
      BY <3>5, <3>7, <1>0, CommitDealt
    <3>9. Dealt(snd.pos)'
      BY <3>4, <3>8, <1>0 DEF Dealt
    <3>10. \A y \in Txn : ~Active(y)'
      BY <1>1, <1>6 DEF CommitInv, Nobody
    <3>11. Quiet'
      BY <3>1, <3>9, <3>10, <2>1 DEF Quiet
    <3>12. Nobody'
      BY <1>1, <1>6 DEF CommitInv
    <3>13. QED
      BY <3>1, <3>11, <3>12 DEF PhaseInv
  <2>4. QED
    BY <2>2, <2>3
<1>10. QED
  BY <1>1, <1>8, <1>9

LEMMA FlushWALBufInv ==
    ASSUME Steady, SourceInv, FlushWALBuf
    PROVE  SourceInv'
<1>1. PICK e : e = Head(st.walBuf)
  OBVIOUS
<1>2. Flushes(e)
  BY <1>1 DEF FlushWALBuf, Flushes, dbVars
<1>3. /\ SourceTypeOK /\ WalInv /\ HistoryInv /\ SlotInv /\ ResumeInv
      /\ pc = "flush" /\ wal \in Wal
      /\ UNCHANGED <<wal, history, slot, snd, need, wasEver, parser, ckpt, covered>>
  BY <1>2, Unfold DEF SourceInv, Flushes
<1>4. SenderInv /\ PassedInv /\ (Plain \/ Final)
  BY <1>3, FlushPhase
<1>5. /\ st'.open = st.open /\ st'.pos = st.pos /\ st'.saved = st.saved /\ st'.then = st.then
      /\ st' \in State
  BY <1>2, FlushesEvent
<1>6. /\ log' \in Events /\ LogInv' /\ \A y, n : LogHas(y, n) => LogHas(y, n)'
  BY <1>2, FlushesLog
<1>7. OrderInv' /\ PhaseInv'
  BY <1>2, FlushesOrder, FlushesPhase
<1>8. slot \in Nat /\ slot # NoSlot /\ need = FALSE /\ covered \in Nat /\ st.then \in {"recv", "save"}
  BY <1>3, Unfold, HistoryTypes DEF SlotInv, NoSlot
<1>9. pc' \in {"recv", "save", "flush"}
  BY <1>2, <1>8 DEF Flushes
<1>10. \A j \in DOMAIN wal : Dealt(j) => Dealt(j)'
  <2>1. slot \in Int /\ slot' \in Int /\ slot <= slot' /\ covered' \in Nat /\ covered <= covered'
    BY <1>3, <1>8
  <2>2. QED
    BY <2>1, <1>3, <1>6, <1>8, StillDealt
<1>11. SourceTypeOK'
  BY <1>3, <1>5, <1>6, <1>9 DEF SourceTypeOK, TypeOK, State, Events
<1>12. WalInv' /\ HistoryInv'
  BY <1>3, StillWal
<1>13. SlotInv'
  BY <1>3, <1>8 DEF SlotInv, StartOf
<1>14. ResumeInv'
  <2>1. Resume' = Resume
    BY <1>3 DEF Resume, AtLeast
  <2>2. ~Recovering /\ ~Recovering'
    BY <1>3, <1>8 DEF Recovering
  <2>3. QED
    BY <2>1, <2>2, <1>3, <1>8, <1>10 DEF ResumeInv, IsCommit, StartOf
<1>15. SenderInv'
  BY <1>3, <1>4, StillSender
<1>16. PassedInv'
  <2>1. (\A j \in DOMAIN wal :
          (IsCommit(j) /\ (StartOf(j) < snd.start \/ j < snd.pos)) => Dealt(j))'
    BY <1>3, <1>4, <1>10 DEF IsCommit, StartOf, PassedInv
  <2>2. QED
    BY <2>1, <1>3, <1>4, <1>5 DEF PassedInv, StartOf
<1>17. QED
  BY <1>6, <1>7, <1>11, <1>12, <1>13, <1>14, <1>15, <1>16 DEF SourceInv, SessionInv

-----------------------------------------------------------------------------
(* Every reachable state.                                                  *)

LEMMA InitInv ==
    ASSUME Init
    PROVE  SourceInv
<1>1. /\ wal = <<>> /\ history = <<>> /\ log = <<>> /\ slot = 0 /\ pc = "down"
      /\ need = FALSE /\ wasEver = FALSE /\ ckpt = 0 /\ covered = 0
      /\ snd = NoSession /\ st = NewState(0) /\ parser = NewParser
  BY DEF Init
<1>2. Len(wal) = 0 /\ DOMAIN wal = {} /\ Len(history) = 0 /\ DOMAIN history = {} /\ DOMAIN log = {}
  <2>1. DOMAIN <<>> = 1..Len(<<>>) /\ Len(<<>>) = 0
    OBVIOUS
  <2>2. 1..0 = {}
    OBVIOUS
  <2>3. QED
    BY <2>1, <2>2, <1>1
<1>3. SourceTypeOK
  <2>1. snd \in Sender
    BY <1>1 DEF NoSession, Sender
  <2>2. st \in State
    BY <1>1 DEF NewState, State
  <2>3. parser \in Parser
    BY <1>1 DEF NewParser, Parser
  <2>4. covered \in 0..Len(history)
    BY <1>1, <1>2
  <2>5. wal \in Wal /\ history \in Hist /\ log \in Events
    BY <1>1 DEF Wal, Hist, Events
  <2>6. QED
    BY <2>1, <2>2, <2>3, <2>4, <2>5, <1>1
    DEF SourceTypeOK, TypeOK, State, Parser, Wal, Hist, Events, NoSlot
<1>4. WalInv
  <2>1. ASSUME NEW x \in Txn PROVE RowsUpTo(x, Len(wal)) = 0
    <3>1. {j \in RecordsOf(x, "row") : j <= Len(wal)} = {}
      BY <1>2 DEF RecordsOf
    <3>2. QED
      BY <3>1, FS_EmptySet DEF RowsUpTo
  <2>2. QED
    BY <2>1, <1>2 DEF WalInv
<1>5. HistoryInv /\ LogInv
  BY <1>2 DEF HistoryInv, LogInv
<1>6. SlotInv
  <2>1. StartOf(Len(wal) + 1) = 0
    BY <1>2, SourceAssumption DEF StartOf
  <2>2. QED
    BY <2>1, <1>1 DEF SlotInv, NoSlot
<1>7. ResumeInv /\ OrderInv
  BY <1>2 DEF ResumeInv, OrderInv
<1>8. SessionInv
  BY <1>1 DEF SessionInv, InSession
<1>9. QED
  BY <1>3, <1>4, <1>5, <1>6, <1>7, <1>8 DEF SourceInv

LEMMA StutterInv ==
    ASSUME SourceInv, UNCHANGED svars
    PROVE  SourceInv'
<1>1. UNCHANGED <<wal, history, slot, snd, pc, need, wasEver, st, parser, ckpt, log, covered>>
  BY DEF svars, dbVars, connVars, durVars
<1>2. /\ SourceTypeOK /\ WalInv /\ HistoryInv /\ LogInv
      /\ SlotInv /\ ResumeInv /\ OrderInv /\ SessionInv
  BY DEF SourceInv
<1>3. SourceTypeOK'
  BY <1>1, <1>2 DEF SourceTypeOK, TypeOK
<1>4. WalInv' /\ HistoryInv' /\ LogInv'
  BY <1>1, <1>2, StillWal, StillLog
<1>5. SlotInv'
  BY <1>1, <1>2 DEF SlotInv, StartOf
<1>6. \A y, n : LogHas(y, n)' <=> LogHas(y, n)
  BY <1>1, StillHas
<1>7. \A j \in DOMAIN wal : Dealt(j)' <=> Dealt(j)
  BY <1>1 DEF Dealt, LogHas, StartOf
<1>8. ResumeInv' /\ OrderInv'
  <2>1. Resume' = Resume /\ Recovering' = Recovering
    BY <1>1 DEF Resume, AtLeast, Recovering
  <2>2. ResumeInv'
    BY <2>1, <1>1, <1>2, <1>7 DEF ResumeInv, IsCommit, StartOf, NoSlot
  <2>3. OrderInv'
    BY <1>1, <1>2, <1>6 DEF OrderInv, IsCommit, StartOf, NoSlot
  <2>4. QED
    BY <2>2, <2>3
<1>9. SessionInv'
  <2>1. SUFFICES ASSUME InSession PROVE SenderInv' /\ PassedInv' /\ PhaseInv'
    BY <1>1 DEF SessionInv, InSession
  <2>2. SenderInv /\ PassedInv /\ PhaseInv
    BY <2>1, <1>2 DEF SessionInv
  <2>3. SenderInv' /\ SameRecords
    BY <2>2, <1>1, StillSender
  <2>4. PassedInv'
    BY <2>2, <1>1, <1>7 DEF PassedInv, IsCommit, StartOf
  <2>5. CommitInv => slot' <= StartOf(snd.pos)
    BY <1>1 DEF CommitInv
  <2>6. Keeps
    BY <2>3, <2>5, <1>1, <1>6, <1>7 DEF Keeps
  <2>7. PhaseInv'
    BY <2>2, <2>6, <1>1, <1>2, KeepsPhase
  <2>8. QED
    BY <2>3, <2>4, <2>7
<1>10. QED
  BY <1>3, <1>4, <1>5, <1>8, <1>9 DEF SourceInv

LEMMA NextInv ==
    ASSUME Steady, SourceInv, [Next]_svars
    PROVE  SourceInv'
<1>1. CASE Database
  BY <1>1, DatabaseInv
<1>2. CASE EnsureSlot
  BY <1>2, EnsureSlotInv
<1>3. CASE ResetBackfill
  BY <1>3, ResetBackfillInv
<1>4. CASE StartReplication
  BY <1>4, StartReplicationInv
<1>5. CASE Decode
  BY <1>5, DecodeInv
<1>6. CASE HandleXLogData
  BY <1>6, HandleXLogDataInv
<1>7. CASE FlushWALBuf
  BY <1>7, FlushWALBufInv
<1>8. CASE CheckpointLSN
  BY <1>8, CheckpointLSNInv
<1>9. CASE AckCheckpoint
  BY <1>9, AckCheckpointInv
<1>10. CASE Heartbeat
  BY <1>10, HeartbeatInv
<1>11. CASE Keepalive
  BY <1>11, KeepaliveInv
<1>12. CASE LoseConnection \/ Restart \/ LoseSlot
  BY <1>12, FailureInv
<1>13. CASE UNCHANGED svars
  BY <1>13, StutterInv
<1>14. QED
  BY <1>1, <1>2, <1>3, <1>4, <1>5, <1>6, <1>7, <1>8, <1>9, <1>10, <1>11, <1>12, <1>13
  DEF Next, Connector

\* On a steady server the invariant holds in every reachable state, and with it the
\* types of its variables.
LEMMA SourceInvariant == Steady => (Spec => [](SourceInv /\ TypeOK))
<1>1. Init => SourceInv
  BY InitInv
<1>2. Steady /\ SourceInv /\ [Next]_svars => SourceInv'
  BY NextInv
<1>3. SourceInv => TypeOK
  BY DEF SourceInv, SourceTypeOK
<1>4. QED
  <2>1. SUFFICES ASSUME Steady PROVE Spec => [](SourceInv /\ TypeOK)
    OBVIOUS
  <2>2. SourceInv /\ [Next]_svars => SourceInv'
    BY <1>2, <2>1
  <2>3. QED
    BY <1>1, <1>3, <2>2, PTL DEF Spec

LEMMA InvNoLoss ==
    ASSUME SourceInv
    PROVE  NoLoss
<1>0. HistoryInv /\ ResumeInv /\ SourceTypeOK /\ wal \in Wal /\ history \in Hist /\ log \in Events
  BY Unfold DEF SourceInv
<1>1. SUFFICES ASSUME slot # NoSlot, ~need, NEW i \in DOMAIN history, i > covered,
                      StartOf(CommitRecord(history[i][1])) < Resume
               PROVE  InLog(history[i])
  BY DEF NoLoss
<1>2. PICK x, n, c : x = history[i][1] /\ n = history[i][2] /\ c = CommitRecord(x)
  OBVIOUS
<1>3. \A j \in DOMAIN wal : wal[j] = <<x, "commit">> <=> (wal[j][1] = x /\ wal[j][2] = "commit")
  <2>1. \A j \in DOMAIN wal : wal[j] \in Txn \X Kinds
    BY <1>0, ElementOfSeq, LenProperties DEF Wal, Kinds
  <2>2. QED
    BY <2>1
<1>4. \E j \in DOMAIN wal : wal[j] = <<x, "commit">>
  BY <1>0, <1>2, <1>3 DEF HistoryInv, IsCommit
<1>5. c \in DOMAIN wal /\ wal[c] = <<x, "commit">>
  BY <1>2, <1>4 DEF CommitRecord
<1>6. IsCommit(c) /\ wal[c][1] = x
  BY <1>3, <1>5 DEF IsCommit
<1>7. Dealt(c)
  BY <1>0, <1>1, <1>2, <1>5, <1>6 DEF ResumeInv, Recovering
<1>8. LogHas(x, n)
  <2>1. LogHas(x, n) \/ i <= covered
    BY <1>2, <1>6, <1>7 DEF Dealt
  <2>2. i \in Nat /\ covered \in Nat
    BY <1>0, <1>1, HistoryTypes, Unfold
  <2>3. QED
    BY <2>1, <2>2, <1>1
<1>9. PICK k \in DOMAIN log : log[k].x = x /\ log[k].n = n
  BY <1>8 DEF LogHas
<1>10. history[i] = <<x, n>>
  <2>1. history[i] \in Txn \X Nat
    BY <1>0, <1>1, ElementOfSeq, LenProperties DEF Hist
  <2>2. QED
    BY <2>1, <1>2
<1>11. QED
  BY <1>9, <1>10 DEF InLog, ChangeOf

\* CHK-01 on a steady server, for any transactions, lost connections, restarts and
\* lost slots: a committed change that no later session would be sent again is in the event
\* log, or a recorded re-snapshot covers it.
LEMMA NoLossWhenSteady == Steady => (Spec => []NoLoss)
<1>1. SourceInv => NoLoss
  BY InvNoLoss
<1>2. SUFFICES ASSUME Steady PROVE Spec => []NoLoss
  OBVIOUS
<1>3. Spec => [](SourceInv /\ TypeOK)
  BY <1>2, SourceInvariant
<1>4. QED
  BY <1>1, <1>3, PTL

-----------------------------------------------------------------------------
(* The refinement of ChangeLog.                                            *)

LEMMA PairOf ==
    ASSUME history \in Hist, NEW i \in DOMAIN history
    PROVE  \A x, n : history[i] = <<x, n>> <=> (history[i][1] = x /\ history[i][2] = n)
<1>1. history[i] \in Txn \X Nat
  BY ElementOfSeq, LenProperties DEF Hist
<1>2. QED
  BY <1>1

\* The changes of history that ChangeLog finds in the log.
LEMMA LoggedIs ==
    ASSUME history \in Hist, log \in Events
    PROVE  \A i \in DOMAIN history : i \in CL!Logged <=> LogHas(history[i][1], history[i][2])
<1>1. SUFFICES ASSUME NEW i \in DOMAIN history
               PROVE  i \in CL!Logged <=> LogHas(history[i][1], history[i][2])
  OBVIOUS
<1>2. i \in CL!Logged <=> \E k \in DOMAIN log : ChangeOf(log[k]) = history[i]
  BY DEF CL!Logged
<1>3. \A k \in DOMAIN log :
         ChangeOf(log[k]) = history[i] <=> (log[k].x = history[i][1] /\ log[k].n = history[i][2])
  BY PairOf DEF ChangeOf
<1>4. QED
  BY <1>2, <1>3 DEF LogHas

\* A change with a commit record has one key only: what is in the log of it is
\* a duplicate of it.
LEMMA SameKey ==
    ASSUME SourceInv, NEW e, Flushes(e), ~Duplicate(e)
    PROVE  ~LogHas(e.x, e.n)
<1>0. /\ SourceTypeOK /\ WalInv /\ LogInv /\ pc = "flush" /\ wal \in Wal /\ log \in Events
  BY Unfold DEF SourceInv, Flushes
<1>1. snd.pos \in DOMAIN wal /\ IsCommit(snd.pos)
  BY <1>0, FlushPhase DEF CommitInv
<1>2. /\ e.x = CurTxn /\ e.lsn = StartOf(snd.pos) /\ e.n = e.cs + 1 /\ e \in Event
  <2>1. /\ e.x = CurTxn /\ e.lsn = StartOf(snd.pos) /\ e \in Event
        /\ e.n = Handled - Len(st.walBuf) + 1 /\ e.cs = Handled - Len(st.walBuf)
    BY FlushesEvent
  <2>2. QED
    BY <2>1
<1>3. SUFFICES ASSUME NEW k \in DOMAIN log, log[k].x = e.x, log[k].n = e.n
               PROVE  FALSE
  BY DEF LogHas
<1>4. PICK j \in DOMAIN wal : /\ IsCommit(j) /\ wal[j][1] = log[k].x
                              /\ log[k].lsn = StartOf(j) /\ log[k].n = log[k].cs + 1
  BY <1>0 DEF LogInv, Keyed
<1>5. wal[j][1] = wal[snd.pos][1]
  BY <1>2, <1>3, <1>4 DEF CurTxn
<1>6. j \in Nat /\ snd.pos \in Nat
  BY <1>0, <1>1, WalTypes
<1>7. j = snd.pos
  <2>1. ~(j < snd.pos)
    BY <1>0, <1>1, <1>4, <1>5 DEF WalInv, IsCommit
  <2>2. ~(snd.pos < j)
    BY <1>0, <1>1, <1>4, <1>5 DEF WalInv, IsCommit
  <2>3. QED
    BY <2>1, <2>2, <1>6
<1>8. log[k].lsn = e.lsn
  BY <1>2, <1>4, <1>7
<1>9. log[k].cs = e.cs
  <2>1. log[k].cs \in Nat /\ e.cs \in Nat
    BY <1>0, <1>2, LogTypes DEF Event
  <2>2. log[k].cs + 1 = e.cs + 1
    BY <1>2, <1>3, <1>4
  <2>3. QED
    BY <2>1, <2>2
<1>10. QED
  BY <1>8, <1>9 DEF Duplicate

\* The place in history of the event flushed.
LEMMA FlushesChange ==
    ASSUME SourceInv, NEW e, Flushes(e)
    PROVE  \E i \in DOMAIN history : history[i][1] = e.x /\ history[i][2] = e.n
<1>0. SourceTypeOK /\ WalInv /\ HistoryInv /\ pc = "flush"
  BY DEF SourceInv, Flushes
<1>1. /\ CommitInv /\ CurTxn \in Txn /\ CurRows \in Nat /\ Handled \in Nat
      /\ (Plain \/ Final) /\ (Final => Handled = CurRows)
      /\ Plain => Handled = CurRows + 1 - Len(snd.out)
  BY <1>0, FlushPhase
<1>2. /\ e.x = CurTxn /\ e.n = Handled - Len(st.walBuf) + 1
      /\ Len(st.walBuf) \in Nat /\ Len(st.walBuf) >= 1 /\ Len(st.walBuf) <= Handled
  BY FlushesEvent
<1>3. Handled <= CurRows
  <2>1. CASE Plain
    <3>1. Len(snd.out) \in 1..(CurRows + 2)
      BY <2>1 DEF Plain
    <3>2. QED
      BY <3>1, <2>1, <1>1
  <2>2. CASE Final
    BY <2>2, <1>1
  <2>3. QED
    BY <2>1, <2>2, <1>1
<1>4. e.n \in 1..CurRows
  BY <1>1, <1>2, <1>3
<1>5. PICK p : p = snd.pos
  OBVIOUS
<1>6. p \in DOMAIN wal /\ IsCommit(p) /\ wal[p][1] = e.x /\ CurRows = RowsUpTo(wal[p][1], p)
  BY <1>1, <1>2, <1>5 DEF CommitInv, CurTxn, CurRows
<1>7. CurRows = RowsOf[wal[p][1]]
  BY <1>0, <1>6 DEF WalInv
<1>8. e.n \in 1..RowsOf[wal[p][1]]
  BY <1>4, <1>7
<1>9. QED
  BY <1>0, <1>6, <1>8 DEF HistoryInv

\* An event that is not a duplicate is the next change of history, after all
\* that are in the log and right after those that are in it or covered.
LEMMA FlushesNext ==
    ASSUME SourceInv, NEW e, Flushes(e), ~Duplicate(e),
           NEW i \in DOMAIN history, history[i][1] = e.x, history[i][2] = e.n
    PROVE  /\ \A j \in CL!Logged : j < i
           /\ \A j \in (covered + 1)..(i - 1) : j \in CL!Logged
<1>0. /\ SourceTypeOK /\ WalInv /\ HistoryInv /\ OrderInv /\ SlotInv /\ pc = "flush"
      /\ wal \in Wal /\ history \in Hist /\ log \in Events /\ covered \in Nat
      /\ slot \in Int
  BY Unfold, HistoryTypes DEF SourceInv, Flushes, NoSlot
<1>1. /\ CommitInv /\ PassedInv /\ Receiving(CurTxn, Handled) /\ Handled \in Nat
  BY <1>0, FlushPhase
<1>2. /\ e.x = CurTxn /\ e.n = Handled - Len(st.walBuf) + 1
      /\ Len(st.walBuf) \in Nat /\ Len(st.walBuf) <= Handled
  BY FlushesEvent
<1>3. PICK p, h : p = snd.pos /\ h = Handled - Len(st.walBuf)
  OBVIOUS
<1>4. p \in DOMAIN wal /\ IsCommit(p) /\ wal[p][1] = e.x /\ slot <= StartOf(p)
  BY <1>1, <1>2, <1>3 DEF CommitInv, CurTxn
<1>5. h \in Nat /\ e.n = h + 1 /\ \A n \in 1..h : LogHas(e.x, n)
  BY <1>1, <1>2, <1>3 DEF Receiving
<1>6. \A j \in DOMAIN wal : (IsCommit(j) /\ j < p) => Dealt(j)
  BY <1>1, <1>3 DEF PassedInv
<1>7. DOMAIN history = 1..Len(history) /\ Len(history) \in Nat /\ i \in Nat
  BY <1>0, HistoryTypes
<1>8. \A j \in DOMAIN history : j \in CL!Logged <=> LogHas(history[j][1], history[j][2])
  BY <1>0, LoggedIs
<1>9. ~LogHas(history[i][1], history[i][2])
  BY SameKey
<1>10. slot # NoSlot /\ StartOf(p) \in Nat
  <2>1. slot # NoSlot
    BY <1>0 DEF SlotInv
  <2>2. p \in Nat \ {0}
    BY <1>0, <1>4, WalTypes
  <2>3. QED
    BY <2>1, <2>2, StartType
<1>11. ASSUME NEW j \in CL!Logged PROVE j < i
  <2>1. j \in DOMAIN history
    BY DEF CL!Logged
  <2>2. LogHas(history[j][1], history[j][2])
    BY <2>1, <1>8
  <2>3. ~(i < j)
    BY <2>1, <2>2, <1>0, <1>4, <1>9, <1>10 DEF OrderInv
  <2>4. i # j
    BY <2>2, <1>9
  <2>5. QED
    BY <2>1, <2>3, <2>4, <1>7
<1>12. ASSUME NEW j \in (covered + 1)..(i - 1) PROVE j \in CL!Logged
  <2>1. j \in DOMAIN history /\ j < i /\ ~(j <= covered)
    BY <1>0, <1>7
  <2>2. PICK c \in DOMAIN wal : IsCommit(c) /\ wal[c][1] = history[j][1]
    BY <2>1, <1>0 DEF HistoryInv
  <2>3. c < p \/ (c = p /\ history[j][2] < history[i][2])
    <3>1. wal[p][1] = history[i][1]
      BY <1>4
    <3>2. QED
      BY <3>1, <2>1, <2>2, <1>0, <1>4 DEF HistoryInv
  <2>4. CASE c < p
    <3>1. Dealt(c)
      BY <2>2, <2>4, <1>6
    <3>2. LogHas(history[j][1], history[j][2])
      BY <3>1, <2>1, <2>2 DEF Dealt
    <3>3. QED
      BY <3>2, <2>1, <1>8
  <2>5. CASE c = p /\ history[j][2] < history[i][2]
    <3>1. history[j][1] = e.x
      BY <2>2, <2>5, <1>4
    <3>2. history[j][2] \in 1..RowsOf[history[j][1]] /\ history[j][1] \in Txn
      BY <2>1, <1>0, HistoryTypes DEF HistoryInv
    <3>3. RowsOf[history[j][1]] \in Nat
      BY <3>2, SourceAssumption
    <3>4. PICK n : n = history[j][2]
      OBVIOUS
    <3>5. n \in Nat /\ n >= 1 /\ n < h + 1
      BY <3>2, <3>3, <3>4, <2>5, <1>5
    <3>6. n \in 1..h
      BY <3>5, <1>5
    <3>7. LogHas(history[j][1], history[j][2])
      BY <3>1, <3>4, <3>6, <1>5
    <3>8. QED
      BY <3>7, <2>1, <1>8
  <2>6. QED
    BY <2>3, <2>4, <2>5
<1>13. QED
  BY <1>11, <1>12

\* The event log as ChangeLog sees it.
ChangesOf(l) == [k \in DOMAIN l |-> ChangeOf(l[k])]

LEMMA ChangesAppend ==
    ASSUME NEW l \in Events, NEW e \in Event
    PROVE  ChangesOf(Append(l, e)) = Append(ChangesOf(l), ChangeOf(e))
<1>1. l \in Seq(Event)
  BY DEF Events
<1>2. PICK g : g = Append(l, e)
  OBVIOUS
<1>3. /\ g \in Seq(Event) /\ Len(g) = Len(l) + 1 /\ Len(l) \in Nat
      /\ DOMAIN g = 1..(Len(l) + 1) /\ DOMAIN l = 1..Len(l)
      /\ \A k \in 1..Len(l) : g[k] = l[k]
      /\ g[Len(l) + 1] = e
  BY <1>1, <1>2, AppendProperties, LenProperties
<1>4. PICK c : c = ChangesOf(l)
  OBVIOUS
<1>5. c \in Seq({ChangeOf(f) : f \in Event}) /\ Len(c) = Len(l) /\ DOMAIN c = 1..Len(l)
      /\ \A k \in 1..Len(l) : c[k] = ChangeOf(l[k])
  <2>1. \A k \in 1..Len(l) : l[k] \in Event
    BY <1>1, <1>3, ElementOfSeq
  <2>2. c = [k \in 1..Len(l) |-> ChangeOf(l[k])]
    BY <1>3, <1>4 DEF ChangesOf
  <2>3. c \in [1..Len(l) -> {ChangeOf(f) : f \in Event}]
    BY <2>1, <2>2
  <2>4. c \in Seq({ChangeOf(f) : f \in Event})
    BY <2>3, <1>3, IsASeq
  <2>5. QED
    BY <2>2, <2>4, <1>3, LenProperties
<1>6. PICK d : d = Append(c, ChangeOf(e))
  OBVIOUS
<1>7. /\ d \in Seq({ChangeOf(f) : f \in Event}) /\ Len(d) = Len(l) + 1
      /\ DOMAIN d = 1..(Len(l) + 1)
      /\ \A k \in 1..Len(l) : d[k] = c[k]
      /\ d[Len(l) + 1] = ChangeOf(e)
  BY <1>3, <1>5, <1>6, AppendProperties, LenProperties
<1>8. ChangesOf(g) = [k \in 1..(Len(l) + 1) |-> ChangeOf(g[k])]
  BY <1>3 DEF ChangesOf
<1>9. d = [k \in 1..(Len(l) + 1) |-> d[k]]
  BY <1>7
<1>10. ASSUME NEW k \in 1..(Len(l) + 1) PROVE ChangeOf(g[k]) = d[k]
  <2>1. CASE k \in 1..Len(l)
    BY <2>1, <1>3, <1>5, <1>7
  <2>2. CASE k = Len(l) + 1
    BY <2>2, <1>3, <1>7
  <2>3. QED
    BY <2>1, <2>2, <1>3
<1>11. QED
  BY <1>2, <1>4, <1>6, <1>8, <1>9, <1>10

\* A flush appends the next change, or nothing.
LEMMA FlushSteps ==
    ASSUME SourceInv, FlushWALBuf
    PROVE  CL!Next \/ UNCHANGED CL!vars
<1>1. PICK e : e = Head(st.walBuf)
  OBVIOUS
<1>2. Flushes(e)
  BY <1>1 DEF FlushWALBuf, Flushes, dbVars
<1>3. history' = history /\ covered' = covered /\ history \in Hist /\ log \in Events
  BY <1>2, Unfold DEF Flushes, SourceInv
<1>4. CASE Duplicate(e)
  <2>1. log' = log
    BY <1>2, <1>4 DEF Flushes
  <2>2. QED
    BY <2>1, <1>3 DEF CL!vars
<1>5. CASE ~Duplicate(e)
  <2>1. PICK i \in DOMAIN history : history[i][1] = e.x /\ history[i][2] = e.n
    BY <1>2, FlushesChange
  <2>2. /\ \A j \in CL!Logged : j < i
        /\ \A j \in (covered + 1)..(i - 1) : j \in CL!Logged
    BY <1>2, <1>5, <2>1, FlushesNext
  <2>3. history[i] = ChangeOf(e)
    BY <2>1, <1>3, PairOf DEF ChangeOf
  <2>4. log' = Append(log, e) /\ e \in Event
    BY <1>2, <1>5, FlushesEvent DEF Flushes
  <2>5. ChangesOf(log') = Append(ChangesOf(log), history[i])
    BY <2>3, <2>4, <1>3, ChangesAppend
  <2>6. CL!AppendChange(i)
    BY <2>2, <2>5, <1>3 DEF CL!AppendChange, ChangesOf
  <2>7. QED
    BY <2>1, <2>6 DEF CL!Next
<1>6. QED
  BY <1>4, <1>5

\* A commit puts its rows at the end of history.
LEMMA CommitSteps ==
    ASSUME SourceInv, NEW x \in Txn, Commit(x)
    PROVE  CL!Next
<1>0. history \in Hist
  BY Unfold DEF SourceInv
<1>1. Writes(x, "commit")
  BY DEF Commit, Writes, connVars, durVars, boundVars
<1>2. /\ history' \in Hist /\ Len(history) \in Nat /\ Len(history') = Len(history) + RowsOf[x]
      /\ DOMAIN history = 1..Len(history)
      /\ \A i \in DOMAIN history : history'[i] = history[i]
  BY <1>0, <1>1, HistoryAppends DEF Kinds
<1>3. RowsOf[x] \in Nat \ {0}
  BY SourceAssumption
<1>4. PICK g, h, l : g = history /\ h = history' /\ l = Len(history)
  OBVIOUS
<1>5. /\ g \in Seq(Txn \X Nat) /\ h \in Seq(Txn \X Nat) /\ l \in Nat /\ l = Len(g)
      /\ Len(h) > l /\ \A i \in 1..l : h[i] = g[i]
  <2>1. g \in Seq(Txn \X Nat) /\ h \in Seq(Txn \X Nat) /\ l \in Nat /\ l = Len(g)
    BY <1>0, <1>2, <1>4 DEF Hist
  <2>2. Len(h) > l
    BY <1>2, <1>3, <1>4
  <2>3. \A i \in 1..l : h[i] = g[i]
    BY <1>2, <1>4
  <2>4. QED
    BY <2>1, <2>2, <2>3
<1>6. SubSeq(h, 1, l) = g
  <2>1. PICK q : q = SubSeq(h, 1, l)
    OBVIOUS
  <2>2. 1 \in 1..(Len(h) + 1) /\ l \in (1 - 1)..Len(h)
    BY <1>5, LenProperties
  <2>3. /\ q \in Seq(Txn \X Nat) /\ Len(q) = l - 1 + 1
        /\ \A i \in 1..(l - 1 + 1) : q[i] = h[1 + i - 1]
    BY <2>1, <2>2, <1>5, SubSeqProperties
  <2>4. Len(q) = Len(g) /\ \A i \in 1..Len(q) : q[i] = g[i]
    BY <2>3, <1>5
  <2>5. q = g
    BY <2>3, <2>4, <1>5, SeqEqual
  <2>6. QED
    BY <2>1, <2>5
<1>7. log' = log /\ covered' = covered
  BY DEF Commit, durVars
<1>8. CL!Commit
  BY <1>4, <1>5, <1>6, <1>7 DEF CL!Commit
<1>9. QED
  BY <1>8 DEF CL!Next

LEMMA StepImplements ==
    ASSUME SourceInv, [Next]_svars
    PROVE  CL!Next \/ UNCHANGED CL!vars
<1>1. ASSUME NEW x \in Txn, Commit(x) PROVE CL!Next
  BY <1>1, CommitSteps
<1>2. CASE FlushWALBuf
  BY <1>2, FlushSteps
<1>3. CASE ResetBackfill
  <2>1. covered' \in covered..Len(history)
    <3>1. covered \in 0..Len(history) /\ Len(history) \in Nat
      BY Unfold, HistoryTypes DEF SourceInv
    <3>2. QED
      BY <3>1, <1>3 DEF ResetBackfill
  <2>2. history' = history /\ log' = log
    BY <1>3 DEF ResetBackfill, dbVars
  <2>3. CL!Snapshot
    BY <2>1, <2>2 DEF CL!Snapshot
  <2>4. QED
    BY <2>3 DEF CL!Next
<1>4. ASSUME NEW x \in Txn, WriteRow(x) \/ Abort(x) PROVE UNCHANGED <<history, log, covered>>
  BY <1>4 DEF WriteRow, Abort, durVars
<1>5. ASSUME EnsureSlot \/ StartReplication \/ Decode \/ HandleXLogData
      PROVE  UNCHANGED <<history, log, covered>>
  BY <1>5 DEF EnsureSlot, StartReplication, Decode, HandleXLogData, dbVars, durVars
<1>6. ASSUME CheckpointLSN \/ AckCheckpoint \/ Heartbeat \/ Keepalive
      PROVE  UNCHANGED <<history, log, covered>>
  BY <1>6 DEF CheckpointLSN, AckCheckpoint, Heartbeat, Keepalive, dbVars, durVars
<1>7. ASSUME LoseConnection \/ Restart \/ LoseSlot PROVE UNCHANGED <<history, log, covered>>
  BY <1>7 DEF LoseConnection, Restart, LoseSlot, dbVars, durVars
<1>8. ASSUME UNCHANGED svars PROVE UNCHANGED <<history, log, covered>>
  BY <1>8 DEF svars, dbVars, durVars
<1>9. ASSUME UNCHANGED <<history, log, covered>> PROVE UNCHANGED CL!vars
  BY <1>9 DEF CL!vars
<1>10. QED
  BY <1>1, <1>2, <1>3, <1>4, <1>5, <1>6, <1>7, <1>8, <1>9 DEF Next, Database, Connector

\* On a steady server the connector implements ChangeLog for any transactions, flush threshold,
\* lost connections, restarts and lost slots: the log has each committed change
\* at most once, in commit order, nothing of an aborted transaction, and none
\* is passed over unless a snapshot covers it.
LEMMA SteadySourceImplements == Steady => (Spec => ImplementsChangeLog)
<1>1. Init => CL!Init
  <2>1. SUFFICES ASSUME Init PROVE CL!Init
    OBVIOUS
  <2>2. history = <<>> /\ covered = 0 /\ log = <<>>
    BY <2>1 DEF Init
  <2>3. [k \in DOMAIN log |-> ChangeOf(log[k])] = <<>>
    BY <2>2
  <2>4. QED
    BY <2>2, <2>3 DEF CL!Init
<1>2. SourceInv /\ [Next]_svars => [CL!Next]_CL!vars
  BY StepImplements
<1>3. SUFFICES ASSUME Steady PROVE Spec => CL!Spec
  BY DEF ImplementsChangeLog
<1>4. Spec => [](SourceInv /\ TypeOK)
  BY <1>3, SourceInvariant
<1>5. QED
  BY <1>1, <1>2, <1>4, PTL DEF Spec, CL!Spec

-----------------------------------------------------------------------------
(* What is acknowledged has been saved.                                     *)

\* The floor of acknowledgements is never ahead of the checkpoint, and the position
\* is the checkpoint when it is about to be acknowledged.  The rest are the types on
\* which this rests: a message has an LSN because the rows it sends are in the WAL.
Acked ==
    /\ ckpt \in Nat /\ slot \in Nat \cup {NoSlot} /\ (pc # "down" => slot # NoSlot)
    /\ st = [walBuf |-> st.walBuf, open |-> st.open, pos |-> st.pos, saved |-> st.saved,
             then |-> st.then]
    /\ st.pos \in Nat /\ st.saved \in Nat /\ st.saved <= ckpt
    /\ pc = "ack" => st.pos = ckpt
    /\ st.then \in {"recv", "save"}

Sending ==
    /\ wal \in Wal /\ WalInv
    /\ snd \in Sender /\ snd.pos <= Len(wal)
    /\ \A y \in Txn : snd.sent[y] <= RowsUpTo(y, snd.pos)

AckedInv == Acked /\ Sending

LEMMA AckInit == Init => AckedInv
<1>1. SUFFICES ASSUME Init PROVE AckedInv
  OBVIOUS
<1>2. SourceTypeOK /\ WalInv /\ wal \in Wal /\ wal = <<>>
  BY <1>1, InitInv, Unfold DEF SourceInv, Init
<1>3. snd = NoSession /\ snd.pos = 0 /\ \A y \in Txn : snd.sent[y] = 0
  BY <1>1 DEF Init, NoSession
<1>4. \A y \in Txn : RowsUpTo(y, 0) \in Nat
  BY <1>2, RowsFinite
<1>5. Sending
  <2>1. Len(wal) \in Nat
    BY <1>2, WalTypes
  <2>2. QED
    BY <1>2, <1>3, <1>4, <2>1 DEF Sending, SourceTypeOK
<1>6. Acked
  BY <1>1 DEF Init, Acked, NewState
<1>7. QED
  BY <1>5, <1>6 DEF AckedInv

\* A step that sends nothing.
LEMMA SendingStays ==
    ASSUME Sending, wal' = wal, snd' = snd \/ (snd'.sent = [x \in Txn |-> 0] /\ snd'.pos = 0
                                               /\ snd' \in Sender)
    PROVE  Sending'
<1>1. WalInv' /\ \A x, i : RowsUpTo(x, i)' = RowsUpTo(x, i)
  BY StillRows DEF Sending
<1>2. PICK i : i = snd'.pos
  OBVIOUS
<1>3. i \in Nat /\ i <= Len(wal) /\ wal \in Wal /\ Len(wal) \in Nat
  BY <1>2, WalTypes DEF Sending, Sender
<1>4. ASSUME NEW y \in Txn PROVE snd'.sent[y] <= RowsUpTo(y, i)
  <2>1. RowsUpTo(y, i) \in Nat
    BY <1>3, RowsFinite
  <2>2. QED
    BY <1>2, <2>1 DEF Sending
<1>5. \A y \in Txn : snd'.sent[y] <= RowsUpTo(y, snd.pos)'
  BY <1>1, <1>2, <1>4
<1>6. QED
  BY <1>1, <1>2, <1>3, <1>5 DEF Sending

\* The database writes behind what the walsender has passed.
LEMMA SendingWrites ==
    ASSUME Sending, NEW x \in Txn, NEW kind \in Kinds, Writes(x, kind)
    PROVE  Sending'
<1>1. wal' \in Wal /\ WalInv' /\ Len(wal') = Len(wal) + 1 /\ Len(wal) \in Nat /\ snd' = snd
  BY WriteFacts, WritesWal DEF Sending
<1>2. PICK i : i = snd.pos
  OBVIOUS
<1>3. i \in 0..Len(wal) /\ i = snd'.pos
  BY <1>1, <1>2 DEF Sending, Sender
<1>4. \A y \in Txn : RowsUpTo(y, i)' = RowsUpTo(y, i)
  BY <1>3, RowsAppend DEF Sending, Writes
<1>5. \A y \in Txn : snd'.sent[y] <= RowsUpTo(y, snd.pos)'
  BY <1>1, <1>2, <1>3, <1>4 DEF Sending
<1>6. QED
  BY <1>1, <1>3, <1>5 DEF Sending

\* The walsender passes a record.
LEMMA SendingDecodes ==
    ASSUME Sending, Decode
    PROVE  Sending'
<1>1. PICK i, x : i = snd.pos + 1 /\ x = wal[i][1]
  OBVIOUS
<1>2. i \in DOMAIN wal /\ i \in Nat /\ i <= Len(wal) /\ snd.pos \in Nat /\ snd.pos <= i
      /\ x \in Txn /\ wal' = wal /\ snd.sent \in [Txn -> Nat] /\ wal \in Wal /\ WalInv
  BY <1>1, WalTypes DEF Decode, dbVars, Sending, Sender
<1>3. PICK ms \in Emitted(i) :
        snd' = [snd EXCEPT !.pos = i, !.out = ms,
                           !.sent[x] = IF ms = <<>> THEN @ ELSE RowsUpTo(x, i)]
  BY <1>1 DEF Decode
<1>4. ASSUME NEW y \in Txn
      PROVE  RowsUpTo(y, i) \in Nat /\ snd.sent[y] <= RowsUpTo(y, i)
  <2>1. RowsUpTo(y, snd.pos) <= RowsUpTo(y, i) /\ RowsUpTo(y, snd.pos) \in Nat
        /\ RowsUpTo(y, i) \in Nat
    BY <1>2, RowsGrow, RowsFinite
  <2>2. snd.sent[y] <= RowsUpTo(y, snd.pos) /\ snd.sent[y] \in Nat
    BY <1>2 DEF Sending
  <2>3. QED
    BY <2>1, <2>2
<1>5. ms \in Msgs
  <2>1. PICK n, d : n = snd.sent[x] /\ d = RowsUpTo(x, i) - n
    OBVIOUS
  <2>2. n <= RowsUpTo(x, i)
    BY <1>2, <1>4, <2>1
  <2>3. QED
    BY <1>1, <1>2, <1>3, <2>1, <2>2, EmittedCases
<1>6. PICK r : r = IF ms = <<>> THEN snd.sent[x] ELSE RowsUpTo(x, i)
  OBVIOUS
<1>7. snd' = [snd EXCEPT !.pos = i, !.out = ms, !.sent = [snd.sent EXCEPT ![x] = r]]
  BY <1>3, <1>6 DEF Sending, Sender
<1>8. r \in Nat /\ r <= RowsUpTo(x, i)
  BY <1>2, <1>4, <1>6
<1>9. snd'.pos = i /\ snd'.sent = [snd.sent EXCEPT ![x] = r] /\ snd' \in Sender
  BY <1>2, <1>5, <1>7, <1>8 DEF Sending, Sender, Msgs
<1>10. \A y, k : RowsUpTo(y, k)' = RowsUpTo(y, k)
  BY <1>2, StillRows
<1>11. \A y \in Txn : snd'.sent[y] <= RowsUpTo(y, i)
  BY <1>2, <1>4, <1>8, <1>9
<1>12. \A y \in Txn : snd'.sent[y] <= RowsUpTo(y, snd.pos)'
  BY <1>9, <1>10, <1>11
<1>13. QED
  BY <1>2, <1>9, <1>12, StillRows DEF Sending

\* A message moves the position and leaves the floor.
LEMMA AckedHandles ==
    ASSUME Acked, Sending, HandleXLogData
    PROVE  Acked' /\ Sending'
<1>1. PICK m : m = Head(snd.out)
  OBVIOUS
<1>2. snd.out \in Msgs /\ snd.out # <<>> /\ pc = "recv" /\ slot' = slot /\ ckpt' = ckpt
      /\ wal' = wal /\ snd' = [snd EXCEPT !.out = Tail(@)]
  BY DEF Sending, Sender, Msgs, HandleXLogData, dbVars, durVars
<1>3. m \in Message /\ Tail(snd.out) \in Msgs
  BY <1>1, <1>2, HeadTailProperties DEF Msgs
<1>4. m.lsn + MsgLen \in Nat
  BY <1>3, SourceAssumption DEF Message
<1>5. \/ st' = st /\ pc' = pc
      \/ /\ st' = [walBuf |-> st'.walBuf, open |-> st'.open, pos |-> st'.pos,
                   saved |-> st'.saved, then |-> st'.then]
         /\ st'.pos = AtLeast(st.pos, m.lsn + MsgLen) /\ st'.saved = st.saved
         /\ pc' \in {"recv", "flush", "save"} /\ st'.then \in {"recv", "save"}
  <2>1. CASE Garbled(m)
    BY <1>1, <2>1 DEF HandleXLogData
  <2>2. CASE ~Garbled(m)
    <3>1. Handle(m)
      BY <1>1, <2>2 DEF HandleXLogData
    <3>2. PICK w, o, n, l, u : st = [walBuf |-> w, open |-> o, pos |-> n, saved |-> l, then |-> u]
      BY DEF Acked
    <3>3. PICK q : q = AtLeast(st.pos, m.lsn + MsgLen)
      OBVIOUS
    <3>4. CASE m.type \in Row
      BY <3>1, <3>2, <3>3, <3>4 DEF Handle
    <3>5. CASE m.type = "streamstart"
      BY <3>1, <3>2, <3>3, <3>5 DEF Handle, Row
    <3>6. CASE m.type = "streamabort"
      BY <3>1, <3>2, <3>3, <3>6 DEF Handle, Row
    <3>7. CASE m.type \in {"commit", "streamcommit"}
      BY <3>1, <3>2, <3>3, <3>7 DEF Handle, Row
    <3>8. CASE m.type \notin Row \cup {"streamstart", "streamabort", "commit", "streamcommit"}
      BY <3>1, <3>2, <3>3, <3>8 DEF Handle
    <3>9. QED
      BY <3>4, <3>5, <3>6, <3>7, <3>8
  <2>3. QED
    BY <2>1, <2>2
<1>6. Acked'
  <2>1. AtLeast(st.pos, m.lsn + MsgLen) \in Nat
    BY <1>4 DEF Acked, AtLeast
  <2>2. QED
    BY <1>2, <1>5, <2>1 DEF Acked
<1>7. Sending'
  <2>1. snd'.sent = snd.sent /\ snd'.pos = snd.pos /\ snd' \in Sender
    BY <1>2, <1>3 DEF Sending, Sender, Msgs
  <2>2. WalInv' /\ \A x, i : RowsUpTo(x, i)' = RowsUpTo(x, i)
    BY <1>2, StillRows DEF Sending
  <2>3. \A y \in Txn : RowsUpTo(y, snd.pos)' = RowsUpTo(y, snd.pos)
    BY <2>1, <2>2
  <2>4. QED
    BY <1>2, <2>1, <2>2, <2>3 DEF Sending
<1>8. QED
  BY <1>6, <1>7

LEMMA AckNext ==
    ASSUME AckedInv, [Next]_svars
    PROVE  AckedInv'
<1>1. Acked /\ Sending
  BY DEF AckedInv
<1>2. CASE Database
  <2>1. PICK x \in Txn, kind \in Kinds : Writes(x, kind)
    BY <1>2 DEF Database, WriteRow, Commit, Abort, Writes, Kinds
  <2>2. Acked'
    BY <1>1, <2>1 DEF Acked, Writes, connVars, durVars
  <2>3. QED
    BY <1>1, <2>1, <2>2, SendingWrites DEF AckedInv
<1>3. CASE EnsureSlot \/ ResetBackfill \/ StartReplication
  <2>1. EndOf(Len(wal)) \in Nat
    BY <1>1, WalTypes, EndType DEF Sending
  <2>2. CASE EnsureSlot
    <3>1. Acked'
      BY <1>1, <2>1, <2>2 DEF Acked, EnsureSlot, durVars, NoSlot
    <3>2. QED
      BY <1>1, <2>2, <3>1, SendingStays DEF EnsureSlot, AckedInv, dbVars
  <2>3. CASE ResetBackfill
    <3>1. Acked'
      BY <1>1, <2>3 DEF Acked, ResetBackfill
    <3>2. QED
      BY <1>1, <2>3, <3>1, SendingStays DEF ResetBackfill, AckedInv, dbVars
  <2>4. CASE StartReplication
    <3>1. PICK r : r = ReplicationStartLSN
      OBVIOUS
    <3>2. r.start \in Nat /\ r.saved \in Nat /\ r.saved <= ckpt /\ slot \in Nat
      BY <1>1, <2>4, <3>1 DEF StartReplication, ReplicationStartLSN, Acked
    <3>3. PICK a : a = AtLeast(slot, r.start)
      OBVIOUS
    <3>4. a \in Nat /\ snd' = [NoSession EXCEPT !.start = a] /\ st' = NewState(r.saved)
          /\ pc' = "recv" /\ slot' = slot /\ ckpt' = ckpt /\ wal' = wal
      BY <2>4, <3>1, <3>2, <3>3 DEF StartReplication, AtLeast, dbVars, durVars
    <3>5. snd'.sent = [x \in Txn |-> 0] /\ snd'.pos = 0 /\ snd' \in Sender
      <4>1. PICK z, q : z = [x \in Txn |-> 0] /\ q = <<>>
        OBVIOUS
      <4>2. z \in [Txn -> Nat] /\ q \in Seq(Message)
        BY <4>1
      <4>3. snd' = [start |-> a, pos |-> 0, sent |-> z, out |-> q]
        BY <3>4, <4>1 DEF NoSession
      <4>4. snd'.sent = z /\ snd'.pos = 0
        BY <4>3
      <4>5. a \in Nat
        BY <3>4
      <4>6. [start |-> a, pos |-> 0, sent |-> z, out |-> q] \in Sender
        BY <4>2, <4>5 DEF Sender
      <4>7. QED
        BY <4>1, <4>3, <4>4, <4>6
    <3>6. Acked'
      BY <1>1, <3>2, <3>4 DEF Acked, NewState, NoSlot
    <3>7. QED
      BY <1>1, <3>4, <3>5, <3>6, SendingStays DEF AckedInv
  <2>5. QED
    BY <1>3, <2>2, <2>3, <2>4
<1>4. CASE Decode
  <2>1. Acked'
    BY <1>1, <1>4 DEF Acked, Decode, durVars
  <2>2. QED
    BY <1>1, <1>4, <2>1, SendingDecodes DEF AckedInv
<1>5. CASE HandleXLogData
  BY <1>1, <1>5, AckedHandles DEF AckedInv
<1>6. CASE FlushWALBuf
  <2>1. /\ st' = [st EXCEPT !.walBuf = Tail(@)] /\ pc' \in {st.then, "flush"} /\ pc = "flush"
        /\ UNCHANGED <<slot, snd, wal, ckpt>>
    BY <1>6 DEF FlushWALBuf, dbVars
  <2>2. Acked'
    BY <1>1, <2>1 DEF Acked
  <2>3. QED
    BY <1>1, <2>1, <2>2, SendingStays DEF AckedInv
<1>7. CASE CheckpointLSN
  <2>1. /\ ckpt' = st.pos /\ st' = [st EXCEPT !.saved = st.pos]
        /\ pc = "save" /\ UNCHANGED <<slot, snd, wal>>
    BY <1>7 DEF CheckpointLSN, dbVars
  <2>2. Acked'
    BY <1>1, <2>1 DEF Acked
  <2>3. QED
    BY <1>1, <2>1, <2>2, SendingStays DEF AckedInv
<1>8. CASE AckCheckpoint \/ Heartbeat
  <2>1. AtLeast(slot, st.pos) \in Nat /\ AtLeast(slot, AckLSN) \in Nat
    BY <1>1, <1>8 DEF Acked, AckCheckpoint, Heartbeat, AtLeast, AckLSN, NoSlot
  <2>2. slot' \in Nat /\ UNCHANGED <<st, snd, wal, ckpt>> /\ pc' \in {pc, "recv"}
    BY <1>8, <2>1 DEF AckCheckpoint, Heartbeat, dbVars, connVars, durVars
  <2>3. Acked'
    BY <1>1, <2>2 DEF Acked, NoSlot
  <2>4. QED
    BY <1>1, <2>2, <2>3, SendingStays DEF AckedInv
<1>9. CASE Keepalive
  <2>1. st' = [st EXCEPT !.pos = EndOf(snd.pos)] /\ UNCHANGED <<slot, snd, wal, ckpt, pc>>
        /\ pc = "recv"
    BY <1>9 DEF Keepalive, dbVars, durVars
  <2>2. EndOf(snd.pos) \in Nat
    BY <1>1, EndType DEF Sending, Sender
  <2>3. Acked'
    BY <1>1, <2>1, <2>2 DEF Acked
  <2>4. QED
    BY <1>1, <2>1, <2>3, SendingStays DEF AckedInv
<1>10. CASE LoseConnection \/ Restart \/ LoseSlot
  <2>1. /\ pc' = "down" /\ snd' = NoSession /\ st' = NewState(0)
        /\ wal' = wal /\ ckpt' = ckpt /\ slot' \in {slot, NoSlot}
    BY <1>10 DEF LoseConnection, Restart, LoseSlot, SessionEnds, dbVars, durVars
  <2>2. snd'.sent = [x \in Txn |-> 0] /\ snd'.pos = 0 /\ snd' \in Sender
    BY <2>1 DEF NoSession, Sender
  <2>3. Acked'
    BY <1>1, <2>1 DEF Acked, NewState
  <2>4. QED
    BY <1>1, <2>1, <2>2, <2>3, SendingStays DEF AckedInv
<1>11. CASE UNCHANGED svars
  <2>1. UNCHANGED <<wal, slot, snd, pc, st, ckpt>>
    BY <1>11 DEF svars, dbVars, connVars, durVars
  <2>2. QED
    BY <1>1, <2>1, SendingStays DEF Acked, AckedInv
<1>12. QED
  BY <1>2, <1>3, <1>4, <1>5, <1>6, <1>7, <1>8, <1>9, <1>10, <1>11 DEF Next, Connector

LEMMA AckStep ==
    ASSUME AckedInv, [Next]_svars, slot' # slot, slot # NoSlot, slot' # NoSlot
    PROVE  slot' <= ckpt
<1>1. Acked
  BY DEF AckedInv
<1>2. AckCheckpoint \/ Heartbeat
  BY DEF Next, Connector, Database, WriteRow, Commit, Abort, EnsureSlot, ResetBackfill,
     StartReplication, Decode, HandleXLogData, FlushWALBuf, CheckpointLSN, Keepalive,
     LoseConnection, Restart, LoseSlot, svars
<1>3. CASE AckCheckpoint
  BY <1>1, <1>3 DEF AckCheckpoint, AtLeast, Acked
<1>4. CASE Heartbeat
  BY <1>1, <1>4 DEF Heartbeat, AtLeast, AckLSN, Acked
<1>5. QED
  BY <1>2, <1>3, <1>4

\* CHK-01, without any condition on the server: a standby status, after a commit, on
\* a heartbeat or on request, never names a position beyond the saved checkpoint,
\* however sessions, restarts, lost slots and keepalives interleave.
THEOREM AcknowledgedIsSaved == Spec => AcksOnlySaved
<1>1. Init => AckedInv
  BY AckInit
<1>2. AckedInv /\ [Next]_svars => AckedInv'
  BY AckNext
<1>3. AckedInv /\ [Next]_svars
        => [slot' # slot /\ slot # NoSlot /\ slot' # NoSlot => slot' <= ckpt]_svars
  BY AckStep
<1>4. QED
  BY <1>1, <1>2, <1>3, PTL DEF Spec, AcksOnlySaved

=============================================================================
