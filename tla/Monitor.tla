------------------------------- MODULE Monitor -------------------------------
(***************************************************************************)
(* The protocol trace (trace.py), what the transport records in it, the    *)
(* Monitor's WebSocket commands (monitor.py) and the history one page      *)
(* keeps of it (monitor.js).                                               *)
(*                                                                         *)
(* The buffer holds the latest entries.  Every half second a subscription  *)
(* sends the whole buffer; the page merges it into its history by a key in *)
(* which the time counts in milliseconds, and groups the history into      *)
(* transactions.  Commands and snapshots share one connection that keeps   *)
(* their order.  Clocks count in ticks, several of which make up a         *)
(* millisecond; a reading may be any, for the wall clock can be set back.  *)
(***************************************************************************)
EXTENDS Integers, SequencesExt

CONSTANTS
  None,
  Content,       \* what an entry holds next to time and direction: raw, source, latency
  Capacity,      \* of the buffer
  Limit,         \* LOCAL_HISTORY_LIMIT
  TicksPerMs,
  Readings,      \* bound: readings are 0 .. Readings
  MaxRecords,    \* bound: how many entries are recorded
  MaxMessages,   \* bound: how many messages are under way
  MaxEpochs      \* bound: how often the trace starts anew

VARIABLES
  buffer, last,  \* _entries, _last_timestamp
  exchange,      \* the record number of the TX that has no status yet, or 0
  answered,      \* its answer was traced
  count, epoch,  \* history: entries recorded; how often the trace started anew
  loaded,        \* the entry has runtime_data
  subscribed,    \* the page's subscription runs
  channel,       \* what is on its way to the page
  asked,         \* a clear command is on its way to Home Assistant
  awaiting,      \* the page waits for its reply
  page,          \* _history
  cleared        \* history: entries recorded before the clear the page saw last

traceVars == <<buffer, last, exchange, answered, count, epoch, loaded>>
pageVars == <<subscribed, channel, asked, awaiting, page, cleared>>
vars == <<traceVars, pageVars>>

ASSUME MonitorAssumption ==
  /\ {Capacity, Limit, TicksPerMs} \subseteq Nat \ {0} /\ Capacity <= Limit
  /\ MaxMessages \in Nat \ {0} /\ {Readings, MaxRecords, MaxEpochs} \subseteq Nat
  /\ None \notin Nat

-----------------------------------------------------------------------------
\* Mutant: the clock is taken as it is.
StampAsRead(reading) == reading

\* ProtocolTraceBuffer.record: a reading that is not later than the last one
\* counts as a millisecond after it.
Stamp(reading) == IF last # None /\ reading <= last THEN last + TicksPerMs ELSE reading

\* Mutant: the buffer has no bound.
LatestAll(entries, n) == entries

Latest(entries, n) == SubSeq(entries, IF Len(entries) > n THEN Len(entries) - n + 1 ELSE 1, Len(entries))

Record(direction, id) ==
  /\ loaded /\ count < MaxRecords /\ count' = count + 1
  /\ \E reading \in 0 .. Readings, content \in Content :
       LET stamp == Stamp(reading)
           new == [n |-> count + 1, epoch |-> epoch, ms |-> stamp \div TicksPerMs,
                   direction |-> direction, content |-> content, exchange |-> id]
       IN last' = stamp /\ buffer' = Latest(Append(buffer, new), Capacity)
  /\ UNCHANGED <<epoch, loaded, pageVars>>

\* Transport._exchange and _read_loop: TX, then RX if a frame answers, then
\* one status; an exchange that is cancelled has none.  Input events come at
\* any time.
Send == exchange = 0 /\ Record("TX", count + 1) /\ exchange' = count + 1 /\ answered' = FALSE
Answer == exchange # 0 /\ ~answered /\ Record("RX", exchange) /\ answered' = TRUE /\ UNCHANGED exchange
Finish == exchange # 0 /\ Record("STATUS", exchange) /\ exchange' = 0 /\ answered' = FALSE
Abandon ==
  /\ exchange # 0 /\ exchange' = 0 /\ answered' = FALSE
  /\ UNCHANGED <<buffer, last, count, epoch, loaded, pageVars>>
Event == Record("EVENT", 0) /\ UNCHANGED <<exchange, answered>>

\* The trace starts anew: clear(), or the buffer of another hub.
Empty == buffer' = <<>> /\ last' = None /\ epoch < MaxEpochs /\ epoch' = epoch + 1

Unload ==
  /\ loaded /\ loaded' = FALSE /\ Empty /\ exchange' = 0 /\ answered' = FALSE
  /\ UNCHANGED <<count, pageVars>>
Load == ~loaded /\ loaded' = TRUE /\ UNCHANGED <<buffer, last, exchange, answered, count, epoch, pageVars>>

-----------------------------------------------------------------------------
\* websocket_subscribe: publish(), at once and then by timer.  It sends when
\* anything in the snapshot is new, the counters included.
Publish ==
  /\ subscribed /\ Len(channel) < MaxMessages
  /\ channel' = Append(channel, [kind |-> "snapshot", entries |-> buffer])
  /\ UNCHANGED <<traceVars, subscribed, asked, awaiting, page, cleared>>

\* Mutant: the reply to a clear overtakes the snapshots under way.
ClearRunsFirst ==
  /\ asked /\ asked' = FALSE /\ loaded /\ Empty
  /\ channel' = IF awaiting THEN <<[kind |-> "cleared", upto |-> count]>> \o channel ELSE channel
  /\ UNCHANGED <<exchange, answered, count, loaded, subscribed, awaiting, page, cleared>>

\* websocket_clear.
ClearRuns ==
  /\ asked /\ asked' = FALSE /\ loaded /\ Empty
  /\ channel' = IF awaiting THEN Append(channel, [kind |-> "cleared", upto |-> count]) ELSE channel
  /\ UNCHANGED <<exchange, answered, count, loaded, subscribed, awaiting, page, cleared>>

ClearRefused ==
  /\ asked /\ ~loaded /\ asked' = FALSE /\ awaiting' = FALSE
  /\ UNCHANGED <<traceVars, subscribed, channel, page, cleared>>

\* Another administrator's page clears the trace.
ClearElsewhere ==
  loaded /\ Empty /\ UNCHANGED <<exchange, answered, count, loaded, pageVars>>

-----------------------------------------------------------------------------
\* entryKey.
Key(e) == <<e.ms, e.direction, e.content>>

\* mergeTraceHistory: of entries with one key the first is kept.
Firsts(entries) ==
  {i \in DOMAIN entries : \A j \in 1 .. i - 1 : Key(entries[j]) # Key(entries[i])}

\* Mutant: entries of one millisecond change their order.
EarlierReversed(entries, i, j) ==
  entries[i].ms < entries[j].ms \/ (entries[i].ms = entries[j].ms /\ i > j)

\* They are sorted by time, in the order they have within a millisecond.
Earlier(entries, i, j) ==
  entries[i].ms < entries[j].ms \/ (entries[i].ms = entries[j].ms /\ i < j)

Sorted(entries, kept) ==
  [p \in 1 .. Cardinality(kept) |->
     entries[CHOOSE i \in kept : Cardinality({j \in kept : Earlier(entries, j, i)}) = p - 1]]

Merge(existing, incoming) ==
  LET all == existing \o incoming IN Latest(Sorted(all, Firsts(all)), Limit)

\* _select on the same gateway, when the page comes back or is connected
\* again: the history stays, what the old subscription sent is dropped, and
\* so is the reply to a clear.  Without runtime_data it is refused.
Select ==
  /\ subscribed' = loaded
  /\ channel' = IF loaded THEN <<[kind |-> "snapshot", entries |-> buffer]>> ELSE <<>>
  /\ awaiting' = FALSE
  /\ UNCHANGED <<traceVars, asked, page, cleared>>

Arrives(kind) == channel # <<>> /\ Head(channel).kind = kind /\ channel' = Tail(channel)

Ingest ==
  /\ Arrives("snapshot") /\ page' = Merge(page, Head(channel).entries)
  /\ UNCHANGED <<traceVars, subscribed, asked, awaiting, cleared>>

\* _clear, to the call and from its reply.
AskClear ==
  /\ ~asked /\ ~awaiting /\ asked' = TRUE /\ awaiting' = TRUE
  /\ UNCHANGED <<traceVars, subscribed, channel, page, cleared>>

ClearDone ==
  /\ Arrives("cleared") /\ page' = <<>> /\ cleared' = Head(channel).upto /\ awaiting' = FALSE
  /\ UNCHANGED <<traceVars, subscribed, asked>>

-----------------------------------------------------------------------------
\* Mutant: an event ends the transaction before it.
OpensAfterEvent(i) ==
  /\ page[i].direction # "EVENT"
  /\ page[i].direction = "TX" \/ i = 1 \/ page[i - 1].direction = "EVENT"

\* buildTransactions: a TX opens a transaction, and so does what comes before
\* any was opened, events apart.
Opens(i) ==
  /\ page[i].direction # "EVENT"
  /\ page[i].direction = "TX" \/ (\A j \in 1 .. i - 1 : page[j].direction = "EVENT")

\* An event stands alone, the rest belongs to the latest transaction.
Opener(i) == IF page[i].direction = "EVENT" THEN i ELSE Max({j \in 1 .. i : Opens(j)})

Transactions == {{j \in DOMAIN page : Opener(j) = Opener(i)} : i \in DOMAIN page}

-----------------------------------------------------------------------------
Init ==
  /\ buffer = <<>> /\ last = None /\ exchange = 0 /\ answered = FALSE
  /\ count = 0 /\ epoch = 0 /\ loaded = TRUE
  /\ subscribed = FALSE /\ channel = <<>> /\ asked = FALSE /\ awaiting = FALSE
  /\ page = <<>> /\ cleared = 0

TraceStep == Send \/ Answer \/ Finish \/ Abandon \/ Event \/ Unload \/ Load
ServerStep == Publish \/ ClearRuns \/ ClearRefused \/ ClearElsewhere
PageStep == Select \/ Ingest \/ AskClear \/ ClearDone

Next == TraceStep \/ ServerStep \/ PageStep

Spec == Init /\ [][Next]_vars

-----------------------------------------------------------------------------
EntriesOf(entries) == {entries[i] : i \in DOMAIN entries}
OneEpoch(entries) == \A e, d \in EntriesOf(entries) : e.epoch = d.epoch
NoneMissing(entries) ==
  \A e, d \in EntriesOf(entries) : \A n \in e.n .. d.n : \E m \in EntriesOf(entries) : m.n = n

Entry == [n : 1 .. count, epoch : 0 .. epoch, ms : Nat, content : Content,
          direction : {"TX", "RX", "STATUS", "EVENT"}, exchange : 0 .. count]
Message == [kind : {"snapshot"}, entries : Seq(Entry)] \cup [kind : {"cleared"}, upto : 0 .. count]

TypeOK ==
  /\ buffer \in Seq(Entry) /\ Len(buffer) <= Capacity
  /\ page \in Seq(Entry) /\ Len(page) <= Limit
  /\ channel \in Seq(Message) /\ Len(channel) <= MaxMessages + 1
  /\ last \in Nat \cup {None} /\ exchange \in 0 .. count /\ count \in 0 .. MaxRecords
  /\ epoch \in 0 .. MaxEpochs /\ cleared \in 0 .. count
  /\ {answered, loaded, subscribed, asked, awaiting} \subseteq BOOLEAN

(***************************************************************************)
(* A page that holds entries of one run of the trace shows them in the     *)
(* order they were recorded, none of them twice, however snapshots overlap *)
(* and however the clock is set (trace.py record, mergeTraceHistory).      *)
(* With entries of an earlier run next to them a clock that was set back   *)
(* can put the latest first.                                               *)
(***************************************************************************)
PageInOrder ==
  OneEpoch(page) => \A i, j \in DOMAIN page : i < j => page[i].n < page[j].n

(***************************************************************************)
(* After a snapshot was taken in, the newest part of the page is that      *)
(* snapshot: nothing is missing and nothing older follows it.  Entries     *)
(* that only time and content in common milliseconds cannot tell apart,    *)
(* and what an earlier run of the trace left on the page, are excepted.    *)
(***************************************************************************)
Distinguished(entries) ==
  \A e, d \in EntriesOf(entries) : Key(e) = Key(d) => e.n = d.n

Shown ==
  \A snapshot \in {channel[i].entries : i \in {j \in DOMAIN channel : j = 1 /\ channel[j].kind = "snapshot"}} :
    Ingest /\ OneEpoch(page \o snapshot) /\ Distinguished(page \o snapshot)
      => Latest(page', Len(snapshot)) = snapshot

ShowsTrace == [][Shown]_vars

(***************************************************************************)
(* Once the page has taken the reply to its clear, no entry from before    *)
(* the clear comes back, though snapshots with such entries were under way *)
(* (monitor.js _clear).                                                    *)
(***************************************************************************)
ClearedStaysAway == \A e \in EntriesOf(page) : e.n > cleared

(***************************************************************************)
(* A transaction of the page holds entries of one exchange with the        *)
(* gateway, and an event none of them, even when events come between TX    *)
(* and RX (buildTransactions), as long as no entry is missing between.     *)
(***************************************************************************)
TransactionsAreExchanges ==
  OneEpoch(page) /\ NoneMissing(page) =>
    \A t \in Transactions : \A i \in t :
      IF page[i].direction = "EVENT" THEN t = {i}
      ELSE \A j \in DOMAIN page : page[j].direction # "EVENT" =>
             (page[j].exchange = page[i].exchange <=> j \in t)

-----------------------------------------------------------------------------
(***************************************************************************)
(* The inductive invariant: one reply to a clear is on its way at most,    *)
(* what is behind it on the channel was recorded after the clear, and so   *)
(* was what the buffer holds; the clears follow each other.                *)
(***************************************************************************)
Reply(i) == channel[i].kind = "cleared"

OneReply ==
  /\ \A i, j \in DOMAIN channel : Reply(i) /\ Reply(j) => i = j
  /\ \A i \in DOMAIN channel : Reply(i) => awaiting /\ ~asked
  /\ Len(channel) > MaxMessages => \E i \in DOMAIN channel : Reply(i)

After(entries, n) == \A e \in EntriesOf(entries) : e.n > n

ClearInv ==
  /\ After(page, cleared) /\ After(buffer, cleared)
  /\ \A i \in DOMAIN channel : ~Reply(i) => After(channel[i].entries, cleared)
  /\ \A i \in DOMAIN channel : Reply(i) =>
       /\ After(buffer, channel[i].upto)
       /\ \A j \in DOMAIN channel : j > i => After(channel[j].entries, channel[i].upto)
=============================================================================
