------------------------------ MODULE UsageMeter ------------------------------
(***************************************************************************)
(* Usage metering of one organization (backend/apps/billing/services.py    *)
(* and tasks.py): workers increment a Redis counter per billing period, a  *)
(* periodic task copies the counter of the current period to UsageRecord.  *)
(* Redis commands and SQL statements are atomic, what lies between is not; *)
(* Redis may lose a key (restart, memory pressure, TTL) at any time.       *)
(***************************************************************************)
EXTENDS Integers

CONSTANTS
  Callers,       \* processes that run record_event_usage
  Missing,       \* the value of a Redis key or a record that is not there
  MaxPeriod,     \* last billing period (bound)
  MaxCalls,      \* calls of record_event_usage (bound)
  MaxEvictions   \* keys Redis loses (bound)

Periods == 0..MaxPeriod

ASSUME MeterAssumption ==
  /\ MaxPeriod \in Nat /\ MaxCalls \in Nat /\ MaxEvictions \in Nat
  /\ Missing \notin Int

VARIABLES
  period,     \* current_period()
  counter,    \* Redis: usage:<org>:<period>
  record,     \* UsageRecord.events_count of each period
  mt,         \* where each call of record_event_usage is
  fl,         \* where flush_usage is
  calls,      \* calls begun so far
  evictions,  \* keys lost so far
  metered,    \* history: completed calls of each period
  lost,       \* history: increments lost with an evicted key
  torn        \* history: a key was lost in the middle of a call or a flush

storeVars == <<counter, record>>
meterVars == <<period, counter, record, mt, fl, calls, evictions, metered, lost, torn>>

Count(v) == IF v = Missing THEN 0 ELSE v

(* get_usage and aget_usage: the counter, or the record without one.       *)
GetUsage(p) == IF counter[p] # Missing THEN counter[p] ELSE Count(record[p])

IdleCall  == [pc |-> "idle", key |-> 0, base |-> 0]
IdleFlush == [pc |-> "idle", key |-> 0, value |-> 0]

MeterInit ==
  /\ period = 0
  /\ counter = [p \in Periods |-> Missing] /\ record = [p \in Periods |-> Missing]
  /\ mt = [w \in Callers |-> IdleCall] /\ fl = IdleFlush
  /\ calls = 0 /\ evictions = 0
  /\ metered = [p \in Periods |-> 0] /\ lost = [p \in Periods |-> 0]
  /\ torn = FALSE

-----------------------------------------------------------------------------
(* record_event_usage.                                                     *)

Step(w, call) == mt' = [mt EXCEPT ![w] = call]

(* cache.incr on an existing key.                                          *)
Increment(w, key) ==
  /\ counter[key] # Missing
  /\ counter' = [counter EXCEPT ![key] = @ + 1]
  /\ metered' = [metered EXCEPT ![key] = @ + 1]
  /\ Step(w, IdleCall)

(* The key is computed and incremented; without one the call goes on.      *)
MeterIncr(w) ==
  /\ mt[w].pc = "idle"
  /\ calls < MaxCalls
  /\ calls' = calls + 1
  /\ \/ Increment(w, period)
     \/ /\ counter[period] = Missing
        /\ Step(w, [pc |-> "seed", key |-> period, base |-> 0])
        /\ UNCHANGED <<counter, metered>>
  /\ UNCHANGED <<period, record, fl, evictions, lost, torn>>

(* The base is read from the record of the period it is by now, 0 without  *)
(* one.                                                                    *)
SeedWith(w, base) ==
  /\ mt[w].pc = "seed"
  /\ Step(w, [pc |-> "add", key |-> mt[w].key, base |-> base])
  /\ UNCHANGED <<period, storeVars, fl, calls, evictions, metered, lost, torn>>

MeterSeed(w) == SeedWith(w, Count(record[period]))

(* Wrong: the seed overwrites what another worker has seeded.              *)
MeterAddOverwrites(w) ==
  /\ mt[w].pc = "add"
  /\ counter' = [counter EXCEPT ![mt[w].key] = mt[w].base]
  /\ Step(w, [mt[w] EXCEPT !.pc = "incr"])
  /\ UNCHANGED <<period, record, fl, calls, evictions, metered, lost, torn>>

(* cache.add does nothing when another worker has seeded.                  *)
MeterAdd(w) ==
  /\ mt[w].pc = "add"
  /\ counter' = [counter EXCEPT ![mt[w].key] = IF @ = Missing THEN mt[w].base ELSE @]
  /\ Step(w, [mt[w] EXCEPT !.pc = "incr"])
  /\ UNCHANGED <<period, record, fl, calls, evictions, metered, lost, torn>>

MeterIncrAgain(w) ==
  /\ mt[w].pc = "incr"
  /\ \/ Increment(w, mt[w].key)
     \/ /\ counter[mt[w].key] = Missing
        /\ Step(w, [mt[w] EXCEPT !.pc = "set"])
        /\ UNCHANGED <<counter, metered>>
  /\ UNCHANGED <<period, record, fl, calls, evictions, lost, torn>>

(* The key was lost between add and incr: set, whatever is there by now.   *)
MeterSet(w) ==
  /\ mt[w].pc = "set"
  /\ counter' = [counter EXCEPT ![mt[w].key] = mt[w].base + 1]
  /\ metered' = [metered EXCEPT ![mt[w].key] = @ + 1]
  /\ Step(w, IdleCall)
  /\ UNCHANGED <<period, record, fl, calls, evictions, lost, torn>>

(* The worker dies, or Redis or the database fails: metering is best       *)
(* effort, process_event logs the exception and goes on.                   *)
MeterAbandon(w) ==
  /\ mt[w].pc # "idle"
  /\ Step(w, IdleCall)
  /\ UNCHANGED <<period, storeVars, fl, calls, evictions, metered, lost, torn>>

-----------------------------------------------------------------------------
(* flush_usage, time and Redis.                                            *)

(* The month and its counter, read one right after the other.  (A month    *)
(* that ends between the two reads is flushed from its own counter, which  *)
(* the flush of a later write does as well.)                               *)
FlushRead ==
  /\ fl.pc = "idle"
  /\ counter[period] # Missing
  /\ fl' = [pc |-> "write", key |-> period, value |-> counter[period]]
  /\ UNCHANGED <<period, storeVars, mt, calls, evictions, metered, lost, torn>>

FlushWrite ==
  /\ fl.pc = "write"
  /\ record' = [record EXCEPT ![fl.key] = fl.value]
  /\ fl' = IdleFlush
  /\ UNCHANGED <<period, counter, mt, calls, evictions, metered, lost, torn>>

Rollover ==
  /\ period < MaxPeriod
  /\ period' = period + 1
  /\ UNCHANGED <<storeVars, mt, fl, calls, evictions, metered, lost, torn>>

Evict(p) ==
  /\ evictions < MaxEvictions
  /\ counter[p] # Missing
  /\ counter' = [counter EXCEPT ![p] = Missing]
  /\ evictions' = evictions + 1
  /\ lost' = [lost EXCEPT ![p] = @ + counter[p] - Count(record[p])]
  /\ torn' = (torn \/ fl.pc # "idle" \/ \E w \in Callers : mt[w].pc # "idle")
  /\ UNCHANGED <<period, record, mt, fl, calls, metered>>

Meter(w) ==
  \/ MeterIncr(w) \/ MeterSeed(w) \/ MeterAdd(w) \/ MeterIncrAgain(w) \/ MeterSet(w)
  \/ MeterAbandon(w)

MeterNext ==
  \/ \E w \in Callers : Meter(w)
  \/ FlushRead \/ FlushWrite \/ Rollover
  \/ \E p \in Periods : Evict(p)

MeterSpec == MeterInit /\ [][MeterNext]_meterVars

-----------------------------------------------------------------------------
(* Properties.                                                             *)

(* Type invariant of the counters, the records and the calls.              *)
MeterTypeOK ==
  /\ period \in Periods
  /\ counter \in [Periods -> Int \cup {Missing}]
  /\ record \in [Periods -> Int \cup {Missing}]
  /\ mt \in [Callers -> [pc : {"idle", "seed", "add", "incr", "set"}, key : Periods, base : Int]]
  /\ fl \in [pc : {"idle", "write"}, key : Periods, value : Int]
  /\ calls \in Nat /\ evictions \in Nat
  /\ metered \in [Periods -> Int] /\ lost \in [Periods -> Int]
  /\ torn \in BOOLEAN

(* The usage of the current period, which the quota is checked against, is *)
(* exact: however many workers meter the first events at the same time,    *)
(* each completed call counts once, and losing the key costs at most what  *)
(* was not flushed.  (Losing it in the middle of a call is another matter.) *)
UsageExact == ~torn => GetUsage(period) = metered[period] - lost[period]

(* The record of a period never bills more than the calls made in it, also *)
(* when a flush is overtaken by the end of the period or by a lost key.    *)
RecordCovered == ~torn => \A p \in Periods : Count(record[p]) <= metered[p]

(* What an organization is billed and throttled by: seeds, increments,     *)
(* flushes, the end of a period and lost keys leave both right.            *)
BillingRight == UsageExact /\ RecordCovered

(* The inductive invariant behind it: a seed that will take effect is      *)
(* current, a key that was seeded stays, nothing of a later period exists  *)
(* yet, and what a flush carries was metered.                              *)
SeedsCurrent ==
  \A w \in Callers :
    mt[w].key = period =>
      /\ mt[w].pc = "add" /\ counter[period] = Missing => mt[w].base = Count(record[period])
      /\ mt[w].pc = "incr" => counter[period] # Missing
      /\ mt[w].pc # "set"

FutureUntouched ==
  /\ \A p \in Periods : p > period =>
       counter[p] = Missing /\ record[p] = Missing /\ metered[p] = 0 /\ lost[p] = 0
  /\ \A w \in Callers : mt[w].key <= period
  /\ fl.key <= period

FlushCovered ==
  /\ lost[period] >= 0
  /\ Count(record[period]) <= metered[period] - lost[period]
  /\ fl.pc = "write" =>
       /\ fl.value <= metered[fl.key]
       /\ fl.key = period =>
            counter[period] # Missing /\ fl.value <= metered[period] - lost[period]

MeterInv ==
  /\ FutureUntouched
  /\ UsageExact
  /\ RecordCovered
  /\ ~torn => SeedsCurrent /\ FlushCovered

=============================================================================
