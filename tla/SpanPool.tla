------------------------------ MODULE SpanPool ------------------------------
(***************************************************************************)
(* The SpanPool of performance/span_pool.py.  A pool keeps spans for reuse *)
(* in a deque under a lock; a span is reset, checked and unmarked outside  *)
(* it.  An operation is the use of a span between acquire() and release(), *)
(* and stands for the name, the identifiers and the attributes it leaves   *)
(* in the span.                                                            *)
(***************************************************************************)
EXTENDS Integers, FiniteSets, SequencesExt

CONSTANTS Threads,
          PoolSize,        \* pool_size
          MaxCompleted,    \* _max_completed
          MaxOps           \* bound on the operations, which are numbered

PoolAssumption == PoolSize \in Nat /\ MaxCompleted \in Nat \ {0} /\ MaxOps \in Nat

VARIABLES
  available,   \* the deque of spans
  created,     \* _total_created; the spans are 1..created
  completed,   \* the operations in _completed
  content,     \* the operation whose data each span holds
  inUse,       \* _in_use of each span
  pc, span,    \* where each thread is, and the span it has
  op,          \* its operation
  begun,       \* history: operations begun; their number is _total_acquired
  ended,       \* history: the operations recorded by a release, in order
  doubled,     \* history: the spans that a second release() took from a later operation
  mixed        \* history: the operations that had such a span, then or since

vars == <<available, created, completed, content, inUse, pc, span, op, begun, ended,
          doubled, mixed>>

MaxSpans == PoolSize + MaxOps
NoSpan == 0
NoOp   == 0
Location == {"idle", "acquired", "using", "recording", "unmarking", "returning", "released"}

TypeOK ==
  /\ created \in PoolSize..MaxSpans
  /\ available \in Seq(1..created) /\ Len(available) <= PoolSize
  /\ completed \in Seq(1..MaxOps) /\ Len(completed) <= MaxCompleted
  /\ content \in [1..MaxSpans -> 0..MaxOps]
  /\ inUse \in [1..MaxSpans -> BOOLEAN]
  /\ pc \in [Threads -> Location]
  /\ span \in [Threads -> 0..created]
  /\ op \in [Threads -> 0..MaxOps]
  /\ begun \in 0..MaxOps
  /\ ended \in Seq(1..MaxOps)
  /\ doubled \subseteq 1..created /\ mixed \subseteq 1..begun

Init ==
  /\ created = PoolSize
  /\ available = [i \in 1..PoolSize |-> i]
  /\ completed = <<>>
  /\ content = [s \in 1..MaxSpans |-> NoOp]
  /\ inUse = [s \in 1..MaxSpans |-> FALSE]
  /\ pc = [t \in Threads |-> "idle"]
  /\ span = [t \in Threads |-> NoSpan]
  /\ op = [t \in Threads |-> NoOp]
  /\ begun = 0 /\ ended = <<>> /\ doubled = {} /\ mixed = {}

Move(t, from, to) == pc[t] = from /\ pc' = [pc EXCEPT ![t] = to]

\* Faulty: the span stays in the pool.
Take_Peeks == available # <<>> /\ UNCHANGED <<available, created>>

\* acquire(), under the lock: a span from the pool, or a new one.
Take ==
  /\ available # <<>>
  /\ available' = Tail(available)
  /\ UNCHANGED created

Create ==
  /\ available = <<>>
  /\ created' = created + 1
  /\ UNCHANGED available

Acquire(t) ==
  /\ begun < MaxOps
  /\ Move(t, "idle", "acquired")
  /\ Take \/ Create
  /\ span' = [span EXCEPT ![t] = IF created' > created THEN created' ELSE Head(available)]
  /\ begun' = begun + 1
  /\ op' = [op EXCEPT ![t] = begun']
  /\ mixed' = IF span'[t] \in doubled THEN mixed \cup {begun'} ELSE mixed
  /\ UNCHANGED <<completed, content, inUse, ended, doubled>>

\* Faulty: a reused span keeps the data of its last use.
ResetSpan_Partly(t) ==
  /\ Move(t, "acquired", "using")
  /\ inUse' = [inUse EXCEPT ![span[t]] = TRUE]
  /\ content' = [content EXCEPT ![span[t]] = IF @ = NoOp THEN op[t] ELSE @]
  /\ UNCHANGED <<available, created, completed, span, op, begun, ended, doubled, mixed>>

\* reset(): the span is marked after everything else in it was replaced.
ResetSpan(t) ==
  /\ Move(t, "acquired", "using")
  /\ content' = [content EXCEPT ![span[t]] = op[t]]
  /\ inUse' = [inUse EXCEPT ![span[t]] = TRUE]
  /\ UNCHANGED <<available, created, completed, span, op, begun, ended, doubled, mixed>>

\* Faulty: the span is not recorded.
Release_Unrecorded(t) ==
  /\ pc[t] \in {"using", "released"} /\ pc' = [pc EXCEPT ![t] = "unmarking"]
  /\ UNCHANGED <<available, created, completed, content, inUse, span, op, begun, ended>>

\* release(): the mark is tested without the lock ...
Release(t) ==
  /\ pc[t] \in {"using", "released"}
  /\ pc' = [pc EXCEPT ![t] = IF inUse[span[t]] THEN "recording" ELSE "released"]
  /\ UNCHANGED <<available, created, completed, content, inUse, span, op, begun, ended>>

\* ... a copy of the span is kept, under the lock, the oldest falling off, ...
Record(t) ==
  /\ Move(t, "recording", "unmarking")
  /\ LET longer == Append(completed, content[span[t]]) IN
       completed' = IF Len(longer) > MaxCompleted THEN Tail(longer) ELSE longer
  /\ ended' = Append(ended, op[t])
  /\ UNCHANGED <<available, created, content, inUse, span, op, begun, doubled, mixed>>

\* ... and only then is the span unmarked, and returned if the pool has room.
Unmark(t) ==
  /\ Move(t, "unmarking", "returning")
  /\ inUse' = [inUse EXCEPT ![span[t]] = FALSE]
  /\ UNCHANGED <<available, created, completed, content, span, op, begun, ended, doubled,
                 mixed>>

\* Faulty: the last place of the pool is never filled.
Return_OffByOne(t) ==
  /\ Move(t, "returning", "released")
  /\ available' = IF Len(available) < PoolSize - 1 THEN Append(available, span[t])
                                                   ELSE available
  /\ UNCHANGED <<created, completed, content, inUse, span, op, begun, ended, doubled, mixed>>

Return(t) ==
  /\ Move(t, "returning", "released")
  /\ available' = IF Len(available) < PoolSize THEN Append(available, span[t])
                                               ELSE available
  /\ UNCHANGED <<created, completed, content, inUse, span, op, begun, ended, doubled, mixed>>

\* The caller forgets its span.
Forget(t) ==
  /\ Move(t, "released", "idle")
  /\ span' = [span EXCEPT ![t] = NoSpan]
  /\ op' = [op EXCEPT ![t] = NoOp]
  /\ UNCHANGED <<available, created, completed, content, inUse, begun, ended, doubled, mixed>>

Clear ==
  /\ completed' = <<>>
  /\ UNCHANGED <<available, created, content, inUse, pc, span, op, begun, ended, doubled, mixed>>

ReleaseOnce(t) == pc[t] = "using" /\ Release(t) /\ UNCHANGED <<doubled, mixed>>

\* The body of "with pool.span()" may call release() itself, and the exit calls it once
\* more.  The span may have gone to a later operation by then: a mark that is found was
\* made by that operation, and its span is released under it.
ReleaseAgain(t) ==
  /\ pc[t] = "released" /\ Release(t)
  /\ IF inUse[span[t]]
       THEN /\ doubled' = doubled \cup {span[t]}
            /\ mixed' = mixed \cup {op[u] : u \in {v \in Threads : span[v] = span[t]}}
       ELSE UNCHANGED <<doubled, mixed>>

Next == \/ \E t \in Threads :
             \/ Acquire(t) \/ ResetSpan(t) \/ ReleaseOnce(t) \/ ReleaseAgain(t)
             \/ Record(t) \/ Unmark(t) \/ Return(t) \/ Forget(t)
        \/ Clear

Spec == Init /\ [][Next]_vars

-----------------------------------------------------------------------------
Holds(t, s)  == span[t] = s /\ pc[t] \in {"acquired", "using", "recording", "unmarking", "returning"}
Holders(s)   == {t \in Threads : Holds(t, s)}
Pooled(s)    == {i \in DOMAIN available : available[i] = s}

\* A span serves one operation at a time, and is with one thread or once in the pool,
\* unless a second release() took it from a later operation: nothing else makes two
\* operations share a span, and no other span suffers from it.
Exclusive ==
  \A s \in 1..created \ doubled : Cardinality(Holders(s)) + Cardinality(Pooled(s)) <= 1

\* What is kept of a released span is the data of the operation that released it, whoever
\* has used the span since, the latest last; in doubt are only the operations that had a
\* span which was released twice.
KeepsOwnData ==
  LET before == Len(ended) - Len(completed) IN
  /\ before >= 0
  /\ \A i \in DOMAIN completed : ended[before + i] \in {completed[i]} \cup mixed

\* So every other operation that has released its span was recorded exactly once, and
\* none before.
Owes(o) == \E t \in Threads : op[t] = o /\ pc[t] \in {"acquired", "using", "recording"}

RecordedOnce ==
  \A o \in 1..begun \ mixed :
    Cardinality({i \in DOMAIN ended : ended[i] = o}) = IF Owes(o) THEN 0 ELSE 1

\* The pool does not leak while no span was released twice: the spans in it and those
\* with the operations are never fewer than it began with, and only a span beyond
\* pool_size is given up.
SpansConserved ==
  LET out == UNION {Holders(s) : s \in 1..created} IN
  doubled = {} => Len(available) + Cardinality(out) >= PoolSize

\* And such a span in the pool is not marked: a second release() of it does nothing.
PoolInv ==
  /\ TypeOK /\ SpansConserved /\ Exclusive /\ RecordedOnce
  /\ \A s \in ToSet(available) \ doubled : ~inUse[s]
=============================================================================
