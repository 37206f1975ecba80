------------------------------ MODULE Tracing ------------------------------
(***************************************************************************)
(* The Tracer of tracing.py: spans nest by a context variable, which every *)
(* task has a copy of, and are recorded when they end, in a list that is   *)
(* trimmed without a lock.  Spans are numbered in the order in which they  *)
(* are opened; the number of a trace is that of its first span.            *)
(***************************************************************************)
EXTENDS Integers, FiniteSets, Sequences

CONSTANTS Tasks,          \* threads, or tasks of an event loop
          MaxSpans,       \* max_spans
          MaxOpened       \* bound on the spans

TracerAssumption ==
  /\ IsFiniteSet(Tasks) /\ Tasks # {} /\ MaxSpans \in Nat \ {0} /\ MaxOpened \in Nat

VARIABLES
  current,     \* _current_span in each task's context, 0 for None
  open,        \* each task's open spans, with the token of each: what it replaced
  parent, trace, owner,   \* of each span opened so far
  completed,   \* _completed
  ending,      \* the spans each task has ended and not yet recorded
  checking,    \* the tasks that have appended a span and not yet looked at the length
  copy,        \* the shortened list a task is about to assign, or None
  started,     \* history: the tasks that run
  inherited,   \* history: the span current when each task was started
  recorded,    \* history: the spans recorded since the last clear(), in order
  raced        \* history: another task touched the list while one trimmed it

tracerVars == <<current, open, parent, trace, owner, completed, ending, checking, copy,
                started, inherited, recorded, raced>>

Spans  == 1..MaxOpened
None   == <<0>>
Opened == Len(parent)

TypeOK ==
  /\ current \in [Tasks -> 0..Opened] /\ open \in [Tasks -> Seq(Spans \X (0..MaxOpened))]
  /\ parent \in Seq(0..MaxOpened) /\ trace \in Seq(Spans) /\ owner \in Seq(Tasks)
  /\ Len(trace) = Opened /\ Len(owner) = Opened
  /\ completed \in Seq(Spans) /\ recorded \in Seq(Spans)
  /\ ending \in [Tasks -> 0..Opened] /\ copy \in [Tasks -> Seq(Spans) \cup {None}]
  /\ checking \subseteq Tasks /\ started \subseteq Tasks
  /\ inherited \in [Tasks -> 0..Opened] /\ raced \in BOOLEAN

Init ==
  /\ current = [t \in Tasks |-> 0] /\ open = [t \in Tasks |-> <<>>]
  /\ parent = <<>> /\ trace = <<>> /\ owner = <<>> /\ completed = <<>>
  /\ ending = [t \in Tasks |-> 0] /\ copy = [t \in Tasks |-> None]
  /\ started = {CHOOSE t \in Tasks : TRUE} /\ inherited = [t \in Tasks |-> 0]
  /\ checking = {} /\ recorded = <<>> /\ raced = FALSE

Runs(t) == t \in started /\ ending[t] = 0 /\ t \notin checking /\ copy[t] = None

\* A task starts with a copy of its maker's context, a thread with an empty one.
Start(t, u) ==
  /\ Runs(t) /\ u \notin started /\ started' = started \cup {u}
  /\ \E s \in {current[t], 0} :
       current' = [current EXCEPT ![u] = s] /\ inherited' = [inherited EXCEPT ![u] = s]
  /\ UNCHANGED <<open, parent, trace, owner, completed, ending, checking, copy, recorded,
                 raced>>

\* span() and async_span() up to their yield.
Open(t) ==
  LET s == Opened + 1 IN
  /\ Runs(t) /\ s <= MaxOpened
  /\ parent' = Append(parent, current[t]) /\ owner' = Append(owner, t)
  /\ trace' = Append(trace, IF current[t] = 0 THEN s ELSE trace[current[t]])
  /\ open' = [open EXCEPT ![t] = Append(@, <<s, current[t]>>)]
  /\ current' = [current EXCEPT ![t] = s]
  /\ UNCHANGED <<completed, ending, checking, copy, started, inherited, recorded, raced>>

\* Faulty: the variable is cleared and not reset to what the span replaced.
Restored_None(t) == 0

Innermost(t) == open[t][Len(open[t])]
Restored(t) == Innermost(t)[2]

\* The end of the block, by whatever exit: end() and reset(token) ...
End(t) ==
  /\ Runs(t) /\ open[t] # <<>>
  /\ ending' = [ending EXCEPT ![t] = Innermost(t)[1]]
  /\ current' = [current EXCEPT ![t] = Restored(t)]
  /\ open' = [open EXCEPT ![t] = SubSeq(@, 1, Len(@) - 1)]
  /\ UNCHANGED <<parent, trace, owner, completed, checking, copy, started, inherited,
                 recorded, raced>>

\* ... and _record(), which appends the span, ...
Latest(s, n) == SubSeq(s, IF Len(s) > n THEN Len(s) - n + 1 ELSE 1, Len(s))
Trimming(t) == copy[t] # None

Record(t) ==
  /\ ending[t] # 0 /\ ending' = [ending EXCEPT ![t] = 0]
  /\ completed' = Append(completed, ending[t]) /\ recorded' = Append(recorded, ending[t])
  /\ checking' = checking \cup {t}
  /\ raced' = (raced \/ \E u \in Tasks : Trimming(u))
  /\ UNCHANGED <<current, open, parent, trace, owner, copy, started, inherited>>

\* ... copies the end of a list that is too long ...
Check(t) ==
  /\ t \in checking /\ checking' = checking \ {t}
  /\ copy' = [copy EXCEPT ![t] = IF Len(completed) > MaxSpans
                                   THEN Latest(completed, MaxSpans) ELSE None]
  /\ UNCHANGED <<current, open, parent, trace, owner, completed, ending, started,
                 inherited, recorded, raced>>

\* ... and then assigns the copy.
Trim(t) ==
  /\ Trimming(t) /\ completed' = copy[t] /\ copy' = [copy EXCEPT ![t] = None]
  /\ UNCHANGED <<current, open, parent, trace, owner, ending, checking, started,
                 inherited, recorded, raced>>

Clear ==
  /\ completed' = <<>> /\ recorded' = <<>>
  /\ raced' = (raced \/ \E u \in Tasks : Trimming(u))
  /\ UNCHANGED <<current, open, parent, trace, owner, ending, checking, copy, started,
                 inherited>>

Next == \/ \E t \in Tasks : Open(t) \/ End(t) \/ Record(t) \/ Check(t) \/ Trim(t)
                            \/ \E u \in Tasks : Start(t, u)
        \/ Clear

-----------------------------------------------------------------------------
\* The current span of a task is its innermost open one, or with none the one it was
\* started under, be that still open or not.
ContextIsInnermost ==
  \A t \in Tasks :
    current[t] = IF open[t] = <<>> THEN inherited[t] ELSE Innermost(t)[1]

\* A child is opened after its parent, in its trace, and recorded before it if both
\* belong to one task; between tasks the parent may come first.
TracesAreTrees ==
  /\ \A s \in DOMAIN parent :
       parent[s] # 0 => parent[s] < s /\ trace[s] = trace[parent[s]]
  /\ \A i, j \in DOMAIN recorded :
       i < j => recorded[i] # recorded[j]
                /\ ~ /\ parent[recorded[j]] = recorded[i]
                     /\ owner[recorded[j]] = owner[recorded[i]]

\* Unless one task trims the list while another appends to it or clears it, it holds
\* the latest spans, and never many more than its limit.
NewestAreKept ==
  LET busy == checking \cup {t \in Tasks : Trimming(t)} IN
  /\ Len(completed) <= MaxSpans + Cardinality(busy)
  /\ ~raced /\ busy = {} => completed = Latest(recorded, MaxSpans)

TraceInv == TypeOK /\ ContextIsInnermost /\ TracesAreTrees /\ NewestAreKept
=============================================================================
